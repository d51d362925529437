------------------------------ MODULE Delivery ------------------------------
(***************************************************************************)
(* What evidence --github derives from a pull request's reviews, merge and *)
(* checks (internal/attribution/changes_*.go), out of what a forge still   *)
(* states when it is read (internal/github/delivery.go, dismissals.go).    *)
(* The forge keeps a review's current state and forgets the one before: a  *)
(* dismissed review no longer says what it had asked for.                  *)
(*                                                                         *)
(* A figure is a number, or the reason it is withheld.  A rate is its      *)
(* numerator over a denominator.                                           *)
(***************************************************************************)
EXTENDS Integers, Sequences, FiniteSets, FiniteSetsExt, SequencesExt

CONSTANTS
    NamedPulls,  \* the pull requests some result names
    Heads,       \* the commits a branch may stand at while it is reviewed, in order
    Verdicts,    \* what a submitted review may say
    MaxReviews,  \* bound: reviews of all pull requests
    Bound,       \* rows a bounded connection returns (last: 100)
    Counts,      \* the numbers a timeline's answer may state
    NoHead,      \* a review whose commit the forge no longer names
    Unknown      \* a count the forge did not state

ASSUME DeliveryAssumption ==
    /\ IsFiniteSet(NamedPulls) /\ Heads \subseteq Nat \ {0} /\ Heads # {}
    /\ Verdicts \subseteq {"commented", "approved", "changes_requested"} /\ NoHead \notin Heads
    /\ MaxReviews \in Nat /\ Bound \in Nat \ {0} /\ Counts \subseteq Int

VARIABLES
    pr,      \* pr[r]: what the forge states of r
    asked,   \* history: the commits of r on which a submitted review asked for changes
    answer   \* what the forge answered of a timeline of dismissals

deliveryVars == <<pr, asked, answer>>

ReviewStates == {"pending", "commented", "approved", "changes_requested", "dismissed"}

Review == [state : ReviewStates, commit : Heads \cup {NoHead}]

\* A bounded timeline's answer, each part of which may be left out.
Answers ==
    LET Stated(values) == values \cup {Unknown} IN
    [total : Stated(Counts), filtered : Stated(Counts), paged : Stated(Counts),
     rows : Stated(Counts \cap Nat), before : Stated(BOOLEAN)]

DeliveryTypeOK ==
    /\ \A r \in NamedPulls :
         /\ pr[r].state \in {"open", "closed", "merged"} /\ pr[r].method \in {"none", "merge", "squash", "rebase"}
         /\ pr[r].head \in Heads /\ pr[r].reviews \in Seq(Review)
    /\ asked \in [NamedPulls -> SUBSET Heads] /\ answer \in Answers

DeliveryInit ==
    /\ pr \in [NamedPulls -> {[state |-> "open", method |-> "none", head |-> h, reviews |-> <<>>,
                             stated |-> s] : h \in {Min(Heads)}, s \in BOOLEAN}]
    /\ asked = [r \in NamedPulls |-> {}] /\ answer \in Answers

Reviews(r) == pr[r].reviews

-----------------------------------------------------------------------------
\* The forge (external to the program).

\* A review is submitted at the branch's head, or first kept as a draft.
Submit(r, state) ==
    /\ pr[r].state = "open" /\ MapThenSumSet(LAMBDA q : Len(Reviews(q)), NamedPulls) < MaxReviews
    /\ pr' = [pr EXCEPT ![r].reviews =
         Append(@, [state |-> state, commit |-> pr[r].head])]
    /\ asked' = IF state = "changes_requested" THEN [asked EXCEPT ![r] = @ \cup {pr[r].head}] ELSE asked

\* A draft review is submitted.
SubmitDraft(r, i, state) ==
    /\ Reviews(r)[i].state = "pending"
    /\ pr' = [pr EXCEPT ![r].reviews[i].state = state]
    /\ asked' = IF state = "changes_requested"
                THEN [asked EXCEPT ![r] = @ \cup {Reviews(r)[i].commit}] ELSE asked

\* A review is dismissed, and no longer says what it was.
Dismiss(r, i) ==
    /\ Reviews(r)[i].state \in {"approved", "changes_requested"}
    /\ pr' = [pr EXCEPT ![r].reviews[i].state = "dismissed"]
    /\ UNCHANGED asked

\* A push moves the head; a forced one may leave a review without its commit.
Push(r, head) ==
    /\ pr[r].state = "open" /\ head > pr[r].head
    /\ pr' = [pr EXCEPT ![r].head = head]
    /\ UNCHANGED asked

LoseCommit(r, i) ==
    /\ Reviews(r)[i].commit \notin {NoHead, pr[r].head} /\ Reviews(r)[i].state # "pending"
    /\ pr' = [pr EXCEPT ![r].reviews[i].commit = NoHead]
    /\ UNCHANGED asked

Close(r, method) ==
    /\ pr[r].state = "open"
    /\ pr' = [pr EXCEPT ![r].method = method, ![r].state = IF method = "none" THEN "closed" ELSE "merged"]
    /\ UNCHANGED asked

DeliveryNext ==
    /\ UNCHANGED answer
    /\ \E r \in NamedPulls :
         \/ \E state \in Verdicts \cup {"pending"} : Submit(r, state)
         \/ \E i \in DOMAIN Reviews(r) :
              \/ \E state \in Verdicts : SubmitDraft(r, i, state)
              \/ Dismiss(r, i)
              \/ LoseCommit(r, i)
         \/ \E head \in Heads : Push(r, head)
         \/ \E method \in {"none", "merge", "squash", "rebase"} : Close(r, method)

DeliverySpec == DeliveryInit /\ [][DeliveryNext]_deliveryVars

-----------------------------------------------------------------------------
\* The read.

AtMost(n, m) == IF n < m THEN n ELSE m

\* reviews(last: 100): the newest rows of the connection.
Listed(r) == SubSeq(Reviews(r), Len(Reviews(r)) - AtMost(Len(Reviews(r)), Bound) + 1, Len(Reviews(r)))

\* Seeded fault: a review that no longer states what it asked for is passed over.
GapIgnoringDismissed(r) ==
    IF ~pr[r].stated THEN "reviews-unavailable"
    ELSE IF Len(Listed(r)) # Len(Reviews(r)) THEN "reviews-incomplete"
    ELSE IF \E i \in DOMAIN Listed(r) : Listed(r)[i].state # "dismissed" /\ Listed(r)[i].commit = NoHead
    THEN "reviewed-commit-unavailable" ELSE "none"

\* reviewPopulationGap: why the reviews do not say how often changes were asked
\* for; the first review, in the source's order, that fails says it.
ReviewGap(r) ==
    LET shown == Listed(r)
        unusable == {i \in DOMAIN shown : \/ shown[i].state \in {"dismissed", "pending"}
                                          \/ shown[i].commit = NoHead}
        first == shown[Min(unusable)]
    IN
    IF ~pr[r].stated THEN "reviews-unavailable"
    ELSE IF Len(shown) # Len(Reviews(r)) THEN "reviews-incomplete"
    ELSE IF unusable = {} THEN "none"
    ELSE CASE first.state = "dismissed" -> "dismissed-review-state-history-unavailable"
           [] first.state = "pending" -> "pending-review-not-submitted"
           [] OTHER -> "reviewed-commit-unavailable"

\* requestedChangesRevisions: revisions, not reviews, are counted.
AskedRevisions(r) ==
    {Listed(r)[i].commit : i \in {j \in DOMAIN Listed(r) : Listed(r)[j].state = "changes_requested"}}

\* mergeMethod: only the parents of the merge commit are known; one parent is a
\* squash or a rebase.
Parents(r) == IF pr[r].method = "merge" THEN 2 ELSE 1
MergeMethod(r) ==
    IF pr[r].state # "merged" THEN "pull-request-not-merged"
    ELSE IF Parents(r) > 1 THEN "merge" ELSE "squash-versus-rebase-undetermined"

\* reviewRateGap: what keeps a pull request out of the rate.
RateGap(r) ==
    IF ReviewGap(r) # "none" THEN ReviewGap(r)
    ELSE IF Reviews(r) = <<>> THEN "no-submitted-review-observations" ELSE "none"

MergedRequests == {r \in NamedPulls : pr[r].state = "merged"}

\* deliveryRates: withheld unless every merged pull request can be counted.
ReviewRate ==
    LET gaps == {RateGap(r) : r \in MergedRequests} \ {"none"} IN
    IF MergedRequests = {} THEN [reason |-> "no-named-merged-pull-requests"]
    ELSE IF gaps # {}
    THEN [reason |-> IF Cardinality(gaps) = 1 THEN CHOOSE g \in gaps : TRUE
                     ELSE "ineligible-review-populations"]
    ELSE [numerator |-> Cardinality({r \in MergedRequests : AskedRevisions(r) # {}}),
          denominator |-> Cardinality(MergedRequests)]

\* What is derived of a pull request is what happened to it, though the forge
\* kept only part of that: the revisions on which changes were asked for, the
\* way it was merged, and the share of all merged ones that were sent back.
DerivedIsTrue ==
    /\ \A r \in NamedPulls :
         /\ ReviewGap(r) = "none" => AskedRevisions(r) = asked[r]
         /\ MergeMethod(r) = "merge" <=> pr[r].method = "merge"
    /\ "numerator" \in DOMAIN ReviewRate =>
         /\ ReviewRate.denominator = Cardinality({r \in NamedPulls : pr[r].method # "none"})
         /\ ReviewRate.numerator = Cardinality({r \in MergedRequests : asked[r] # {}})

-----------------------------------------------------------------------------
\* The population of a bounded timeline of dismissals (dismissalPopulation).

\* What no timeline read with last: Bound could have answered.
ContradictsItself(a) ==
    LET Known(n) == n # Unknown IN
    \/ \E n \in {a.total, a.filtered, a.paged} \ {Unknown} : n < 0
    \/ Known(a.rows) /\ a.rows > Bound
    \/ Known(a.total) /\ Known(a.rows) /\ a.rows > a.total
    \/ Known(a.total) /\ Known(a.filtered) /\ a.filtered > a.total
    \/ Known(a.paged) /\ a.paged > Bound
    \/ Known(a.total) /\ Known(a.paged) /\ a.paged > a.total
    \/ Known(a.filtered) /\ Known(a.rows) /\ a.rows # AtMost(a.filtered, Bound)
    \/ Known(a.filtered) /\ Known(a.paged) /\ a.paged # AtMost(a.filtered, Bound)
    \/ Known(a.paged) /\ Known(a.rows) /\ a.paged # a.rows
    \/ Known(a.before) /\ \/ Known(a.filtered) /\ a.before # (a.filtered > Bound)
                          \/ a.before /\ Known(a.total) /\ a.total <= Bound
                          \/ a.before /\ Known(a.paged) /\ a.paged # Bound
                          \/ a.before /\ Known(a.rows) /\ a.rows # Bound

\* "error" fails the whole document, "unavailable" is no population, else read.
Population(a) ==
    IF ContradictsItself(a) THEN "error"
    ELSE IF Unknown \in {a.total, a.filtered, a.paged, a.rows, a.before} THEN "unavailable"
    ELSE "read"

\* The answer a timeline of so many entries, so many of them dismissals, gives.
TimelineAnswer(total, filtered) ==
    [total |-> total, filtered |-> filtered, paged |-> AtMost(filtered, Bound),
     rows |-> AtMost(filtered, Bound), before |-> filtered > Bound]

\* The answer with some of its fields not stated.
Withholds(whole, a) == \A f \in DOMAIN a : a[f] \in {whole[f], Unknown}

\* A population is read exactly when some timeline gives it, and an answer that
\* only leaves fields out is never mistaken for a contradiction.
PopulationHonest(a) ==
    /\ Population(a) = "read" =>
         \E total \in 0..a.total, filtered \in 0..a.total :
           filtered <= total /\ a = TimelineAnswer(total, filtered)
    /\ (\E total \in 0..Bound + 2, filtered \in 0..Bound + 2 :
          filtered <= total /\ Withholds(TimelineAnswer(total, filtered), a))
         => Population(a) # "error"

\* What is derived of reviews and merges is what happened, and every answer is
\* read as no timeline but its own could have given it.
DeliveryTrue == DeliveryTypeOK /\ DerivedIsTrue /\ PopulationHonest(answer)
=============================================================================
