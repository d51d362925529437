---------------------------- MODULE ImportLedger ----------------------------
(***************************************************************************)
(* What an importer promises, whatever it does between two transactions:   *)
(* it adds what it reads, it claims an input as read only once everything  *)
(* the input holds is stored, and a row it once stored leaves only by one  *)
(* of four doors: it was superseded, it passed the horizon, or the user    *)
(* cleared its tool or its age.  Clearing a tool withdraws the claims about*)
(* its inputs in the same step.  Ingest implements this specification.     *)
(***************************************************************************)
CONSTANTS Builds, Files, SubFiles, Tools, ToolOf, Keys, KeyTool,
          Yield, Trace, Agg, Old, Horizon, Mark

VARIABLES rows,       \* records held
          steps,      \* steps held
          marks,      \* claims: "build b has read this much of this input"
          transcripts \* sub-agent transcripts that have ever been on disk

ledger == <<rows, steps, marks, transcripts>>

\* What may be missing although its input is claimed: what the user asked to
\* forget by age, and an aggregate whose sub-agent has a transcript.
RowExcused(k) == k \in Old \/ \E s \in transcripts : k = Agg[s]

StepExcused(k) == k \in Old \/ k \in Horizon

\* All that build b extracts from the first n chunks of f is held.
Imported(b, f, n) ==
    /\ \A k \in Yield[b][f][n] : k \in rows \/ RowExcused(k)
    /\ \A k \in Trace[b][f][n] : k \in steps \/ StepExcused(k)

Claimed(m) == Imported(m.build, m.file, m.size)

Init ==
    /\ rows = {} /\ steps = {} /\ marks = {} /\ transcripts = {}

Observe ==
    /\ transcripts \subseteq transcripts' /\ transcripts' \subseteq SubFiles
    /\ UNCHANGED <<rows, steps, marks>>

Import ==
    /\ rows \subseteq rows' /\ steps \subseteq steps'
    /\ UNCHANGED <<marks, transcripts>>

Supersede ==
    /\ rows \ {Agg[s] : s \in transcripts} \subseteq rows' /\ rows' \subseteq rows
    /\ UNCHANGED <<steps, marks, transcripts>>

Expire ==
    /\ steps \ Horizon \subseteq steps' /\ steps' \subseteq steps
    /\ UNCHANGED <<rows, marks, transcripts>>

\* Claims are made only of what is held; they may be dropped at any time,
\* which costs one more reading and nothing else.
Claim ==
    /\ \A m \in marks' : m \in marks \/ (m \in Mark /\ Claimed(m))
    /\ UNCHANGED <<rows, steps, transcripts>>

ForgetTools ==
    \E scope \in SUBSET Tools :
      /\ rows' = {k \in rows : KeyTool[k] \notin scope}
      /\ steps' = {k \in steps : KeyTool[k] \notin scope}
      /\ marks' = {m \in marks : ToolOf[m.file] \notin scope}
      /\ UNCHANGED transcripts

ForgetOld ==
    /\ rows \ Old \subseteq rows' /\ rows' \subseteq rows
    /\ steps \ Old \subseteq steps' /\ steps' \subseteq steps
    /\ UNCHANGED <<marks, transcripts>>

Next ==
    \/ Observe \/ Import \/ Supersede \/ Expire \/ Claim
    \/ ForgetTools \/ ForgetOld

Spec == Init /\ [][Next]_ledger

\* Every claim is true of what is held.
ClaimsHold == \A m \in marks : Claimed(m)
=============================================================================
