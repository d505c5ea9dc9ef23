---------------------------- MODULE AttemptLedger ----------------------------
(***************************************************************************)
(* What the job queue promises of a schedule period, with no process, no   *)
(* clock and no table in it: a ledger of attempts.                         *)
(*                                                                         *)
(* A period is accepted once and attempted at most MaxAttempts times.  An  *)
(* attempt begins only while no attempt of any period is in force, it may  *)
(* lapse at any moment, and a lapsed attempt may still bring its verdict   *)
(* until the next one of its period begins.  A period whose last attempt   *)
(* lapsed is given up when somebody next looks for work.  What is entered  *)
(* as done or dead stays, and a death has a reason.                        *)
(***************************************************************************)
EXTENDS Integers

CONSTANTS
  Periods,        \* the schedule periods there may be
  MaxAttempts,
  Reasons,        \* what a failed attempt may say
  NoReason,
  Abandoned,      \* what the ledger says of an attempt that said nothing
  Releases,       \* what an attempt may have published
  Nothing         \* that it published nothing

VARIABLES
  ledger,         \* the entry of each period
  inForce         \* the periods whose attempt is in force: never two of them

vars == <<ledger, inForce>>

Entry(status, attempts, reason, release) ==
  [status |-> status, attempts |-> attempts, reason |-> reason, release |-> release]

Init ==
  /\ ledger = [p \in Periods |-> Entry("absent", 0, NoReason, Nothing)]
  /\ inForce = {}

Lapsed(p) == ledger[p].status = "running" /\ p \notin inForce
Exhausted(p) == ledger[p].attempts = MaxAttempts

AfterGivingUp ==
  [p \in Periods |->
     IF Lapsed(p) /\ Exhausted(p)
     THEN Entry("dead", MaxAttempts, Abandoned, ledger[p].release)
     ELSE ledger[p]]

Accept(p) ==
  /\ ledger[p].status = "absent"
  /\ ledger' = [ledger EXCEPT ![p] = Entry("pending", 0, NoReason, Nothing)]
  /\ UNCHANGED inForce

GiveUp ==
  /\ UNCHANGED inForce
  /\ ledger' = AfterGivingUp

Begin(p) ==
  /\ inForce = {}
  /\ ledger[p].status \in {"pending", "running"} /\ ~Exhausted(p)
  /\ ledger' = [AfterGivingUp EXCEPT ![p] =
                  Entry("running", ledger[p].attempts + 1,
                        ledger[p].reason, ledger[p].release)]
  /\ inForce' = {p}

Lapse ==
  /\ inForce' = {}
  /\ UNCHANGED ledger

Succeeded(p, release) == Entry("done", ledger[p].attempts, NoReason, release)

Failed(p, reason, release) ==
  Entry(IF Exhausted(p) THEN "dead" ELSE "pending", ledger[p].attempts, reason, release)

Conclude(p) ==
  /\ ledger[p].status = "running"
  /\ \E release \in Releases \cup {Nothing} :
       \/ ledger' = [ledger EXCEPT ![p] = Succeeded(p, release)]
       \/ \E reason \in Reasons :
            ledger' = [ledger EXCEPT ![p] = Failed(p, reason, release)]
  /\ inForce' = inForce \ {p}

Next ==
  \/ Lapse
  \/ GiveUp
  \/ \E p \in Periods : Accept(p) \/ Begin(p) \/ Conclude(p)

Spec == Init /\ [][Next]_vars
=============================================================================
