---------------------------- MODULE SessionStore ----------------------------
(***************************************************************************)
(* What the web server remembers of a visitor between two questions:       *)
(* turn/session.py keeps it in memory, in the order of last use;           *)
(* turn/session_storage.py puts a table behind it, so that it survives a   *)
(* restart.  A request opens the session its cookie presents when it       *)
(* starts, and remembers the finished turn in it minutes later.            *)
(*                                                                         *)
(* memory is the OrderedDict: a function of the ids it holds, and order    *)
(* the pairs <<i, j>> in which i comes before j.                           *)
(***************************************************************************)
EXTENDS Integers, Sequences, FiniteSets

CONSTANTS Ids,          \* tokens the store may mint
          Slots,        \* CARRIED_SLOTS: the facts about a building it keeps
          Values,       \* what one of them may be
          Questions,    \* the texts a turn may leave pending
          MaxSessions,  \* DEFAULT_MAX_SESSIONS
          IdleSeconds,  \* DEFAULT_IDLE_SECONDS
          MaxTurns      \* MAX_TURNS

ASSUME StoreBounds ==
  /\ Ids \subseteq Nat \ {0}
  /\ MaxSessions \in Nat \ {0}
  /\ IdleSeconds \in Nat
  /\ MaxTurns \in Nat \ {0}

\* a slot a turn did not mention, a turn that leaves nothing pending
Unsaid == "unsaid"
Settled == "settled"
\* a cookie that no store minted, or no cookie at all
NoSession == 0

VARIABLES backend,  \* the store open_persisted_session_store returned
          memory,   \* SessionStore._sessions
          order,    \* ... and the order it is kept in
          table,    \* the rows of `sessions`
          clock,    \* time.monotonic()
          minted,   \* ids handed out since the table was created
          told,     \* told[i]: the turns remember() was called with for i
          heard,    \* heard[i]: when i was minted or last written
          faults,   \* statements the database refused
          reboots   \* times the monotonic clock started over

sessionVars ==
  <<backend, memory, order, table, clock, minted, told, heard, faults, reboots>>

SaidSlots == [Slots -> Values \cup {Unsaid}]
Turn == [slots : SaidSlots, pending : Questions \cup {Settled}, text : Nat]
Session == [touched : Int, slots : SaidSlots,
            pending : Questions \cup {Settled}, turns : Seq(Nat)]

Persisted == backend # "memory"
Cutoff == clock - IdleSeconds

NewSession ==
  [touched |-> clock, slots |-> [s \in Slots |-> Unsaid],
   pending |-> Settled, turns |-> <<>>]

----------------------------------------------------------------------------
(* The ordered dictionary.                                                 *)

Keep(f, S) == [i \in S |-> f[i]]
(* Mutant: a session that is swept keeps its place in the order.            *)
KeepOrder_Whole(o, S) == o

KeepOrder(o, S) == {p \in o : p[1] \in S /\ p[2] \in S}
Put(f, i, s) == [j \in DOMAIN f \cup {i} |-> IF j = i THEN s ELSE f[j]]
MovedToEnd(o, i, S) ==
  {p \in o : p[1] # i /\ p[2] # i} \cup {<<j, i>> : j \in S \ {i}}

\* _sweep stops at the first session that is not expired
Swept(f, o) ==
  {j \in DOMAIN f :
     \E k \in DOMAIN f : (k = j \/ <<k, j>> \in o) /\ f[k].touched > Cutoff}

(* Mutant: one too many.                                                    *)
Newest_OneMore(S, o) == {j \in S : Cardinality({k \in S : <<j, k>> \in o}) <= MaxSessions}

\* the least recently used go once more than max_sessions are held
Newest(S, o) == {j \in S : Cardinality({k \in S : <<j, k>> \in o}) < MaxSessions}

----------------------------------------------------------------------------
(* The table.  A statement the database refuses changes nothing and is     *)
(* passed over in silence.                                                 *)

(* Mutant: a row is expired at the limit, not past it.                      *)
SweepDb_AtTheLimit(rows, ok) ==
  IF ok THEN Keep(rows, {i \in DOMAIN rows : rows[i].touched > Cutoff}) ELSE rows

SweepDb(rows, ok) ==
  IF ok THEN Keep(rows, {i \in DOMAIN rows : rows[i].touched >= Cutoff}) ELSE rows

SaveDb(rows, f, i, ok) ==
  IF ok /\ i \in DOMAIN f THEN Put(rows, i, f[i]) ELSE rows

\* the lookup is written with SQLite's placeholder, which PostgreSQL refuses
Loads(rows, i, ok) ==
  /\ ok
  /\ backend = "sqlite"
  /\ i \in DOMAIN rows
  /\ rows[i].touched >= Cutoff

Outcomes == [sweep : BOOLEAN, load : BOOLEAN, save : BOOLEAN]
AllWell == [sweep |-> TRUE, load |-> TRUE, save |-> TRUE]
Refused(o) == Cardinality({f \in {"sweep", "load", "save"} : ~o[f]})

----------------------------------------------------------------------------
(* The operations.                                                         *)

Touched(s) == [touched |-> clock, slots |-> s.slots,
               pending |-> s.pending, turns |-> s.turns]

\* SessionStore.open, once the id presented is not one it holds
Mint(i) ==
  LET live == Swept(memory, order)
      all == live \cup {i}
      last == MovedToEnd(KeepOrder(order, live), i, all)
      kept == Newest(all, last)
  IN  /\ i \notin minted
      /\ minted' = minted \cup {i}
      /\ memory' = Keep(Put(memory, i, NewSession), kept)
      /\ order' = KeepOrder(last, kept)
      /\ told' = [told EXCEPT ![i] = <<>>]
      /\ heard' = [heard EXCEPT ![i] = clock]

(* Mutant: an id that is not held is taken as it was presented.             *)
OpenInMemory_AnyId(presented, i) ==
  LET live == Swept(memory, order)
  IN  /\ backend = "memory"
      /\ memory' = Put(Keep(memory, live), presented, NewSession)
      /\ order' = MovedToEnd(KeepOrder(order, live), presented, live \cup {presented})
      /\ UNCHANGED <<minted, told, heard, table, faults>>

OpenInMemory(presented, i) ==
  LET live == Swept(memory, order)
  IN  /\ backend = "memory"
      /\ IF presented \in live
         THEN /\ i = presented
              /\ memory' = [j \in live |-> IF j = i THEN Touched(memory[j]) ELSE memory[j]]
              /\ order' = MovedToEnd(KeepOrder(order, live), i, live)
              /\ UNCHANGED <<minted, told, heard>>
         ELSE Mint(i)
      /\ UNCHANGED <<table, faults>>

OpenPersisted(presented, i, o) ==
  LET rows == SweepDb(table, o.sweep)
  IN  /\ Persisted
      /\ IF Loads(rows, presented, o.load)
         THEN /\ i = presented
              /\ memory' = Put(memory, i, rows[i])
              /\ order' = MovedToEnd(order, i, DOMAIN memory \cup {i})
              /\ table' = rows
              /\ UNCHANGED <<minted, told, heard>>
         ELSE /\ Mint(i)
              /\ table' = SaveDb(rows, memory', i, o.save)
      /\ faults' = faults + Refused(o)

\* a request that presents a cookie is given the session it belongs to
Open(presented, i, o) ==
  /\ OpenInMemory(presented, i) \/ OpenPersisted(presented, i, o)
  /\ UNCHANGED <<backend, clock, reboots>>

\* carried, pending and turns: the wrapped store answers, the table is swept
Look(o) ==
  /\ Persisted
  /\ table' = SweepDb(table, o.sweep)
  /\ faults' = faults + Refused(o)
  /\ UNCHANGED <<backend, memory, order, clock, minted, told, heard, reboots>>

Latest(ts) == SubSeq(ts, IF Len(ts) > MaxTurns THEN Len(ts) - MaxTurns + 1 ELSE 1, Len(ts))

(* Mutant: what was pending stays so until another question is.             *)
Folded_KeepsPending(s, t) ==
  [touched |-> clock,
   slots |-> [n \in Slots |-> IF t.slots[n] = Unsaid THEN s.slots[n] ELSE t.slots[n]],
   pending |-> IF t.pending = Settled THEN s.pending ELSE t.pending,
   turns |-> Latest(Append(s.turns, t.text))]

Folded(s, t) ==
  [touched |-> clock,
   slots |-> [n \in Slots |-> IF t.slots[n] = Unsaid THEN s.slots[n] ELSE t.slots[n]],
   pending |-> t.pending,
   turns |-> Latest(Append(s.turns, t.text))]

(* Mutant: the row is written before the turn is folded in.                 *)
Remember_SavesFirst(i, t, o) ==
  /\ memory' = IF i \in DOMAIN memory
               THEN [memory EXCEPT ![i] = Folded(memory[i], t)] ELSE memory
  /\ table' = IF Persisted THEN SweepDb(SaveDb(table, memory, i, o.save), o.sweep) ELSE table
  /\ told' = [told EXCEPT ![i] = Append(told[i], t)]
  /\ heard' = IF i \in DOMAIN memory THEN [heard EXCEPT ![i] = clock] ELSE heard
  /\ faults' = IF Persisted THEN faults + Refused(o) ELSE faults
  /\ UNCHANGED <<backend, order, clock, minted, reboots>>

\* one finished turn; it renews the session where it stands in the order
Remember(i, t, o) ==
  /\ memory' = IF i \in DOMAIN memory
               THEN [memory EXCEPT ![i] = Folded(memory[i], t)] ELSE memory
  /\ table' = IF Persisted THEN SweepDb(SaveDb(table, memory', i, o.save), o.sweep)
              ELSE table
  /\ told' = [told EXCEPT ![i] = Append(told[i], t)]
  /\ heard' = IF i \in DOMAIN memory THEN [heard EXCEPT ![i] = clock] ELSE heard
  /\ faults' = IF Persisted THEN faults + Refused(o) ELSE faults
  /\ UNCHANGED <<backend, order, clock, minted, reboots>>

Tick ==
  /\ clock' = clock + 1
  /\ UNCHANGED <<backend, memory, order, table, minted, told, heard, faults, reboots>>

\* the server stops and starts again: the table is all that is left
Restart ==
  /\ memory' = Keep(memory, {})
  /\ order' = {}
  /\ UNCHANGED <<backend, table, clock, minted, told, heard, faults, reboots>>

\* the machine does: a monotonic clock means nothing across that
Reboot ==
  /\ memory' = Keep(memory, {})
  /\ order' = {}
  /\ clock' = 0
  /\ reboots' = reboots + 1
  /\ UNCHANGED <<backend, table, minted, told, heard, faults>>

SessionInit ==
  /\ backend \in {"memory", "sqlite", "postgres"}
  /\ memory = [i \in {} |-> NewSession]
  /\ order = {}
  /\ table = [i \in {} |-> NewSession]
  /\ clock = 0
  /\ minted = {}
  /\ told = [i \in Ids |-> <<>>]
  /\ heard = [i \in Ids |-> 0]
  /\ faults = 0
  /\ reboots = 0

SessionNext ==
  \/ \E presented \in minted \cup {NoSession}, i \in Ids, o \in Outcomes :
       Open(presented, i, o)
  \/ \E o \in Outcomes : Look(o)
  \/ \E i \in minted, t \in Turn, o \in Outcomes : Remember(i, t, o)
  \/ Tick
  \/ Restart
  \/ Reboot

SessionSpec == SessionInit /\ [][SessionNext]_sessionVars

----------------------------------------------------------------------------
(* Properties.                                                             *)

\* The values the variables take.  [session.py, session_storage.py]
SessionTypeOK ==
  /\ backend \in {"memory", "sqlite", "postgres"}
  /\ DOMAIN memory \subseteq Ids /\ \A i \in DOMAIN memory : memory[i] \in Session
  /\ DOMAIN table \subseteq Ids /\ \A i \in DOMAIN table : table[i] \in Session
  /\ order \subseteq (DOMAIN memory) \X (DOMAIN memory)
  /\ clock \in Nat /\ faults \in Nat /\ reboots \in Nat
  /\ minted \subseteq Ids
  /\ told \in [Ids -> Seq(Turn)]
  /\ heard \in [Ids -> Nat]

\* An id invented by a caller names no session, whatever was presented,
\* written late or loaded back.  [SessionStore.open, SessionStore.remember]
OnlyMinted == DOMAIN memory \cup DOMAIN table \subseteq minted

\* the ways to pass over some of n turns, and the turns that are left
Increasing(n) ==
  UNION {{at \in [1..m -> 1..n] : \A j, k \in 1..m : j < k => at[j] < at[k]} : m \in 0..n}
Picked(ts, at) == [k \in DOMAIN at |-> ts[at[k]]]

\* what a session holds when it was told these turns and no others
Holds(s, ts) ==
  /\ s.turns = Latest([n \in DOMAIN ts |-> ts[n].text])
  /\ s.pending = IF ts = <<>> THEN Settled ELSE ts[Len(ts)].pending
  /\ \A n \in Slots :
       LET said == {k \in DOMAIN ts : ts[k].slots[n] # Unsaid}
       IN  IF said = {} THEN s.slots[n] = Unsaid
           ELSE \E k \in said : /\ \A j \in said : j <= k
                                /\ s.slots[n] = ts[k].slots[n]

\* Whatever is lost, evicted, reloaded or refused, a session shows turns
\* that were told under its own id, in the order they were told, and carries
\* the facts those very turns established: nobody reads a mixture.
RecallsItsOwn ==
  /\ \A i \in DOMAIN memory :
       \E at \in Increasing(Len(told[i])) : Holds(memory[i], Picked(told[i], at))
  /\ \A i \in DOMAIN table :
       \E at \in Increasing(Len(told[i])) : Holds(table[i], Picked(told[i], at))

\* While no statement is refused, the two layers never tell two stories: a
\* row and the session in memory of one id are the same session.
LayersInStep ==
  Persisted /\ faults = 0 =>
    \A i \in DOMAIN memory \cap DOMAIN table : memory[i] = table[i]

\* Minting is what bounds the memory: it never leaves more than max_sessions
\* behind, whatever was loaded from the table before.
MintingBounds ==
  [][minted' # minted => Cardinality(DOMAIN memory') <= MaxSessions]_sessionVars

\* With SQLite behind it and no statement refused, a visitor who comes back
\* within the idle period of the last turn that was written finds the session,
\* through any eviction and restart, and one who comes later never does.
HonouredWhileFresh ==
  [][\A i \in minted, j \in Ids :
       backend = "sqlite" /\ reboots = 0 /\ Open(i, j, AllWell) /\ faults = 0
         => (j = i <=> heard[i] >= Cutoff)]_sessionVars
=============================================================================
