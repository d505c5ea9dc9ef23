------------------------- MODULE SessionStoreProofs -------------------------
(***************************************************************************)
(* The session store for any ids, facts, bounds and clock: what it hands   *)
(* back to a visitor is the visitor's own, one way or another.             *)
(*                                                                         *)
(* Three facts carry the rest.  The order of the dictionary is a strict    *)
(* linear one, so that keeping the newest keeps at most max_sessions.      *)
(* Nothing is held, in memory or in the table, under an id that was not    *)
(* minted, so that a new id finds nothing of an old one.  And as long as   *)
(* nothing is refused, a row is what was last written, and a missing row   *)
(* was too old to be kept.                                                 *)
(***************************************************************************)
EXTENDS SessionStore, FiniteSetTheorems, SequenceTheorems, TLAPS

\* o orders S, each element before or after each other
Linear(o, S) ==
  /\ o \subseteq S \X S
  /\ \A i \in S : <<i, i>> \notin o
  /\ \A i, j \in S : i = j \/ <<i, j>> \in o \/ <<j, i>> \in o
  /\ \A i, j, k \in S : <<i, j>> \in o /\ <<j, k>> \in o => <<i, k>> \in o

\* The dictionary is finite and ordered.
Ordered == IsFiniteSet(DOMAIN memory) /\ Linear(order, DOMAIN memory)

\* With SQLite behind it and nothing refused, a row is what was last written,
\* and an id without one has been idle for too long.
Fresh ==
  backend = "sqlite" /\ reboots = 0 /\ faults = 0 =>
    \A i \in minted : IF i \in DOMAIN table THEN table[i].touched = heard[i]
                      ELSE heard[i] < Cutoff

-----------------------------------------------------------------------------
(* The ordered dictionary.                                                 *)

LEMMA KeptIsLinear ==
  ASSUME NEW o, NEW S, Linear(o, S), NEW T \in SUBSET S
  PROVE  Linear(KeepOrder(o, T), T)
  <1> DEFINE kept == KeepOrder(o, T)
  <1>1. \A j, k : <<j, k>> \in kept <=> <<j, k>> \in o /\ j \in T /\ k \in T
    BY DEF KeepOrder
  <1>2. kept \subseteq T \X T
    BY DEF KeepOrder, Linear
  <1> HIDE DEF kept
  <1>3. \A i \in T : <<i, i>> \notin kept
    BY <1>1 DEF Linear
  <1>4. \A i, j \in T : i = j \/ <<i, j>> \in kept \/ <<j, i>> \in kept
    BY <1>1 DEF Linear
  <1>5. \A i, j, k \in T : <<i, j>> \in kept /\ <<j, k>> \in kept => <<i, k>> \in kept
    BY <1>1 DEF Linear
  <1>6. Linear(kept, T)
    BY <1>2, <1>3, <1>4, <1>5 DEF Linear
  <1> QED
    BY <1>6 DEF kept

LEMMA MovedIsLinear ==
  ASSUME NEW o, NEW S, Linear(o, S), NEW i
  PROVE  Linear(MovedToEnd(o, i, S \cup {i}), S \cup {i})
  <1> DEFINE T == S \cup {i}
             moved == MovedToEnd(o, i, T)
  <1>1. \A j, k : <<j, k>> \in moved <=>
          \/ <<j, k>> \in o /\ j # i /\ k # i
          \/ k = i /\ j \in S \ {i}
    <2> DEFINE others == {p \in o : p[1] # i /\ p[2] # i}
               pairs == {<<j, i>> : j \in T \ {i}}
    <2>1. \A j, k : <<j, k>> \in others <=> <<j, k>> \in o /\ j # i /\ k # i
      OBVIOUS
    <2>2. \A j, k : <<j, k>> \in pairs <=> k = i /\ j \in S \ {i}
      OBVIOUS
    <2>3. moved = others \cup pairs
      BY DEF MovedToEnd
    <2> HIDE DEF moved, others, pairs
    <2> QED
      BY <2>1, <2>2, <2>3
  <1>2. moved \subseteq T \X T
    BY DEF MovedToEnd, Linear
  <1> HIDE DEF moved
  <1>3. \A j \in T : <<j, j>> \notin moved
    BY <1>1 DEF Linear
  <1>4. \A j, k \in T : j = k \/ <<j, k>> \in moved \/ <<k, j>> \in moved
    BY <1>1 DEF Linear
  <1>5. \A j, k, l \in T : <<j, k>> \in moved /\ <<k, l>> \in moved => <<j, l>> \in moved
    BY <1>1 DEF Linear
  <1>6. Linear(moved, T)
    BY <1>2, <1>3, <1>4, <1>5 DEF Linear
  <1> QED
    BY <1>6 DEF moved

\* Of a dictionary in order, no more than max_sessions are the newest.
LEMMA NewestAreFew ==
  ASSUME NEW S, IsFiniteSet(S), NEW o, Linear(o, S)
  PROVE  Cardinality(Newest(S, o)) <= MaxSessions
  <1> DEFINE After(j) == {k \in S : <<j, k>> \in o}
             N == Newest(S, o)
             f == [j \in N |-> Cardinality(After(j))]
  <1>1. \A j : IsFiniteSet(After(j)) /\ Cardinality(After(j)) \in Nat
    <2>1. \A j : After(j) \in SUBSET S
      OBVIOUS
    <2> HIDE DEF After
    <2> QED
      BY <2>1, FS_Subset, FS_CardinalityType
  <1>2. MaxSessions \in Nat \ {0}
    BY StoreBounds
  <1>3. N \subseteq S /\ \A j \in N : Cardinality(After(j)) < MaxSessions
    BY DEF Newest
  <1>4. f \in [N -> 0 .. MaxSessions - 1]
    <2> HIDE DEF After, N
    <2>1. \A j \in N : Cardinality(After(j)) \in 0 .. MaxSessions - 1
      BY <1>1, <1>2, <1>3
    <2> QED
      BY <2>1
  <1>5. ASSUME NEW j \in S, NEW k \in S, <<j, k>> \in o
        PROVE  Cardinality(After(k)) < Cardinality(After(j))
    <2>1. After(k) \subseteq After(j) /\ k \in After(j) /\ k \notin After(k)
      BY <1>5 DEF Linear
    <2>2. Cardinality(After(k)) <= Cardinality(After(j))
          /\ (Cardinality(After(j)) = Cardinality(After(k)) => After(j) = After(k))
      BY <1>1, <2>1, FS_Subset
    <2> HIDE DEF After
    <2> QED
      BY <1>1, <2>1, <2>2
  <1>6. ASSUME NEW j \in N, NEW k \in N, f[j] = f[k] PROVE j = k
    <2>1. Cardinality(After(j)) = Cardinality(After(k))
      BY <1>6
    <2>2. j = k \/ <<j, k>> \in o \/ <<k, j>> \in o
      BY <1>3 DEF Linear
    <2> HIDE DEF After, N
    <2> QED
      BY <1>1, <1>3, <1>5, <2>1, <2>2
  <1>7. f \in Injection(N, 0 .. MaxSessions - 1)
    BY <1>4, <1>6 DEF Injection, IsInjective
  <1>8. IsFiniteSet(0 .. MaxSessions - 1) /\ Cardinality(0 .. MaxSessions - 1) = MaxSessions
    BY <1>2, FS_Interval
  <1> QED
    BY <1>7, <1>8, FS_Injection

\* What was moved to the end last is among the newest.
LEMMA LastIsNewest ==
  ASSUME NEW S, NEW o, Linear(o, S), NEW i
  PROVE  i \in Newest(S \cup {i}, MovedToEnd(o, i, S \cup {i}))
  <1> DEFINE T == S \cup {i}
  <1>1. {k \in T : <<i, k>> \in MovedToEnd(o, i, T)} = {}
    BY DEF MovedToEnd, Linear
  <1>2. 0 < MaxSessions
    BY StoreBounds
  <1> QED
    BY <1>1, <1>2, FS_EmptySet DEF Newest

\* Statements that are all accepted.
LEMMA NothingRefused ==
  ASSUME NEW o \in Outcomes
  PROVE  Refused(o) \in Nat /\ (Refused(o) = 0 => o.sweep /\ o.load /\ o.save)
  <1> DEFINE R == {f \in {"sweep", "load", "save"} : ~o[f]}
  <1>1. IsFiniteSet({"sweep", "load", "save"})
    <2>1. IsFiniteSet({} \cup {"sweep"})
      BY FS_EmptySet, FS_AddElement
    <2>2. IsFiniteSet({"sweep"} \cup {"load"})
      BY <2>1, FS_AddElement
    <2>3. IsFiniteSet({"sweep", "load"} \cup {"save"})
      BY <2>2, FS_AddElement
    <2> QED
      BY <2>3
  <1>2. IsFiniteSet(R)
    BY <1>1, FS_Subset
  <1>3. Refused(o) \in Nat /\ (Refused(o) = 0 => R = {})
    BY <1>2, FS_CardinalityType, FS_EmptySet DEF Refused
  <1> QED
    BY <1>3 DEF Outcomes
-----------------------------------------------------------------------------
(* What the operations do to the two layers.                               *)

\* In memory, a session that is held is renewed.
Renewed(i) ==
  /\ backend = "memory"
  /\ i \in DOMAIN memory
  /\ DOMAIN memory' \subseteq DOMAIN memory
  /\ \A j \in DOMAIN memory' : memory'[j] = IF j = i THEN Touched(memory[i]) ELSE memory[j]
  /\ UNCHANGED <<table, minted, told, heard, faults>>

\* A row that is not too old takes the place of what memory held.
Loaded(i, o) ==
  /\ backend = "sqlite"
  /\ i \in DOMAIN table /\ table[i].touched >= Cutoff
  /\ DOMAIN memory' = DOMAIN memory \cup {i}
  /\ \A j \in DOMAIN memory' : memory'[j] = IF j = i THEN table[i] ELSE memory[j]
  /\ table' = SweepDb(table, o.sweep)
  /\ faults' = faults + Refused(o)
  /\ UNCHANGED <<minted, told, heard>>

\* A new session is held, and nothing of it was held before.
Minted(i) ==
  /\ i \notin minted /\ minted' = minted \cup {i}
  /\ i \notin DOMAIN memory /\ i \notin DOMAIN table
  /\ i \in DOMAIN memory' /\ DOMAIN memory' \subseteq DOMAIN memory \cup {i}
  /\ \A j \in DOMAIN memory' : memory'[j] = IF j = i THEN NewSession ELSE memory[j]
  /\ told' = [told EXCEPT ![i] = <<>>]
  /\ heard' = [heard EXCEPT ![i] = clock]

LEMMA SweptRows ==
  ASSUME NEW ok
  PROVE  LET rows == SweepDb(table, ok)
         IN  /\ DOMAIN rows \subseteq DOMAIN table
             /\ \A i \in DOMAIN rows : rows[i] = table[i]
             /\ ok => DOMAIN rows = {i \in DOMAIN table : table[i].touched >= Cutoff}
  BY DEF SweepDb, Keep

LEMMA SavedRows ==
  ASSUME NEW rows, NEW f, NEW i, NEW ok
  PROVE  LET saved == SaveDb(rows, f, i, ok)
         IN  IF ok /\ i \in DOMAIN f
             THEN /\ DOMAIN saved = DOMAIN rows \cup {i}
                  /\ \A j \in DOMAIN saved : saved[j] = IF j = i THEN f[i] ELSE rows[j]
             ELSE saved = rows
  BY DEF SaveDb, Put

LEMMA MintMints ==
  ASSUME OnlyMinted, Ordered, NEW i, Mint(i)
  PROVE  /\ Minted(i)
         /\ Ordered'
         /\ Cardinality(DOMAIN memory') <= MaxSessions
  <1> DEFINE live == Swept(memory, order)
             all == live \cup {i}
             last == MovedToEnd(KeepOrder(order, live), i, all)
             kept == Newest(all, last)
  <1>1. live \subseteq DOMAIN memory
    BY DEF Swept
  <1>2. Linear(last, all)
    BY <1>1, KeptIsLinear, MovedIsLinear DEF Ordered
  <1>3. IsFiniteSet(all)
    BY <1>1, FS_Subset, FS_AddElement DEF Ordered
  <1>4. kept \subseteq all
    BY DEF Newest
  <1>5. i \in kept
    BY <1>1, KeptIsLinear, LastIsNewest DEF Ordered
  <1>6. Cardinality(kept) <= MaxSessions
    BY <1>2, <1>3, NewestAreFew
  <1>7. Linear(KeepOrder(last, kept), kept)
    BY <1>2, <1>4, KeptIsLinear
  <1>8. IsFiniteSet(kept)
    BY <1>3, <1>4, FS_Subset
  <1>9. /\ i \notin minted
        /\ minted' = minted \cup {i}
        /\ memory' = Keep(Put(memory, i, NewSession), kept)
        /\ order' = KeepOrder(last, kept)
        /\ told' = [told EXCEPT ![i] = <<>>]
        /\ heard' = [heard EXCEPT ![i] = clock]
    BY DEF Mint
  <1> HIDE DEF kept, last
  <1>10. DOMAIN memory' = kept
    BY <1>9 DEF Keep
  <1>11. \A j \in kept : memory'[j] = IF j = i THEN NewSession ELSE memory[j]
    <2>1. \A j \in kept : memory'[j] = Put(memory, i, NewSession)[j]
      BY <1>9 DEF Keep
    <2>2. \A j \in kept : j \in DOMAIN memory \cup {i}
      BY <1>1, <1>4
    <2> QED
      BY <2>1, <2>2 DEF Put
  <1>12. i \notin DOMAIN memory /\ i \notin DOMAIN table
    BY <1>9 DEF OnlyMinted
  <1>13. Minted(i)
    BY <1>1, <1>4, <1>5, <1>9, <1>10, <1>11, <1>12 DEF Minted
  <1>14. Ordered'
    BY <1>7, <1>8, <1>9, <1>10 DEF Ordered
  <1> QED
    BY <1>6, <1>10, <1>13, <1>14

\* A request is given a session that was renewed, loaded or minted.
LEMMA Opens ==
  ASSUME OnlyMinted, Ordered, NEW presented, NEW i, NEW o \in Outcomes, Open(presented, i, o)
  PROVE  /\ Ordered'
         /\ \/ Renewed(i) /\ i = presented
            \/ Loaded(i, o) /\ i = presented
            \/ /\ Mint(i) /\ Minted(i)
               /\ backend = "memory" /\ UNCHANGED <<table, faults>>
            \/ /\ Mint(i) /\ Minted(i) /\ Persisted
               /\ ~Loads(SweepDb(table, o.sweep), presented, o.load)
               /\ table' = SaveDb(SweepDb(table, o.sweep), memory', i, o.save)
               /\ faults' = faults + Refused(o)
  <1>1. CASE OpenInMemory(presented, i) /\ presented \in Swept(memory, order)
    <2> DEFINE live == Swept(memory, order)
    <2>1. live \subseteq DOMAIN memory
      BY DEF Swept
    <2>2. /\ backend = "memory"
          /\ i = presented
          /\ memory' = [j \in live |-> IF j = i THEN Touched(memory[j]) ELSE memory[j]]
          /\ order' = MovedToEnd(KeepOrder(order, live), i, live)
          /\ UNCHANGED <<minted, told, heard, table, faults>>
      BY <1>1 DEF OpenInMemory
    <2>3. i \in live
      BY <1>1, <2>2
    <2> HIDE DEF live
    <2>4. Renewed(i)
      BY <2>1, <2>2, <2>3 DEF Renewed
    <2>5. Linear(KeepOrder(order, live), live) /\ live \cup {i} = live
      BY <2>1, <2>3, KeptIsLinear DEF Ordered
    <2>6. Linear(order', live)
      BY <2>2, <2>5, MovedIsLinear
    <2>7. IsFiniteSet(live)
      BY <2>1, FS_Subset DEF Ordered
    <2> QED
      BY <2>2, <2>4, <2>6, <2>7 DEF Ordered
  <1>2. CASE OpenInMemory(presented, i) /\ presented \notin Swept(memory, order)
    BY <1>2, MintMints DEF OpenInMemory
  <1>3. CASE OpenPersisted(presented, i, o) /\ Loads(SweepDb(table, o.sweep), presented, o.load)
    <2> DEFINE rows == SweepDb(table, o.sweep)
    <2>1. /\ backend = "sqlite"
          /\ i = presented
          /\ i \in DOMAIN rows /\ rows[i].touched >= Cutoff
          /\ memory' = Put(memory, i, rows[i])
          /\ order' = MovedToEnd(order, i, DOMAIN memory \cup {i})
          /\ table' = rows
          /\ faults' = faults + Refused(o)
          /\ UNCHANGED <<minted, told, heard>>
      BY <1>3 DEF OpenPersisted, Loads
    <2>2. i \in DOMAIN table /\ rows[i] = table[i]
      BY <2>1, SweptRows
    <2>3. /\ DOMAIN memory' = DOMAIN memory \cup {i}
          /\ \A j \in DOMAIN memory' : memory'[j] = IF j = i THEN table[i] ELSE memory[j]
      BY <2>1, <2>2 DEF Put
    <2>4. Loaded(i, o)
      BY <2>1, <2>2, <2>3 DEF Loaded
    <2>5. Ordered'
      BY <2>1, <2>3, FS_AddElement, MovedIsLinear DEF Ordered
    <2> QED
      BY <2>1, <2>4, <2>5
  <1>4. CASE OpenPersisted(presented, i, o) /\ ~Loads(SweepDb(table, o.sweep), presented, o.load)
    BY <1>4, MintMints DEF OpenPersisted
  <1> QED
    BY <1>1, <1>2, <1>3, <1>4 DEF Open

\* A finished turn is folded into the session in memory, and its row follows.
LEMMA Remembers ==
  ASSUME NEW i, NEW t, NEW o \in Outcomes, Remember(i, t, o)
  PROVE  /\ DOMAIN memory' = DOMAIN memory
         /\ \A j \in DOMAIN memory :
              memory'[j] = IF j = i THEN Folded(memory[i], t) ELSE memory[j]
         /\ DOMAIN table' \subseteq DOMAIN table \cup (DOMAIN memory \cap {i})
         /\ \A j \in DOMAIN table' :
              IF j = i /\ i \in DOMAIN memory /\ Persisted /\ o.save
              THEN table'[j] = memory'[i] ELSE j \in DOMAIN table /\ table'[j] = table[j]
         /\ Persisted /\ o.sweep /\ o.save =>
              DOMAIN table' =
                {j \in DOMAIN table \ {i} : table[j].touched >= Cutoff}
                  \cup {j \in {i} : IF j \in DOMAIN memory THEN memory'[j].touched >= Cutoff
                                    ELSE j \in DOMAIN table /\ table[j].touched >= Cutoff}
  <1> DEFINE saved == SaveDb(table, memory', i, o.save)
  <1>1. /\ DOMAIN memory' = DOMAIN memory
        /\ \A j \in DOMAIN memory :
             memory'[j] = IF j = i THEN Folded(memory[i], t) ELSE memory[j]
    BY DEF Remember
  <1>2. CASE ~Persisted
    BY <1>1, <1>2 DEF Remember
  <1>3. CASE Persisted
    <2>1. table' = SweepDb(saved, o.sweep)
      BY <1>3 DEF Remember
    <2>2. IF o.save /\ i \in DOMAIN memory
          THEN /\ DOMAIN saved = DOMAIN table \cup {i}
               /\ \A j \in DOMAIN saved : saved[j] = IF j = i THEN memory'[i] ELSE table[j]
          ELSE saved = table
      BY <1>1 DEF SaveDb, Put
    <2> HIDE DEF saved
    <2>3. /\ DOMAIN table' \subseteq DOMAIN saved
          /\ \A j \in DOMAIN table' : table'[j] = saved[j]
          /\ o.sweep => DOMAIN table' = {j \in DOMAIN saved : saved[j].touched >= Cutoff}
      BY <2>1 DEF SweepDb, Keep
    <2> QED
      BY ZenonT(60), <1>1, <1>3, <2>2, <2>3
  <1> QED
    BY <1>2, <1>3

-----------------------------------------------------------------------------
(* Types, and the ids.                                                     *)

Base == SessionTypeOK /\ OnlyMinted /\ Ordered

LEMMA NewIsSession == ASSUME SessionTypeOK PROVE NewSession \in Session
  <1>1. <<>> \in Seq(Nat)
    BY EmptySeq
  <1>2. clock \in Int
    BY DEF SessionTypeOK
  <1> QED
    BY <1>1, <1>2 DEF NewSession, Session, SaidSlots

LEMMA LatestIsSeq ==
  ASSUME NEW S, NEW ts \in Seq(S) PROVE Latest(ts) \in Seq(S)
  <1>1. MaxTurns \in Nat \ {0} /\ Len(ts) \in Nat
    BY StoreBounds, LenProperties
  <1> QED
    BY <1>1, ElementOfSeq, SubSeqProperties DEF Latest

LEMMA FoldedIsSession ==
  ASSUME SessionTypeOK, NEW s \in Session, NEW t \in Turn
  PROVE  Folded(s, t) \in Session
  <1>1. s.turns \in Seq(Nat) /\ t.text \in Nat /\ clock \in Int
    BY DEF Session, Turn, SessionTypeOK
  <1>2. Latest(Append(s.turns, t.text)) \in Seq(Nat)
    BY <1>1, AppendProperties, LatestIsSeq
  <1>3. [n \in Slots |-> IF t.slots[n] = Unsaid THEN s.slots[n] ELSE t.slots[n]] \in SaidSlots
    BY DEF Session, Turn, SaidSlots
  <1>4. t.pending \in Questions \cup {Settled}
    BY DEF Turn
  <1> QED
    BY <1>1, <1>2, <1>3, <1>4 DEF Folded, Session

LEMMA InitBase == SessionInit => Base
  <1> SUFFICES ASSUME SessionInit PROVE Base
    OBVIOUS
  <1>1. DOMAIN memory = {} /\ DOMAIN table = {}
    BY DEF SessionInit
  <1>2. told \in [Ids -> Seq(Turn)]
    BY EmptySeq DEF SessionInit
  <1> QED
    BY <1>1, <1>2, FS_EmptySet DEF SessionInit, Base, SessionTypeOK, OnlyMinted, Ordered, Linear

LEMMA OpenKeepsBase ==
  ASSUME Base, NEW presented, NEW i \in Ids, NEW o \in Outcomes, Open(presented, i, o)
  PROVE  Base'
  <1>1. /\ Ordered'
        /\ \/ Renewed(i)
           \/ Loaded(i, o)
           \/ Minted(i) /\ UNCHANGED <<table, faults>>
           \/ /\ Minted(i)
              /\ table' = SaveDb(SweepDb(table, o.sweep), memory', i, o.save)
              /\ faults' = faults + Refused(o)
    BY Opens DEF Base
  <1>2. UNCHANGED <<backend, clock, reboots>>
    BY DEF Open
  <1>3. Refused(o) \in Nat
    BY NothingRefused
  <1>4. order' \subseteq (DOMAIN memory') \X (DOMAIN memory')
    <2>1. Linear(order', DOMAIN memory')
      BY <1>1 DEF Ordered
    <2> QED
      BY <2>1 DEF Linear
  <1>5. NewSession \in Session
    BY NewIsSession DEF Base
  <1>6. /\ DOMAIN memory \subseteq Ids /\ \A j \in DOMAIN memory : memory[j] \in Session
        /\ DOMAIN table \subseteq Ids /\ \A j \in DOMAIN table : table[j] \in Session
        /\ DOMAIN memory \subseteq minted /\ DOMAIN table \subseteq minted
        /\ minted \subseteq Ids /\ faults \in Nat
        /\ told \in [Ids -> Seq(Turn)] /\ heard \in [Ids -> Nat]
        /\ backend \in {"memory", "sqlite", "postgres"} /\ clock \in Nat /\ reboots \in Nat
    BY DEF Base, SessionTypeOK, OnlyMinted
  <1>7. CASE Renewed(i)
    <2>1. Touched(memory[i]) \in Session
      BY <1>6, <1>7 DEF Renewed, Touched, Session
    <2>2. DOMAIN memory' \subseteq DOMAIN memory /\ \A j \in DOMAIN memory' : memory'[j] \in Session
      BY <1>6, <1>7, <2>1 DEF Renewed
    <2>3. UNCHANGED <<table, minted, told, heard, faults>>
      BY <1>7 DEF Renewed
    <2>4. SessionTypeOK'
      BY <1>2, <1>4, <1>6, <2>2, <2>3 DEF SessionTypeOK
    <2>5. OnlyMinted'
      BY <1>6, <2>2, <2>3 DEF OnlyMinted
    <2> QED
      BY <1>1, <2>4, <2>5 DEF Base
  <1>8. CASE Loaded(i, o)
    <2>1. /\ DOMAIN table' \subseteq DOMAIN table
          /\ \A j \in DOMAIN table' : table'[j] = table[j]
      BY <1>8, SweptRows DEF Loaded
    <2>2. /\ DOMAIN memory' \subseteq DOMAIN memory \cup DOMAIN table
          /\ \A j \in DOMAIN memory' : memory'[j] \in Session
      BY <1>6, <1>8 DEF Loaded
    <2>3. UNCHANGED <<minted, told, heard>> /\ faults' \in Nat
      BY <1>3, <1>6, <1>8 DEF Loaded
    <2>4. SessionTypeOK'
      BY <1>2, <1>4, <1>6, <2>1, <2>2, <2>3 DEF SessionTypeOK
    <2>5. OnlyMinted'
      BY <1>6, <2>1, <2>2, <2>3 DEF OnlyMinted
    <2> QED
      BY <1>1, <2>4, <2>5 DEF Base
  <1>9. ASSUME Minted(i),
               DOMAIN table' \subseteq DOMAIN table \cup {i},
               \A j \in DOMAIN table' : table'[j] = NewSession \/ (j \in DOMAIN table /\ table'[j] = table[j]),
               faults' \in Nat
        PROVE  Base'
    <2>1. told' \in [Ids -> Seq(Turn)] /\ heard' \in [Ids -> Nat]
      BY <1>6, <1>9, EmptySeq DEF Minted
    <2>2. /\ DOMAIN memory' \subseteq DOMAIN memory \cup {i}
          /\ \A j \in DOMAIN memory' : memory'[j] \in Session
      BY <1>5, <1>6, <1>9 DEF Minted
    <2>3. \A j \in DOMAIN table' : table'[j] \in Session
      BY <1>5, <1>6, <1>9
    <2>4. minted' = minted \cup {i}
      BY <1>9 DEF Minted
    <2>5. SessionTypeOK'
      BY <1>2, <1>4, <1>6, <1>9, <2>1, <2>2, <2>3, <2>4 DEF SessionTypeOK
    <2>6. OnlyMinted'
      BY <1>6, <1>9, <2>2, <2>4 DEF OnlyMinted
    <2> QED
      BY <1>1, <2>5, <2>6 DEF Base
  <1>10. CASE Minted(i) /\ UNCHANGED <<table, faults>>
    BY <1>6, <1>9, <1>10
  <1>11. CASE /\ Minted(i)
              /\ table' = SaveDb(SweepDb(table, o.sweep), memory', i, o.save)
              /\ faults' = faults + Refused(o)
    <2> DEFINE rows == SweepDb(table, o.sweep)
    <2>1. DOMAIN rows \subseteq DOMAIN table /\ \A j \in DOMAIN rows : rows[j] = table[j]
      BY SweptRows
    <2>2. i \in DOMAIN memory' /\ memory'[i] = NewSession
      BY <1>11 DEF Minted
    <2> HIDE DEF rows
    <2>3. IF o.save
          THEN /\ DOMAIN table' = DOMAIN rows \cup {i}
               /\ \A j \in DOMAIN table' : table'[j] = IF j = i THEN memory'[i] ELSE rows[j]
          ELSE table' = rows
      BY <1>11, <2>2, SavedRows DEF rows
    <2> QED
      BY <1>3, <1>6, <1>9, <1>11, <2>1, <2>2, <2>3
  <1> QED
    BY <1>1, <1>7, <1>8, <1>10, <1>11

LEMMA RememberKeepsBase ==
  ASSUME Base, NEW i \in minted, NEW t \in Turn, NEW o \in Outcomes, Remember(i, t, o)
  PROVE  Base'
  <1>1. /\ DOMAIN memory' = DOMAIN memory
        /\ \A j \in DOMAIN memory :
             memory'[j] = IF j = i THEN Folded(memory[i], t) ELSE memory[j]
        /\ DOMAIN table' \subseteq DOMAIN table \cup (DOMAIN memory \cap {i})
        /\ \A j \in DOMAIN table' :
             \/ i \in DOMAIN memory /\ table'[j] = memory'[i]
             \/ j \in DOMAIN table /\ table'[j] = table[j]
    BY ZenonT(60), Remembers
  <1>2. \A j \in DOMAIN memory : memory'[j] \in Session
    BY <1>1, FoldedIsSession DEF Base, SessionTypeOK
  <1>3. \A j \in DOMAIN table' : table'[j] \in Session
    BY <1>1, <1>2 DEF Base, SessionTypeOK
  <1>4. told' \in [Ids -> Seq(Turn)]
    <2>1. i \in Ids /\ told \in [Ids -> Seq(Turn)]
      BY DEF Base, SessionTypeOK
    <2>2. Append(told[i], t) \in Seq(Turn)
      BY <2>1, AppendProperties
    <2>3. told' = [told EXCEPT ![i] = Append(told[i], t)]
      BY DEF Remember
    <2> QED
      BY <2>1, <2>2, <2>3
  <1>5. heard' \in [Ids -> Nat]
    BY DEF Remember, Base, SessionTypeOK
  <1>6. faults' \in Nat
    BY NothingRefused DEF Remember, Base, SessionTypeOK
  <1>7. UNCHANGED <<backend, order, clock, minted, reboots>>
    BY DEF Remember
  <1>8. SessionTypeOK'
    BY <1>1, <1>2, <1>3, <1>4, <1>5, <1>6, <1>7 DEF Base, SessionTypeOK
  <1>9. OnlyMinted'
    BY <1>1, <1>7 DEF Base, OnlyMinted
  <1>10. Ordered'
    BY <1>1, <1>7 DEF Base, Ordered
  <1> QED
    BY <1>8, <1>9, <1>10 DEF Base

LEMMA ForgetKeepsBase ==
  ASSUME Base, memory' = Keep(memory, {}), order' = {}, clock' \in Nat, reboots' \in Nat,
         UNCHANGED <<backend, table, minted, told, heard, faults>>
  PROVE  Base'
  <1>1. DOMAIN memory' = {}
    BY DEF Keep
  <1> QED
    BY <1>1, FS_EmptySet DEF Base, SessionTypeOK, OnlyMinted, Ordered, Linear

LEMMA LookKeepsBase ==
  ASSUME Base, NEW o \in Outcomes, Look(o)
  PROVE  Base'
  <1>1. /\ DOMAIN table' \subseteq DOMAIN table
        /\ \A j \in DOMAIN table' : table'[j] = table[j]
    BY SweptRows DEF Look
  <1>2. faults' \in Nat
    BY NothingRefused DEF Look, Base, SessionTypeOK
  <1>3. UNCHANGED <<backend, memory, order, clock, minted, told, heard, reboots>>
    BY DEF Look
  <1> QED
    BY <1>1, <1>2, <1>3 DEF Base, SessionTypeOK, OnlyMinted, Ordered

LEMMA StepKeepsBase == Base /\ [SessionNext]_sessionVars => Base'
  <1> SUFFICES ASSUME Base, [SessionNext]_sessionVars PROVE Base'
    OBVIOUS
  <1>1. CASE \E presented \in minted \cup {NoSession}, i \in Ids, o \in Outcomes :
               Open(presented, i, o)
    BY <1>1, OpenKeepsBase
  <1>2. CASE \E o \in Outcomes : Look(o)
    BY <1>2, LookKeepsBase
  <1>3. CASE \E i \in minted, t \in Turn, o \in Outcomes : Remember(i, t, o)
    BY <1>3, RememberKeepsBase
  <1>4. CASE Tick
    BY <1>4 DEF Tick, Base, SessionTypeOK, OnlyMinted, Ordered
  <1>5. CASE Restart
    BY <1>5, ForgetKeepsBase DEF Restart, Base, SessionTypeOK
  <1>6. CASE Reboot
    BY <1>6, ForgetKeepsBase DEF Reboot, Base, SessionTypeOK
  <1>7. CASE UNCHANGED sessionVars
    BY <1>7 DEF sessionVars, Base, SessionTypeOK, OnlyMinted, Ordered
  <1> QED
    BY <1>1, <1>2, <1>3, <1>4, <1>5, <1>6, <1>7 DEF SessionNext

LEMMA AlwaysBase == SessionSpec => []Base
  BY InitBase, StepKeepsBase, PTL DEF SessionSpec

-----------------------------------------------------------------------------
(* The two layers.                                                         *)

Followed == LayersInStep /\ Fresh

\* The steps that leave memory alone, or empty it, and at most sweep the table.
LEMMA SweepKeepsFollowed ==
  ASSUME Base, Followed, NEW ok,
         memory' = memory \/ DOMAIN memory' = {},
         table' = table \/ (table' = SweepDb(table, ok) /\ clock' = clock),
         clock' >= clock \/ reboots' # 0,
         clock' \in Nat,
         faults' = 0 => faults = 0, reboots' = 0 => reboots = 0,
         UNCHANGED <<backend, minted, told, heard>>
  PROVE  Followed'
  <1>1. /\ DOMAIN table' \subseteq DOMAIN table
        /\ \A i \in DOMAIN table' : table'[i] = table[i]
        /\ \A i \in DOMAIN table \ DOMAIN table' : table[i].touched < Cutoff /\ clock' = clock
    <2>1. \A i \in DOMAIN table : table[i].touched \in Int /\ Cutoff \in Int
      BY StoreBounds DEF Base, SessionTypeOK, Session, Cutoff
    <2> QED
      BY <2>1 DEF SweepDb, Keep
  <1>2. LayersInStep'
    BY <1>1 DEF Followed, LayersInStep, Persisted
  <1>3. Fresh'
    <2> SUFFICES ASSUME backend' = "sqlite", reboots' = 0, faults' = 0, NEW i \in minted
                 PROVE  IF i \in DOMAIN table' THEN table'[i].touched = heard'[i]
                        ELSE heard'[i] < Cutoff'
      BY DEF Fresh
    <2>1. IF i \in DOMAIN table THEN table[i].touched = heard[i] ELSE heard[i] < Cutoff
      BY DEF Followed, Fresh
    <2>2. heard[i] \in Nat /\ IdleSeconds \in Nat /\ clock \in Nat
      BY StoreBounds DEF Base, SessionTypeOK
    <2>3. clock' >= clock /\ clock' \in Nat
      OBVIOUS
    <2>4. Cutoff = clock - IdleSeconds /\ Cutoff' = clock' - IdleSeconds
      BY DEF Cutoff
    <2> QED
      BY <1>1, <2>1, <2>2, <2>3, <2>4
  <1> QED
    BY <1>2, <1>3 DEF Followed

LEMMA OpenKeepsFollowed ==
  ASSUME Base, Followed, NEW presented, NEW i \in Ids, NEW o \in Outcomes, Open(presented, i, o)
  PROVE  Followed'
  <1>1. \/ Renewed(i)
        \/ Loaded(i, o)
        \/ Minted(i) /\ backend = "memory"
        \/ /\ Minted(i)
           /\ table' = SaveDb(SweepDb(table, o.sweep), memory', i, o.save)
           /\ faults' = faults + Refused(o)
    BY Opens DEF Base
  <1>2. UNCHANGED <<backend, clock, reboots>> /\ Cutoff' = Cutoff
    BY DEF Open, Cutoff
  <1>3. /\ faults \in Nat /\ Refused(o) \in Nat
        /\ Refused(o) = 0 => o.sweep /\ o.load /\ o.save
    BY NothingRefused DEF Base, SessionTypeOK
  <1>4. CASE backend = "memory"
    BY <1>2, <1>4 DEF Followed, LayersInStep, Persisted, Fresh
  <1> DEFINE rows == SweepDb(table, o.sweep)
  <1>5. /\ DOMAIN rows \subseteq DOMAIN table
        /\ \A j \in DOMAIN rows : rows[j] = table[j]
        /\ o.sweep => DOMAIN rows = {j \in DOMAIN table : table[j].touched >= Cutoff}
    BY SweptRows
  <1>6. \A j \in DOMAIN table : table[j].touched \in Int /\ Cutoff \in Int
    BY StoreBounds DEF Base, SessionTypeOK, Session, Cutoff
  <1> HIDE DEF rows
  <1>7. CASE Loaded(i, o)
    <2>1. faults' = 0 => faults = 0 /\ o.sweep
      BY <1>3, <1>7 DEF Loaded
    <2>2. LayersInStep'
      BY <1>2, <1>5, <1>7, <2>1 DEF Loaded, Followed, LayersInStep, Persisted, rows
    <2>3. Fresh'
      <3> SUFFICES ASSUME backend = "sqlite", reboots = 0, faults' = 0, NEW j \in minted
                   PROVE  IF j \in DOMAIN table' THEN table'[j].touched = heard[j]
                          ELSE heard[j] < Cutoff
        BY <1>2, <1>7 DEF Loaded, Fresh
      <3>1. IF j \in DOMAIN table THEN table[j].touched = heard[j] ELSE heard[j] < Cutoff
        BY <2>1 DEF Followed, Fresh
      <3>2. table' = rows
        BY <1>7 DEF Loaded, rows
      <3> QED
        BY <1>5, <1>6, <2>1, <3>1, <3>2
    <2> QED
      BY <2>2, <2>3 DEF Followed
  <1>8. CASE /\ Minted(i)
             /\ table' = SaveDb(rows, memory', i, o.save)
             /\ faults' = faults + Refused(o)
    <2>1. faults' = 0 => faults = 0 /\ o.sweep /\ o.save
      BY <1>3, <1>8
    <2>2. i \in DOMAIN memory' /\ memory'[i] = NewSession
      BY <1>8 DEF Minted
    <2>3. faults' = 0 =>
            /\ DOMAIN table' = DOMAIN rows \cup {i}
            /\ \A j \in DOMAIN table' : table'[j] = IF j = i THEN memory'[i] ELSE rows[j]
      BY <1>8, <2>1, <2>2 DEF SaveDb, Put
    <2>4. LayersInStep'
      <3> SUFFICES ASSUME Persisted, faults' = 0, NEW j \in (DOMAIN memory') \cap (DOMAIN table')
                   PROVE  memory'[j] = table'[j]
        BY <1>2 DEF LayersInStep, Persisted
      <3>1. CASE j = i
        BY <2>3, <3>1
      <3>2. CASE j # i
        <4>1. j \in DOMAIN memory /\ memory'[j] = memory[j]
          BY <1>8, <3>2 DEF Minted
        <4>2. j \in DOMAIN table /\ table'[j] = table[j]
          BY <1>5, <2>3, <3>2
        <4> QED
          BY <2>1, <4>1, <4>2 DEF Followed, LayersInStep
      <3> QED
        BY <3>1, <3>2
    <2>5. Fresh'
      <3> SUFFICES ASSUME backend = "sqlite", reboots = 0, faults' = 0, NEW j \in minted'
                   PROVE  IF j \in DOMAIN table' THEN table'[j].touched = heard'[j]
                          ELSE heard'[j] < Cutoff
        BY <1>2 DEF Fresh
      <3>1. /\ heard' = [heard EXCEPT ![i] = clock] /\ heard \in [Ids -> Nat]
            /\ minted' = minted \cup {i} /\ minted \subseteq Ids
        BY <1>8 DEF Minted, Base, SessionTypeOK
      <3>2. CASE j = i
        <4>1. table'[i] = NewSession /\ i \in DOMAIN table'
          BY <2>2, <2>3
        <4> QED
          BY <3>1, <3>2, <4>1 DEF NewSession
      <3>3. CASE j # i
        <4>1. IF j \in DOMAIN table THEN table[j].touched = heard[j] ELSE heard[j] < Cutoff
          BY <2>1, <3>1, <3>3 DEF Followed, Fresh
        <4>2. heard'[j] = heard[j]
          BY <3>1, <3>3
        <4> QED
          BY <1>5, <1>6, <2>1, <2>3, <3>3, <4>1, <4>2
      <3> QED
        BY <3>2, <3>3
    <2> QED
      BY <2>4, <2>5 DEF Followed
  <1> QED
    BY <1>1, <1>4, <1>7, <1>8 DEF Renewed, rows

LEMMA RememberKeepsFollowed ==
  ASSUME Base, Followed, NEW i \in minted, NEW t \in Turn, NEW o \in Outcomes, Remember(i, t, o)
  PROVE  Followed'
  <1>1. UNCHANGED <<backend, clock, minted, reboots>> /\ Cutoff' = Cutoff
    BY DEF Remember, Cutoff
  <1>2. CASE ~Persisted
    BY <1>1, <1>2 DEF Followed, LayersInStep, Persisted, Fresh
  <1>3. ASSUME Persisted, faults' = 0 PROVE faults = 0 /\ o.sweep /\ o.save
    BY <1>3, NothingRefused DEF Remember, Base, SessionTypeOK
  <1>4. /\ DOMAIN memory' = DOMAIN memory
        /\ \A j \in DOMAIN memory :
             memory'[j] = IF j = i THEN Folded(memory[i], t) ELSE memory[j]
        /\ \A j \in DOMAIN table' :
             IF j = i /\ i \in DOMAIN memory /\ Persisted /\ o.save
             THEN table'[j] = memory'[i] ELSE j \in DOMAIN table /\ table'[j] = table[j]
    BY ZenonT(60), Remembers
  <1>5. LayersInStep'
    BY <1>1, <1>3, <1>4 DEF Followed, LayersInStep, Persisted
  <1>6. Fresh'
    <2> SUFFICES ASSUME backend = "sqlite", reboots = 0, faults' = 0, NEW j \in minted
                 PROVE  IF j \in DOMAIN table' THEN table'[j].touched = heard'[j]
                        ELSE heard'[j] < Cutoff
      BY <1>1 DEF Fresh
    <2>1. Persisted /\ faults = 0 /\ o.sweep /\ o.save
      BY <1>3 DEF Persisted
    <2>2. IF j \in DOMAIN table THEN table[j].touched = heard[j] ELSE heard[j] < Cutoff
      BY <2>1 DEF Followed, Fresh
    <2>3. DOMAIN table' =
            {k \in DOMAIN table \ {i} : table[k].touched >= Cutoff}
              \cup {k \in {i} : IF k \in DOMAIN memory THEN memory'[k].touched >= Cutoff
                                ELSE k \in DOMAIN table /\ table[k].touched >= Cutoff}
      BY <2>1, Remembers
    <2>4. \A k \in DOMAIN table : table[k].touched \in Int
      BY DEF Base, SessionTypeOK, Session
    <2>5. clock \in Nat /\ IdleSeconds \in Nat /\ Cutoff = clock - IdleSeconds
          /\ heard \in [Ids -> Nat] /\ minted \subseteq Ids
      BY StoreBounds DEF Base, SessionTypeOK, Cutoff
    <2>6. heard' = IF i \in DOMAIN memory THEN [heard EXCEPT ![i] = clock] ELSE heard
      BY DEF Remember
    <2>7. CASE j = i /\ i \in DOMAIN memory
      <3>1. memory'[i].touched = clock
        BY <1>4, <2>7 DEF Folded
      <3>2. heard'[i] = clock
        BY <2>5, <2>6, <2>7
      <3> QED
        BY <1>4, <2>1, <2>3, <2>5, <2>7, <3>1, <3>2
    <2>8. CASE ~(j = i /\ i \in DOMAIN memory)
      <3>1. heard'[j] = heard[j]
        BY <2>5, <2>6, <2>8
      <3>2. j \in DOMAIN table' <=> j \in DOMAIN table /\ table[j].touched >= Cutoff
        BY <2>3, <2>8
      <3>3. j \in DOMAIN table' => table'[j] = table[j]
        BY <1>4, <2>8
      <3> QED
        BY <2>2, <2>4, <2>5, <3>1, <3>2, <3>3
    <2> QED
      BY <2>7, <2>8
  <1> QED
    BY <1>5, <1>6 DEF Followed

LEMMA StepKeepsFollowed == Base /\ Followed /\ [SessionNext]_sessionVars => Followed'
  <1> SUFFICES ASSUME Base, Followed, [SessionNext]_sessionVars PROVE Followed'
    OBVIOUS
  <1>1. clock \in Nat /\ faults \in Nat /\ reboots \in Nat
    BY DEF Base, SessionTypeOK
  <1>2. CASE \E presented \in minted \cup {NoSession}, i \in Ids, o \in Outcomes :
               Open(presented, i, o)
    BY <1>2, OpenKeepsFollowed
  <1>3. ASSUME NEW o \in Outcomes, Look(o) PROVE Followed'
    <2>1. faults' = 0 => faults = 0
      BY <1>1, <1>3, NothingRefused DEF Look
    <2>2. /\ memory' = memory /\ table' = SweepDb(table, o.sweep) /\ clock' = clock
          /\ UNCHANGED <<backend, minted, told, heard, reboots>>
      BY <1>3 DEF Look
    <2> QED
      BY <1>1, <2>1, <2>2, SweepKeepsFollowed
  <1>4. CASE \E i \in minted, t \in Turn, o \in Outcomes : Remember(i, t, o)
    BY <1>4, RememberKeepsFollowed
  <1>5. CASE Tick
    <2>1. clock' >= clock /\ clock' \in Nat
      BY <1>1, <1>5 DEF Tick
    <2> QED
      BY <1>5, <2>1, SweepKeepsFollowed DEF Tick
  <1>6. CASE Restart
    <2>1. DOMAIN memory' = {} /\ clock' = clock
      BY <1>6 DEF Restart, Keep
    <2> QED
      BY <1>1, <1>6, <2>1, SweepKeepsFollowed DEF Restart
  <1>7. CASE Reboot
    <2>1. DOMAIN memory' = {} /\ reboots' # 0 /\ clock' \in Nat
      BY <1>1, <1>7 DEF Reboot, Keep
    <2> QED
      BY <1>7, <2>1, SweepKeepsFollowed DEF Reboot
  <1>8. CASE UNCHANGED sessionVars
    BY <1>8 DEF sessionVars, Followed, LayersInStep, Fresh, Persisted, Cutoff
  <1> QED
    BY <1>2, <1>3, <1>4, <1>5, <1>6, <1>7, <1>8 DEF SessionNext

LEMMA InitFollowed == SessionInit => Followed
  BY DEF SessionInit, Followed, LayersInStep, Fresh, Cutoff

LEMMA AlwaysFollowed == SessionSpec => []Followed
  BY InitFollowed, StepKeepsFollowed, AlwaysBase, PTL DEF SessionSpec

-----------------------------------------------------------------------------
(* What a session holds.                                                   *)

Recalled(s, ts) == \E at \in Increasing(Len(ts)) : Holds(s, Picked(ts, at))
Recall ==
  /\ \A i \in DOMAIN memory : Recalled(memory[i], told[i])
  /\ \A i \in DOMAIN table : Recalled(table[i], told[i])
Texts(ts) == [n \in DOMAIN ts |-> ts[n].text]
Dropped(n) == IF n > MaxTurns THEN n - MaxTurns ELSE 0

\* The turns a session shows are the last ones, shifted by those it dropped.
LEMMA LatestIs ==
  ASSUME NEW S, NEW ts \in Seq(S)
  PROVE  /\ Latest(ts) \in Seq(S)
         /\ Len(Latest(ts)) = Len(ts) - Dropped(Len(ts))
         /\ \A i \in 1 .. Len(ts) - Dropped(Len(ts)) : Latest(ts)[i] = ts[Dropped(Len(ts)) + i]
  <1>1. MaxTurns \in Nat \ {0} /\ Len(ts) \in Nat
    BY StoreBounds, LenProperties
  <1> DEFINE m == IF Len(ts) > MaxTurns THEN Len(ts) - MaxTurns + 1 ELSE 1
  <1>2. m \in Nat /\ m >= 1 /\ (m <= Len(ts) \/ Len(ts) = 0)
    BY <1>1
  <1>3. \A i \in m .. Len(ts) : ts[i] \in S
    BY <1>1, <1>2, ElementOfSeq
  <1>4. Latest(ts) = SubSeq(ts, m, Len(ts))
    BY DEF Latest
  <1> HIDE DEF m
  <1>5. /\ Latest(ts) \in Seq(S)
        /\ Len(Latest(ts)) = IF m <= Len(ts) THEN Len(ts) - m + 1 ELSE 0
        /\ \A i \in 1 .. Len(ts) - m + 1 : Latest(ts)[i] = ts[m + i - 1]
    BY <1>1, <1>2, <1>3, <1>4, SubSeqProperties
  <1> DEFINE k == Dropped(Len(ts))
  <1>6. k \in Nat /\ m = k + 1 /\ k <= Len(ts)
    BY <1>1 DEF m, Dropped
  <1> HIDE DEF k
  <1>7. Len(Latest(ts)) = Len(ts) - k
    BY <1>1, <1>5, <1>6
  <1>8. ASSUME NEW i \in 1 .. Len(ts) - k PROVE Latest(ts)[i] = ts[k + i]
    <2>1. i \in 1 .. Len(ts) - m + 1 /\ m + i - 1 = k + i
      BY <1>1, <1>6
    <2> QED
      BY <1>5, <2>1
  <1> QED
    BY <1>5, <1>7, <1>8 DEF k

\* Dropping the oldest turns first, and again after one more, drops the same.
LEMMA LatestOfLatest ==
  ASSUME NEW S, NEW ts \in Seq(S), NEW t \in S
  PROVE  Latest(Append(Latest(ts), t)) = Latest(Append(ts, t))
  <1> DEFINE few == Latest(ts)
             l == Latest(Append(few, t))
             r == Latest(Append(ts, t))
             k == Dropped(Len(ts))
             fewer == Append(few, t)
             more == Append(ts, t)
             kl == Dropped(Len(fewer))
             kr == Dropped(Len(more))
  <1>1. MaxTurns \in Nat \ {0} /\ Len(ts) \in Nat
    BY StoreBounds, LenProperties
  <1>2. /\ few \in Seq(S) /\ Len(few) = Len(ts) - k
        /\ \A i \in 1 .. Len(ts) - k : few[i] = ts[k + i]
    BY LatestIs
  <1> HIDE DEF few
  <1>3. /\ fewer \in Seq(S) /\ Len(fewer) = Len(few) + 1
        /\ \A i \in 1 .. Len(few) : fewer[i] = few[i]
        /\ fewer[Len(few) + 1] = t
    BY <1>2, AppendProperties
  <1>4. /\ more \in Seq(S) /\ Len(more) = Len(ts) + 1
        /\ \A i \in 1 .. Len(ts) : more[i] = ts[i]
        /\ more[Len(ts) + 1] = t
    BY AppendProperties
  <1> HIDE DEF fewer, more
  <1>5. /\ l \in Seq(S) /\ Len(l) = Len(fewer) - kl
        /\ \A i \in 1 .. Len(fewer) - kl : l[i] = fewer[kl + i]
    BY <1>3, LatestIs DEF fewer
  <1>6. /\ r \in Seq(S) /\ Len(r) = Len(more) - kr
        /\ \A i \in 1 .. Len(more) - kr : r[i] = more[kr + i]
    BY <1>4, LatestIs DEF more
  <1> HIDE DEF l, r
  <1>10. k \in Nat /\ kl \in Nat /\ kr = k + kl /\ Len(few) \in Nat
    <2> DEFINE nt == Len(ts)
               nf == Len(few)
    <2>1. /\ k = IF nt > MaxTurns THEN nt - MaxTurns ELSE 0
          /\ kl = IF nf + 1 > MaxTurns THEN nf + 1 - MaxTurns ELSE 0
          /\ kr = IF nt + 1 > MaxTurns THEN nt + 1 - MaxTurns ELSE 0
          /\ nf = nt - k
      <3>1. k = IF nt > MaxTurns THEN nt - MaxTurns ELSE 0
        BY DEF Dropped
      <3>2. kl = IF Len(fewer) > MaxTurns THEN Len(fewer) - MaxTurns ELSE 0
        BY DEF Dropped
      <3>3. kr = IF Len(more) > MaxTurns THEN Len(more) - MaxTurns ELSE 0
        BY DEF Dropped
      <3>4. nf = nt - k
        BY <1>2
      <3>5. Len(fewer) = nf + 1 /\ Len(more) = nt + 1
        BY <1>3, <1>4
      <3>6. nt \in Nat /\ nf \in Nat /\ MaxTurns \in Nat
        BY <1>1, <1>2, LenProperties
      <3> HIDE DEF k, kl, kr, nt, nf
      <3> QED
        BY <3>1, <3>2, <3>3, <3>4, <3>5, <3>6
    <2> HIDE DEF k, kl, kr, nt, nf
    <2>2. nt \in Nat
      BY <1>1 DEF nt
    <2>3. k \in Nat /\ kl \in Nat /\ kr = k + kl /\ nf \in Nat
      BY <1>1, <2>1, <2>2
    <2> QED
      BY <2>3 DEF nf
  <1> HIDE DEF k, kl, kr
  <1>7. Len(l) = Len(r) /\ Len(l) = Len(few) + 1 - kl
    BY <1>1, <1>2, <1>3, <1>4, <1>5, <1>6, <1>10
  <1>8. ASSUME NEW i \in 1 .. Len(l) PROVE l[i] = r[i]
    <2>1. l[i] = fewer[kl + i] /\ r[i] = more[kr + i]
      BY <1>1, <1>3, <1>4, <1>5, <1>6, <1>7, <1>10
    <2>2. CASE kl + i = Len(few) + 1
      <3>1. kr + i = Len(ts) + 1
        BY <1>1, <1>2, <1>7, <1>10, <2>2
      <3> QED
        BY <1>3, <1>4, <2>1, <2>2, <3>1
    <2>3. CASE kl + i # Len(few) + 1
      <3>1. kl + i \in 1 .. Len(few) /\ kr + i \in 1 .. Len(ts) /\ kr + i = k + (kl + i)
        <4>1. Len(few) = Len(ts) - k
          BY <1>2
        <4>2. i \in Int /\ 1 <= i /\ i <= Len(few) + 1 - kl
          BY <1>7, <1>10
        <4> QED
          BY <1>1, <1>10, <2>3, <4>1, <4>2
      <3>2. fewer[kl + i] = few[kl + i] /\ more[kr + i] = ts[kr + i]
        BY <1>3, <1>4, <3>1
      <3>3. few[kl + i] = ts[k + (kl + i)]
        BY <1>1, <1>2, <1>10, <3>1
      <3> QED
        BY <2>1, <3>1, <3>2, <3>3
    <2> QED
      BY <2>2, <2>3
  <1>9. l = r
    BY <1>5, <1>6, <1>7, <1>8, SeqEqual
  <1> QED
    BY <1>9 DEF l, r, few, fewer, more

LEMMA IncreasingIs ==
  ASSUME NEW n, NEW m \in 0 .. n, NEW at \in [1 .. m -> 1 .. n],
         \A j, k \in 1 .. m : j < k => at[j] < at[k]
  PROVE  at \in Increasing(n)
  BY DEF Increasing

\* The turns that are left of a list are turns.
LEMMA PickedIsSeq ==
  ASSUME NEW ts \in Seq(Turn), NEW m \in 0 .. Len(ts), NEW at \in [1 .. m -> 1 .. Len(ts)]
  PROVE  /\ Picked(ts, at) \in Seq(Turn)
         /\ Len(Picked(ts, at)) = m /\ DOMAIN Picked(ts, at) = 1 .. m
         /\ \A k \in 1 .. m : Picked(ts, at)[k] = ts[at[k]] /\ ts[at[k]] \in Turn
  <1>1. Len(ts) \in Nat /\ m \in Nat
    BY LenProperties
  <1>2. \A k \in 1 .. m : ts[at[k]] \in Turn
    BY <1>1, ElementOfSeq
  <1>3. Picked(ts, at) = [k \in 1 .. m |-> ts[at[k]]]
    BY DEF Picked
  <1>4. Picked(ts, at) \in [1 .. m -> Turn]
    BY <1>2, <1>3
  <1>5. Picked(ts, at) \in Seq(Turn) /\ DOMAIN Picked(ts, at) = 1 .. m
    BY <1>1, <1>4, SeqDef
  <1>6. Len(Picked(ts, at)) = m
    BY <1>1, <1>5, LenProperties
  <1> QED
    BY <1>2, <1>3, <1>5, <1>6

LEMMA TextsAreNat ==
  ASSUME NEW ts \in Seq(Turn)
  PROVE  Texts(ts) \in Seq(Nat) /\ Len(Texts(ts)) = Len(ts)
         /\ \A n \in 1 .. Len(ts) : Texts(ts)[n] = ts[n].text
  <1>1. Len(ts) \in Nat /\ DOMAIN ts = 1 .. Len(ts)
    BY LenProperties
  <1>2. \A n \in 1 .. Len(ts) : ts[n] \in Turn
    BY ElementOfSeq
  <1>3. Texts(ts) \in [1 .. Len(ts) -> Nat]
    BY <1>1, <1>2 DEF Texts, Turn
  <1>4. Texts(ts) \in Seq(Nat) /\ DOMAIN Texts(ts) = 1 .. Len(ts)
    BY <1>1, <1>3, SeqDef
  <1>5. Len(Texts(ts)) = Len(ts)
    BY <1>1, <1>4, LenProperties
  <1> QED
    BY <1>1, <1>4, <1>5 DEF Texts

\* A turn that is told and not folded in is one more that is passed over.
LEMMA RecalledStill ==
  ASSUME NEW ts \in Seq(Turn), NEW s, Recalled(s, ts), NEW t \in Turn
  PROVE  Recalled(s, Append(ts, t))
  <1> DEFINE n == Len(ts)
             more == Append(ts, t)
  <1>1. PICK at \in Increasing(n) : Holds(s, Picked(ts, at))
    BY DEF Recalled
  <1>2. PICK m \in 0 .. n : at \in [1 .. m -> 1 .. n] /\ \A j, k \in 1 .. m : j < k => at[j] < at[k]
    BY DEF Increasing
  <1>3. /\ n \in Nat /\ more \in Seq(Turn) /\ Len(more) = n + 1
        /\ \A i \in 1 .. n : more[i] = ts[i]
    BY AppendProperties, LenProperties
  <1> HIDE DEF n, more
  <1>4. m \in 0 .. n + 1 /\ at \in [1 .. m -> 1 .. n + 1]
    BY <1>2, <1>3
  <1>5. at \in Increasing(n + 1)
    BY <1>2, <1>4 DEF Increasing
  <1>6. Picked(more, at) = Picked(ts, at)
    BY <1>2, <1>3 DEF Picked
  <1> QED
    BY <1>1, <1>3, <1>5, <1>6 DEF Recalled, more

\* Folding a turn in is recalling one turn more.
LEMMA RecalledFolded ==
  ASSUME NEW ts \in Seq(Turn), NEW s \in Session, Recalled(s, ts), NEW t \in Turn
  PROVE  Recalled(Folded(s, t), Append(ts, t))
  <1> DEFINE n == Len(ts)
             more == Append(ts, t)
  <1>1. PICK at \in Increasing(n) : Holds(s, Picked(ts, at))
    BY DEF Recalled
  <1>2. PICK m \in 0 .. n : at \in [1 .. m -> 1 .. n] /\ \A j, k \in 1 .. m : j < k => at[j] < at[k]
    BY DEF Increasing
  <1>3. /\ n \in Nat /\ more \in Seq(Turn) /\ Len(more) = n + 1
        /\ \A i \in 1 .. n : more[i] = ts[i]
        /\ more[n + 1] = t
    BY AppendProperties, LenProperties
  <1> DEFINE at1 == [k \in 1 .. m + 1 |-> IF k = m + 1 THEN n + 1 ELSE at[k]]
             old == Picked(ts, at)
             new == Picked(more, at1)
  <1>4. /\ old \in Seq(Turn) /\ Len(old) = m /\ DOMAIN old = 1 .. m
        /\ \A k \in 1 .. m : old[k] = ts[at[k]]
    BY <1>2, PickedIsSeq
  <1> HIDE DEF more, old, n
  <1>5. m + 1 \in 0 .. n + 1 /\ at1 \in [1 .. m + 1 -> 1 .. n + 1]
    BY <1>2, <1>3
  <1>6. \A j, k \in 1 .. m + 1 : j < k => at1[j] < at1[k]
    <2> SUFFICES ASSUME NEW j \in 1 .. m + 1, NEW k \in 1 .. m + 1, j < k PROVE at1[j] < at1[k]
      OBVIOUS
    <2>1. j \in 1 .. m /\ at1[j] = at[j] /\ at[j] \in 1 .. n
      BY <1>2, <1>3
    <2>2. CASE k = m + 1
      BY <1>3, <2>1, <2>2
    <2>3. CASE k # m + 1
      BY <1>2, <1>3, <2>1, <2>3
    <2> QED
      BY <2>2, <2>3
  <1>7. at1 \in Increasing(n + 1)
    <2> HIDE DEF at1
    <2> QED
      BY <1>5, <1>6, IncreasingIs
  <1>8. /\ new \in Seq(Turn) /\ Len(new) = m + 1 /\ DOMAIN new = 1 .. m + 1
        /\ \A k \in 1 .. m + 1 : new[k] = more[at1[k]]
    <2>1. m + 1 \in 0 .. Len(more) /\ at1 \in [1 .. m + 1 -> 1 .. Len(more)]
      BY <1>3, <1>5
    <2> HIDE DEF at1
    <2> QED
      BY <1>3, <2>1, PickedIsSeq
  <1>9. new[m + 1] = t /\ \A k \in 1 .. m : new[k] = old[k]
    <2>1. at1[m + 1] = n + 1 /\ \A k \in 1 .. m : at1[k] = at[k] /\ at[k] \in 1 .. n
      BY <1>2, <1>3
    <2>2. m \in Nat /\ m + 1 \in 1 .. m + 1 /\ \A k \in 1 .. m : k \in 1 .. m + 1
      BY <1>3
    <2> HIDE DEF at1, new
    <2>3. new[m + 1] = more[n + 1]
      BY <1>8, <2>1, <2>2
    <2>4. ASSUME NEW k \in 1 .. m PROVE new[k] = old[k]
      <3>1. new[k] = more[at[k]] /\ at[k] \in 1 .. n
        BY <1>8, <2>1, <2>2
      <3> QED
        BY <1>3, <1>4, <3>1
    <2> QED
      BY <1>3, <2>3, <2>4
  <1> HIDE DEF new, at1
  <1>10. /\ s.turns = Latest(Texts(old))
         /\ \A slot \in Slots :
              LET said == {k \in DOMAIN old : old[k].slots[slot] # Unsaid}
              IN  IF said = {} THEN s.slots[slot] = Unsaid
                  ELSE \E k \in said : /\ \A j \in said : j <= k
                                       /\ s.slots[slot] = old[k].slots[slot]
    BY <1>1 DEF Holds, Texts, old
  <1>11. Texts(new) = Append(Texts(old), t.text)
    <2>1. /\ Texts(old) \in Seq(Nat) /\ Len(Texts(old)) = m
          /\ \A k \in 1 .. m : Texts(old)[k] = old[k].text
      BY <1>4, TextsAreNat
    <2>2. /\ Texts(new) \in Seq(Nat) /\ Len(Texts(new)) = m + 1
          /\ \A k \in 1 .. m + 1 : Texts(new)[k] = new[k].text
      BY <1>8, TextsAreNat
    <2>3. t.text \in Nat
      BY DEF Turn
    <2> DEFINE a == Append(Texts(old), t.text)
    <2>4. /\ a \in Seq(Nat) /\ Len(a) = m + 1 /\ a[m + 1] = t.text
          /\ \A k \in 1 .. m : a[k] = Texts(old)[k]
      BY <2>1, <2>3, AppendProperties
    <2> HIDE DEF a
    <2>5. \A k \in 1 .. m + 1 : Texts(new)[k] = a[k]
      <3> SUFFICES ASSUME NEW k \in 1 .. m + 1 PROVE Texts(new)[k] = a[k]
        OBVIOUS
      <3>1. CASE k = m + 1
        BY <1>9, <2>2, <2>4, <3>1
      <3>2. CASE k # m + 1
        <4>1. k \in 1 .. m
          BY <1>3, <3>2
        <4> QED
          BY <1>9, <2>1, <2>2, <2>4, <4>1
      <3> QED
        BY <3>1, <3>2
    <2>6. Texts(new) = a
      BY <2>2, <2>4, <2>5, SeqEqual
    <2> QED
      BY <2>6 DEF a
  <1>12. Folded(s, t).turns = Latest(Texts(new))
    <2>1. Texts(old) \in Seq(Nat) /\ t.text \in Nat
      BY <1>4, TextsAreNat DEF Turn
    <2>2. Folded(s, t).turns = Latest(Append(Latest(Texts(old)), t.text))
      BY <1>10 DEF Folded
    <2> QED
      BY <1>11, <2>1, <2>2, LatestOfLatest
  <1>13. Folded(s, t).pending = IF new = <<>> THEN Settled ELSE new[Len(new)].pending
    <2>1. Len(new) # 0
      BY <1>8
    <2>2. new # <<>>
      BY <2>1
    <2> QED
      BY <1>8, <1>9, <2>2 DEF Folded
  <1>14. ASSUME NEW slot \in Slots
         PROVE  LET said == {k \in DOMAIN new : new[k].slots[slot] # Unsaid}
                IN  IF said = {} THEN Folded(s, t).slots[slot] = Unsaid
                    ELSE \E k \in said : /\ \A j \in said : j <= k
                                         /\ Folded(s, t).slots[slot] = new[k].slots[slot]
    <2> DEFINE said == {k \in DOMAIN new : new[k].slots[slot] # Unsaid}
               before == {k \in DOMAIN old : old[k].slots[slot] # Unsaid}
    <2>1. Folded(s, t).slots[slot] = IF t.slots[slot] = Unsaid THEN s.slots[slot] ELSE t.slots[slot]
      BY DEF Folded
    <2>2. m \in Nat
      BY <1>3
    <2>3. CASE t.slots[slot] # Unsaid
      <3>1. m + 1 \in said /\ \A j \in said : j <= m + 1
        BY <1>8, <1>9, <2>2, <2>3
      <3>2. Folded(s, t).slots[slot] = new[m + 1].slots[slot]
        BY <1>9, <2>1, <2>3
      <3> HIDE DEF said
      <3>3. said # {} /\ \E k \in said : /\ \A j \in said : j <= k
                                         /\ Folded(s, t).slots[slot] = new[k].slots[slot]
        BY <3>1, <3>2
      <3> QED
        BY <3>3 DEF said
    <2>4. CASE t.slots[slot] = Unsaid
      <3>1. said = before
        BY <1>4, <1>8, <1>9, <2>2, <2>4
      <3>2. \A k \in before : new[k].slots[slot] = old[k].slots[slot]
        BY <1>4, <1>9
      <3>3. IF before = {} THEN s.slots[slot] = Unsaid
            ELSE \E k \in before : /\ \A j \in before : j <= k
                                   /\ s.slots[slot] = old[k].slots[slot]
        BY <1>10
      <3> HIDE DEF said, before
      <3>4. IF said = {} THEN Folded(s, t).slots[slot] = Unsaid
            ELSE \E k \in said : /\ \A j \in said : j <= k
                                 /\ Folded(s, t).slots[slot] = new[k].slots[slot]
        BY <2>1, <2>4, <3>1, <3>2, <3>3
      <3> QED
        BY <3>4 DEF said
    <2> QED
      BY <2>3, <2>4
  <1>15. Holds(Folded(s, t), new)
    BY <1>12, <1>13, <1>14 DEF Holds, Texts
  <1> QED
    BY <1>3, <1>7, <1>15 DEF Recalled, more, new

\* A session that is new recalls nothing, and one that is renewed the same.
LEMMA RecalledNew == Recalled(NewSession, <<>>)
  <1> DEFINE none == [k \in 1 .. 0 |-> 1]
  <1>1. Len(<<>>) = 0 /\ DOMAIN <<>> = {}
    BY EmptySeq
  <1>2. 0 \in 0 .. 0 /\ none \in [1 .. 0 -> 1 .. 0] /\ \A j, k \in 1 .. 0 : j < k => none[j] < none[k]
    OBVIOUS
  <1>3. none \in Increasing(0)
    BY <1>2 DEF Increasing
  <1>4. <<>> \in Seq(Turn) /\ 0 \in 0 .. Len(<<>>) /\ none \in [1 .. 0 -> 1 .. Len(<<>>)]
    BY <1>1, <1>2, EmptySeq
  <1> HIDE DEF none
  <1>5. Picked(<<>>, none) \in Seq(Turn) /\ Len(Picked(<<>>, none)) = 0
        /\ DOMAIN Picked(<<>>, none) = 1 .. 0
    BY <1>4, PickedIsSeq
  <1>6. Picked(<<>>, none) = <<>>
    BY <1>5, EmptySeq
  <1>7. Texts(<<>>) \in Seq(Nat) /\ Len(Texts(<<>>)) = 0
    BY <1>1, <1>4, TextsAreNat
  <1>8. Latest(Texts(<<>>)) \in Seq(Nat) /\ Len(Latest(Texts(<<>>))) = 0
    <2>1. Dropped(0) = 0
      BY StoreBounds DEF Dropped
    <2> QED
      BY <1>7, <2>1, LatestIs
  <1>9. Latest(Texts(<<>>)) = <<>>
    BY <1>8, EmptySeq
  <1>10. Holds(NewSession, <<>>)
    BY <1>1, <1>9 DEF Holds, NewSession, Texts
  <1> QED
    BY <1>1, <1>3, <1>6, <1>10 DEF Recalled

LEMMA RecalledTouched ==
  ASSUME NEW s, NEW ts, Recalled(s, ts) PROVE Recalled(Touched(s), ts)
  BY DEF Recalled, Holds, Touched

LEMMA OpenKeepsRecall ==
  ASSUME Base, Recall, NEW presented, NEW i \in Ids, NEW o \in Outcomes, Open(presented, i, o)
  PROVE  Recall'
  <1>1. \/ Renewed(i)
        \/ Loaded(i, o)
        \/ Minted(i) /\ UNCHANGED <<table, faults>>
        \/ /\ Minted(i)
           /\ table' = SaveDb(SweepDb(table, o.sweep), memory', i, o.save)
    BY Opens DEF Base
  <1> DEFINE rows == SweepDb(table, o.sweep)
  <1>2. DOMAIN rows \subseteq DOMAIN table /\ \A j \in DOMAIN rows : rows[j] = table[j]
    BY SweptRows
  <1> HIDE DEF rows
  <1>3. CASE Renewed(i)
    <2>1. Recalled(Touched(memory[i]), told[i])
      BY <1>3, RecalledTouched DEF Renewed, Recall
    <2>2. ASSUME NEW j \in DOMAIN memory' PROVE Recalled(memory'[j], told'[j])
      BY <1>3, <2>1 DEF Renewed, Recall
    <2>3. ASSUME NEW j \in DOMAIN table' PROVE Recalled(table'[j], told'[j])
      BY <1>3 DEF Renewed, Recall
    <2> QED
      BY <2>2, <2>3 DEF Recall
  <1>4. CASE Loaded(i, o)
    <2>1. ASSUME NEW j \in DOMAIN memory' PROVE Recalled(memory'[j], told'[j])
      BY <1>4 DEF Loaded, Recall
    <2>2. ASSUME NEW j \in DOMAIN table' PROVE Recalled(table'[j], told'[j])
      BY <1>2, <1>4 DEF Loaded, Recall, rows
    <2> QED
      BY <2>1, <2>2 DEF Recall
  <1>5. CASE Minted(i)
    <2>1. told' = [told EXCEPT ![i] = <<>>] /\ told \in [Ids -> Seq(Turn)]
      BY <1>5 DEF Minted, Base, SessionTypeOK
    <2>2. told'[i] = <<>> /\ \A j \in Ids \ {i} : told'[j] = told[j]
      BY <2>1
    <2>3. ASSUME NEW j \in DOMAIN memory' PROVE Recalled(memory'[j], told'[j])
      <3>1. CASE j = i
        BY <1>5, <2>2, <3>1, RecalledNew DEF Minted
      <3>2. CASE j # i
        BY <1>5, <2>2, <3>2 DEF Minted, Recall, Base, SessionTypeOK
      <3> QED
        BY <3>1, <3>2
    <2>4. ASSUME NEW j \in DOMAIN table' PROVE Recalled(table'[j], told'[j])
      <3>1. i \in DOMAIN memory' /\ memory'[i] = NewSession /\ i \notin DOMAIN table
        BY <1>5 DEF Minted
      <3>2. \/ j \in DOMAIN table /\ table'[j] = table[j]
            \/ j = i /\ table'[j] = NewSession
        <4>1. CASE table' = table
          BY <4>1
        <4>2. CASE table' = SaveDb(rows, memory', i, o.save)
          BY <1>2, <3>1, <4>2 DEF SaveDb, Put
        <4> QED
          BY <1>1, <1>5, <4>1, <4>2 DEF Renewed, Loaded, Minted, rows
      <3>3. CASE j = i
        BY <2>2, <3>1, <3>2, <3>3, RecalledNew
      <3>4. CASE j # i
        BY <2>2, <3>2, <3>4 DEF Recall, Base, SessionTypeOK
      <3> QED
        BY <3>3, <3>4
    <2> QED
      BY <2>3, <2>4 DEF Recall
  <1> QED
    BY <1>1, <1>3, <1>4, <1>5

LEMMA RememberKeepsRecall ==
  ASSUME Base, Recall, NEW i \in minted, NEW t \in Turn, NEW o \in Outcomes, Remember(i, t, o)
  PROVE  Recall'
  <1>1. /\ DOMAIN memory' = DOMAIN memory
        /\ \A j \in DOMAIN memory :
             memory'[j] = IF j = i THEN Folded(memory[i], t) ELSE memory[j]
        /\ \A j \in DOMAIN table' :
             \/ j = i /\ i \in DOMAIN memory /\ table'[j] = memory'[i]
             \/ j \in DOMAIN table /\ table'[j] = table[j]
    BY ZenonT(60), Remembers
  <1>2. /\ told' = [told EXCEPT ![i] = Append(told[i], t)]
        /\ told \in [Ids -> Seq(Turn)] /\ i \in Ids /\ told[i] \in Seq(Turn)
    BY DEF Remember, Base, SessionTypeOK
  <1>3. told'[i] = Append(told[i], t) /\ \A j \in Ids \ {i} : told'[j] = told[j]
    BY <1>2
  <1>4. ASSUME NEW j \in DOMAIN memory PROVE Recalled(memory'[j], told'[j])
    <2>1. memory[j] \in Session /\ j \in Ids /\ Recalled(memory[j], told[j])
      BY DEF Base, SessionTypeOK, Recall
    <2>2. CASE j = i
      BY <1>1, <1>2, <1>3, <2>1, <2>2, RecalledFolded
    <2>3. CASE j # i
      BY <1>1, <1>3, <2>1, <2>3
    <2> QED
      BY <2>2, <2>3
  <1>5. ASSUME NEW j \in DOMAIN table' PROVE Recalled(table'[j], told'[j])
    <2>1. CASE j = i /\ i \in DOMAIN memory /\ table'[j] = memory'[i]
      BY <1>4, <2>1
    <2>2. CASE j \in DOMAIN table /\ table'[j] = table[j]
      <3>1. Recalled(table[j], told[j]) /\ j \in Ids
        BY <2>2 DEF Recall, Base, SessionTypeOK
      <3>2. Recalled(table[j], told'[j])
        BY <1>2, <1>3, <3>1, RecalledStill
      <3> QED
        BY <2>2, <3>2
    <2> QED
      BY <1>1, <2>1, <2>2
  <1> QED
    BY <1>1, <1>4, <1>5 DEF Recall

LEMMA StepKeepsRecall == Base /\ Recall /\ [SessionNext]_sessionVars => Recall'
  <1> SUFFICES ASSUME Base, Recall, [SessionNext]_sessionVars PROVE Recall'
    OBVIOUS
  <1>1. CASE \E presented \in minted \cup {NoSession}, i \in Ids, o \in Outcomes :
               Open(presented, i, o)
    BY <1>1, OpenKeepsRecall
  <1>2. ASSUME NEW o \in Outcomes, Look(o) PROVE Recall'
    BY <1>2, SweptRows DEF Look, Recall
  <1>3. CASE \E i \in minted, t \in Turn, o \in Outcomes : Remember(i, t, o)
    BY <1>3, RememberKeepsRecall
  <1>4. CASE Tick \/ UNCHANGED sessionVars
    BY <1>4 DEF Tick, sessionVars, Recall
  <1>5. CASE Restart \/ Reboot
    <2>1. DOMAIN memory' = {} /\ UNCHANGED <<table, told>>
      BY <1>5 DEF Restart, Reboot, Keep
    <2> QED
      BY <2>1 DEF Recall
  <1> QED
    BY <1>1, <1>2, <1>3, <1>4, <1>5 DEF SessionNext

LEMMA InitRecall == SessionInit => Recall
  BY DEF SessionInit, Recall

-----------------------------------------------------------------------------
(* The theorems.                                                           *)

\* The variables keep the types the code gives them, for every instance.
THEOREM SessionsKeepTheirTypes == SessionSpec => []SessionTypeOK
  BY AlwaysBase, PTL DEF Base

\* An id a caller invents never names a session, in memory or in the table.
THEOREM OnlyMintedIds == SessionSpec => []OnlyMinted
  BY AlwaysBase, PTL DEF Base

\* Whatever is evicted, swept, loaded or refused, a session holds what some of
\* the turns told under its own id left behind, in their order, and nothing else.
THEOREM SessionsRecallTheirOwn == SessionSpec => []RecallsItsOwn
  <1>1. Recall => RecallsItsOwn
    BY DEF Recall, Recalled, RecallsItsOwn
  <1> QED
    BY <1>1, InitRecall, StepKeepsRecall, AlwaysBase, PTL DEF SessionSpec

\* While nothing is refused, what is read from memory and what a restart would
\* load are the same.
THEOREM OneStory == SessionSpec => []LayersInStep
  BY AlwaysFollowed, PTL DEF Followed

\* However many sessions the table gave back, a new one brings the dictionary
\* down to max_sessions.
THEOREM MintingIsBounded == SessionSpec => MintingBounds
  <1>1. Base /\ [SessionNext]_sessionVars =>
          [minted' # minted => Cardinality(DOMAIN memory') <= MaxSessions]_sessionVars
    <2> SUFFICES ASSUME Base, SessionNext, minted' # minted
                 PROVE  Cardinality(DOMAIN memory') <= MaxSessions
      OBVIOUS
    <2>1. PICK presented \in minted \cup {NoSession}, i \in Ids, o \in Outcomes :
            Open(presented, i, o)
      BY DEF SessionNext, Look, Remember, Tick, Restart, Reboot
    <2>2. Mint(i)
      BY <2>1, Opens DEF Base, Renewed, Loaded
    <2> QED
      BY <2>2, MintMints DEF Base
  <1> QED
    BY <1>1, AlwaysBase, PTL DEF SessionSpec, MintingBounds

\* A visitor whose turn was written is found again within the idle period of
\* it, and not after.
THEOREM FreshSessionsAreHonoured == SessionSpec => HonouredWhileFresh
  <1> DEFINE Honoured ==
        \A i \in minted, j \in Ids :
          backend = "sqlite" /\ reboots = 0 /\ Open(i, j, AllWell) /\ faults = 0
            => (j = i <=> heard[i] >= Cutoff)
  <1>1. Base /\ Followed => Honoured
    <2> SUFFICES ASSUME Base, Followed, NEW i \in minted, NEW j \in Ids,
                        backend = "sqlite", reboots = 0, Open(i, j, AllWell), faults = 0
                 PROVE  j = i <=> heard[i] >= Cutoff
      OBVIOUS
    <2>1. IF i \in DOMAIN table THEN table[i].touched = heard[i] ELSE heard[i] < Cutoff
      BY DEF Followed, Fresh
    <2>2. AllWell \in Outcomes
      BY DEF AllWell, Outcomes
    <2>3. heard[i] \in Nat /\ Cutoff \in Int
      <3>1. heard \in [Ids -> Nat] /\ minted \subseteq Ids /\ clock \in Nat
        BY DEF Base, SessionTypeOK
      <3>2. heard[i] \in Nat
        BY <3>1
      <3>3. Cutoff \in Int
        BY <3>1, StoreBounds DEF Cutoff
      <3> QED
        BY <3>2, <3>3
    <2>4. CASE Loaded(j, AllWell) /\ j = i
      BY <2>1, <2>4 DEF Loaded
    <2>5. CASE /\ Minted(j)
               /\ ~Loads(SweepDb(table, AllWell.sweep), i, AllWell.load)
      <3>1. j # i
        BY <2>5 DEF Minted
      <3>2. AllWell.sweep = TRUE /\ AllWell.load = TRUE
        BY DEF AllWell
      <3>3. ~(i \in DOMAIN table /\ table[i].touched >= Cutoff)
        BY <2>5, <3>2 DEF Loads, SweepDb, Keep
      <3> QED
        BY <2>1, <2>3, <3>1, <3>3
    <2> QED
      BY <2>2, <2>4, <2>5, Opens DEF Base, Renewed
  <1>2. Honoured => [Honoured]_sessionVars
    OBVIOUS
  <1> HIDE DEF Honoured
  <1>3. SessionSpec => [][Honoured]_sessionVars
    BY <1>1, <1>2, AlwaysBase, AlwaysFollowed, PTL
  <1> QED
    BY <1>3 DEF Honoured, HonouredWhileFresh
=============================================================================
