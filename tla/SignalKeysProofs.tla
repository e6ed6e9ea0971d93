--------------------------- MODULE SignalKeysProofs ---------------------------
(***************************************************************************)
(* The key utilities implement the row register, and their cache agrees    *)
(* with the store, for any number of callers, rows and attempts: whoever   *)
(* changes a row holds the mutex of its key, and whoever fills or writes   *)
(* the cache holds the cache's.                                            *)
(***************************************************************************)
EXTENDS SignalKeys, FiniteSetTheorems, WellFoundedInduction, TLAPS

Values == Nat \cup {Missing}

(* The positions of a transaction at which it holds its key's mutex, and   *)
(* those at which it has a place in its queue.                             *)
AtWork == {"working", "awaitsType", "reading", "committing", "retrying"}
InTransaction == AtWork \cup {"queued"}

(* Calls to the caching store. *)
InCacheCall == Reading \cup {"committing"}

States == InTransaction \cup InCacheCall \cup {"idle", "settling", "clearing", "done"}

Tickets == [by : Callers, name : MutexNames, gen : Nat]
Contexts == [at : States, row : Rows, base : Values, new : Values, tries : Int]

KeysTypes ==
  /\ stored \in [Rows -> Nat]
  /\ cached \in [Rows -> Values]
  /\ cacheQueue \in Seq(Callers)
  /\ io \in [Callers -> Values]
  /\ table \in [MutexNames -> Nat]
  /\ tickets \in Seq(Tickets)
  /\ tx \in [Callers -> Contexts]
  /\ unsure \subseteq Rows
  /\ latest \in [Rows -> SUBSET Nat]

(* Tickets are for the mutexes in the table, those for the mutex of a key  *)
(* belong to the transactions of that key, and each of these has one.      *)
TicketsMatch ==
  /\ \A i \in DOMAIN tickets :
       /\ tickets[i].gen = table[tickets[i].name] /\ table[tickets[i].name] # 0
       /\ tickets[i].name \notin Rows =>
            /\ tx[tickets[i].by].at \in InTransaction
            /\ tickets[i].name = KeyOf[tx[tickets[i].by].row]
  /\ \A c \in Callers : tx[c].at \in InTransaction =>
       \E i \in DOMAIN tickets : tickets[i].by = c /\ tickets[i].name = KeyOf[tx[c].row]
  /\ \A c \in Callers : tx[c].at \in AtWork => Holds(c, KeyOf[tx[c].row])

(* Only the holder of the cache has asked the store. *)
QueueMatches ==
  \A c \in Callers :
    /\ tx[c].at \in InCacheCall => \E i \in DOMAIN cacheQueue : cacheQueue[i] = c
    /\ io[c] # Missing => tx[c].at \in InCacheCall /\ Head(cacheQueue) = c

(* What transactions and readers have in hand is what the register allows. *)
ContextsMatch ==
  \A c \in Callers :
    /\ tx[c].at \notin AtWork => tx[c].base = Missing /\ tx[c].new = Missing
    /\ tx[c].at \in {"committing", "retrying"} => tx[c].new # Missing
    /\ tx[c].base # Missing => tx[c].base \in latest[tx[c].row]
    /\ tx[c].new # Missing => tx[c].new \in {0} \cup {base + 1 : base \in latest[tx[c].row]}
    /\ tx[c].at \in Reading /\ io[c] # Missing =>
         /\ io[c] \in latest[tx[c].row]
         /\ tx[c].row \in unsure \/ io[c] = stored[tx[c].row]

(* A set() of the row has written the cache and not yet heard of the store. *)
Sets(c, r) == tx[c].at = "committing" /\ tx[c].row = r /\ io[c] # Missing

CacheMatches ==
  \A r \in Rows :
    /\ stored[r] \in latest[r]
    /\ \A c \in Callers : Sets(c, r) => cached[r] \in {Missing, tx[c].new}
    /\ cached[r] # Missing /\ (\A c \in Callers : ~Sets(c, r)) =>
         /\ cached[r] \in latest[r]
         /\ r \in unsure \/ cached[r] = stored[r]

KeysIInv ==
  /\ KeysTypes
  /\ TicketsMatch
  /\ QueueMatches
  /\ ContextsMatch
  /\ CacheMatches

HasTicket(c, name) == \E i \in DOMAIN tickets : tickets[i].by = c /\ tickets[i].name = name

-----------------------------------------------------------------------------
(* The mutex table *)

LEMMA NamesAreMutexes ==
  ASSUME NEW r \in Rows
  PROVE  r \in MutexNames /\ KeyOf[r] \in MutexNames /\ KeyOf[r] \notin Rows
BY KeysAssumption DEF MutexNames

LEMMA ContextFields ==
  ASSUME KeysTypes, NEW c \in Callers
  PROVE  /\ tx[c].at \in States /\ tx[c].row \in Rows /\ tx[c].base \in Values
         /\ tx[c].new \in Values /\ tx[c].tries \in Int
         /\ tx[c].row \in MutexNames /\ KeyOf[tx[c].row] \in MutexNames /\ KeyOf[tx[c].row] \notin Rows
<1>1. tx[c] \in Contexts
  BY DEF KeysTypes
<1>2. tx[c].row \in Rows
  BY <1>1 DEF Contexts
<1>. QED BY <1>1, <1>2, NamesAreMutexes DEF Contexts

(* A concatenation, place by place. *)
LEMMA JoinedPlaces ==
  ASSUME NEW S, NEW a \in Seq(S), NEW b \in Seq(S)
  PROVE  /\ a \o b \in Seq(S) /\ Len(a \o b) = Len(a) + Len(b)
         /\ \A i \in 1..(Len(a) + Len(b)) :
              (a \o b)[i] = IF i <= Len(a) THEN a[i] ELSE b[i - Len(a)]
OBVIOUS

(* A place in the middle of a sequence is given up: the others move up. *)
LEMMA RemovedAt ==
  ASSUME NEW S, NEW s \in Seq(S), NEW k \in DOMAIN s
  PROVE  /\ RemoveAt(s, k) \in Seq(S)
         /\ DOMAIN RemoveAt(s, k) = 1..(Len(s) - 1)
         /\ \A i \in 1..(Len(s) - 1) : RemoveAt(s, k)[i] = IF i < k THEN s[i] ELSE s[i + 1]
<1>. DEFINE a == SubSeq(s, 1, k - 1)
            b == SubSeq(s, k + 1, Len(s))
<1>1. Len(s) \in Nat /\ k \in 1..Len(s) /\ s \in Seq(S)
  OBVIOUS
<1>2. a \in Seq(S) /\ Len(a) = k - 1 /\ \A i \in 1..(k - 1) : a[i] = s[i]
  BY <1>1
<1>3. b \in Seq(S) /\ Len(b) = Len(s) - k /\ \A i \in 1..(Len(s) - k) : b[i] = s[k + i]
  BY <1>1
<1>. HIDE DEF a, b
<1>4. /\ a \o b \in Seq(S) /\ Len(a \o b) = Len(s) - 1
      /\ \A i \in 1..(Len(s) - 1) : (a \o b)[i] = IF i <= k - 1 THEN a[i] ELSE b[i - (k - 1)]
  <2>1. Len(a) = k - 1 /\ Len(a) + Len(b) = Len(s) - 1
    BY <1>1, <1>2, <1>3
  <2>2. /\ a \o b \in Seq(S) /\ Len(a \o b) = Len(a) + Len(b)
        /\ \A i \in 1..(Len(a) + Len(b)) :
             (a \o b)[i] = IF i <= Len(a) THEN a[i] ELSE b[i - Len(a)]
    BY <1>2, <1>3, JoinedPlaces
  <2>. QED BY <2>1, <2>2
<1>5. \A i \in 1..(Len(s) - 1) : (a \o b)[i] = IF i < k THEN s[i] ELSE s[i + 1]
  <2>1. ASSUME NEW i \in 1..(Len(s) - 1), i < k PROVE (a \o b)[i] = s[i]
    BY <1>1, <1>2, <1>4, <2>1
  <2>2. ASSUME NEW i \in 1..(Len(s) - 1), ~(i < k) PROVE (a \o b)[i] = s[i + 1]
    <3>1. i - (k - 1) \in 1..(Len(s) - k) /\ k + (i - (k - 1)) = i + 1 /\ ~(i <= k - 1)
      BY <1>1, <2>2
    <3>2. b[i - (k - 1)] = s[i + 1]
      BY <1>3, <3>1
    <3>. QED BY <1>4, <3>1, <3>2
  <2>. QED BY <2>1, <2>2
<1>6. RemoveAt(s, k) = a \o b
  BY DEF RemoveAt, a, b
<1>. QED BY <1>4, <1>5, <1>6

LEMMA EnterKeeps ==
  ASSUME KeysTypes, TicketsMatch, NEW c \in Callers, NEW name \in MutexNames, NEW owned,
         Enter(c, name, owned)
  PROVE  /\ tickets' \in Seq(Tickets) /\ table' \in [MutexNames -> Nat]
         /\ \A i \in DOMAIN tickets' :
              tickets'[i].gen = table'[tickets'[i].name] /\ table'[tickets'[i].name] # 0
         /\ \A i \in DOMAIN tickets' :
              \/ i \in DOMAIN tickets /\ tickets'[i] = tickets[i]
              \/ tickets'[i].by = c /\ tickets'[i].name = name
         /\ \A d, n : HasTicket(d, n) => HasTicket(d, n)'
         /\ HasTicket(c, name)'
         /\ \A d, n : Holds(d, n) /\ ~(d = c /\ n = name) => Holds(d, n)'
<1>. DEFINE gen == IF table[name] # 0 THEN table[name]
                   ELSE CHOOSE g \in 1..(Len(tickets) + 1) : ~Locked(name, g)
            t == [by |-> c, name |-> name, gen |-> gen]
<1>1. table' = [table EXCEPT ![name] = gen] /\ tickets' = Append(tickets, t)
  BY DEF Enter
<1>2. tickets \in Seq(Tickets) /\ table \in [MutexNames -> Nat]
  BY DEF KeysTypes
<1>3. gen \in Nat /\ gen # 0
  <2>1. CASE table[name] # 0
    BY <1>2, <2>1
  <2>2. CASE table[name] = 0
    <3>1. ~Locked(name, 1)
      BY <2>2 DEF Locked, TicketsMatch
    <3>2. 1 \in 1..(Len(tickets) + 1)
      BY <1>2
    <3>3. gen \in 1..(Len(tickets) + 1) /\ Len(tickets) \in Nat
      BY <1>2, <2>2, <3>1, <3>2
    <3>. HIDE DEF gen
    <3>. QED BY <3>3
  <2>. QED BY <2>1, <2>2
<1>4. t \in Tickets /\ t.by = c /\ t.name = name /\ t.gen = gen
  BY <1>3 DEF Tickets
<1>5. \A i \in DOMAIN tickets : tickets[i].name = name => tickets[i].gen = gen
  BY DEF TicketsMatch
<1>. HIDE DEF t, gen
<1>6. /\ tickets' \in Seq(Tickets) /\ Len(tickets') = Len(tickets) + 1 /\ Len(tickets) \in Nat
      /\ DOMAIN tickets = 1..Len(tickets) /\ DOMAIN tickets' = 1..(Len(tickets) + 1)
      /\ \A i \in 1..Len(tickets) : tickets'[i] = tickets[i]
      /\ tickets'[Len(tickets) + 1] = t
  BY <1>1, <1>2, <1>4
<1>7. table' \in [MutexNames -> Nat] /\ table'[name] = gen /\ \A n \in MutexNames \ {name} : table'[n] = table[n]
  BY <1>1, <1>2, <1>3
<1>8. \A i \in DOMAIN tickets : tickets[i].name \in MutexNames
  <2>1. \A i \in DOMAIN tickets : tickets[i] \in Tickets
    BY <1>2, <1>6
  <2>. QED BY <2>1 DEF Tickets
<1>9. \A i \in DOMAIN tickets' :
        tickets'[i].gen = table'[tickets'[i].name] /\ table'[tickets'[i].name] # 0
  BY <1>3, <1>4, <1>5, <1>6, <1>7, <1>8 DEF TicketsMatch
<1>10. \A d, n : HasTicket(d, n) => HasTicket(d, n)'
  BY <1>6 DEF HasTicket
<1>11. HasTicket(c, name)'
  BY <1>4, <1>6 DEF HasTicket
<1>12. \A d, n : Holds(d, n) /\ ~(d = c /\ n = name) => Holds(d, n)'
  BY <1>4, <1>6 DEF Holds
<1>. QED BY <1>4, <1>6, <1>7, <1>9, <1>10, <1>11, <1>12

LEMMA LeaveKeeps ==
  ASSUME KeysTypes, TicketsMatch, NEW c \in Callers, NEW name \in MutexNames, Leave(c, name)
  PROVE  /\ tickets' \in Seq(Tickets)
         /\ \A i \in DOMAIN tickets' : \E j \in DOMAIN tickets : tickets'[i] = tickets[j]
         /\ \A d, n : HasTicket(d, n) /\ ~(d = c /\ n = name) => HasTicket(d, n)'
         /\ \A d, n : Holds(d, n) => Holds(d, n)'
         /\ Holds(c, name) => ~HasTicket(c, name)'
<1>1. PICK k \in DOMAIN tickets :
        tickets[k].by = c /\ tickets[k].name = name /\ tickets' = RemoveAt(tickets, k)
  BY DEF Leave
<1>2. tickets \in Seq(Tickets)
  BY DEF KeysTypes
<1>. DEFINE up(i) == IF i < k THEN i ELSE i + 1
<1>3. /\ tickets' \in Seq(Tickets) /\ DOMAIN tickets' = 1..(Len(tickets) - 1)
      /\ DOMAIN tickets = 1..Len(tickets) /\ Len(tickets) \in Nat
      /\ \A i \in 1..(Len(tickets) - 1) : tickets'[i] = tickets[up(i)]
  BY <1>1, <1>2, RemovedAt
<1>4. /\ \A i \in DOMAIN tickets' : up(i) \in DOMAIN tickets /\ up(i) # k
      /\ \A i, j \in DOMAIN tickets' : i < j => up(i) < up(j)
      /\ \A j \in DOMAIN tickets : j # k => \E i \in DOMAIN tickets' : up(i) = j
  <2>1. \A j \in DOMAIN tickets : j # k => up(IF j < k THEN j ELSE j - 1) = j /\ (IF j < k THEN j ELSE j - 1) \in DOMAIN tickets'
    BY <1>1, <1>3
  <2>. QED BY <1>1, <1>3, <2>1
<1>. HIDE DEF up
<1>5. \A i \in DOMAIN tickets' : \E j \in DOMAIN tickets : tickets'[i] = tickets[j]
  BY <1>3, <1>4
<1>6. \A d, n : HasTicket(d, n) /\ ~(d = c /\ n = name) => HasTicket(d, n)'
  <2>. SUFFICES ASSUME NEW d, NEW n, HasTicket(d, n), ~(d = c /\ n = name) PROVE HasTicket(d, n)'
    OBVIOUS
  <2>1. PICK j \in DOMAIN tickets : tickets[j].by = d /\ tickets[j].name = n
    BY DEF HasTicket
  <2>2. PICK i \in DOMAIN tickets' : up(i) = j
    BY <1>1, <1>4, <2>1
  <2>. QED BY <1>3, <2>1, <2>2 DEF HasTicket
<1>7. \A d, n : Holds(d, n) => Holds(d, n)'
  <2>. SUFFICES ASSUME NEW d, NEW n, Holds(d, n),
                       NEW i \in DOMAIN tickets', tickets'[i].by = d, tickets'[i].name = n,
                       NEW j \in 1..(i - 1)
                PROVE  tickets'[j].name # n \/ tickets'[j].gen # tickets'[i].gen
    BY DEF Holds
  <2>1. j \in DOMAIN tickets' /\ j < i /\ up(j) \in 1..(up(i) - 1)
    BY <1>3, <1>4
  <2>. QED BY <1>3, <1>4, <2>1 DEF Holds
<1>8. Holds(c, name) => ~HasTicket(c, name)'
  <2>. SUFFICES ASSUME Holds(c, name), NEW i \in DOMAIN tickets',
                       tickets'[i].by = c, tickets'[i].name = name
                PROVE  FALSE
    BY DEF HasTicket
  <2>1. /\ up(i) \in DOMAIN tickets /\ up(i) # k
        /\ tickets[up(i)].by = c /\ tickets[up(i)].name = name
        /\ tickets[up(i)].gen = tickets[k].gen
    BY <1>1, <1>3, <1>4 DEF TicketsMatch
  <2>2. up(i) \in 1..(k - 1) \/ k \in 1..(up(i) - 1)
    BY <1>3, <2>1
  <2>. QED BY <1>1, <2>1, <2>2 DEF Holds
<1>. QED BY <1>3, <1>5, <1>6, <1>7, <1>8

(* Two transactions of one key do not both go on. *)
LEMMA MutualExclusion ==
  ASSUME KeysTypes, TicketsMatch, NEW c \in Callers, NEW d \in Callers, tx[c].at \in AtWork,
         tx[d].at \in AtWork, KeyOf[tx[c].row] = KeyOf[tx[d].row]
  PROVE  c = d
<1>. DEFINE name == KeyOf[tx[c].row]
<1>1. PICK i \in DOMAIN tickets : tickets[i].by = c /\ tickets[i].name = name
  BY DEF TicketsMatch, InTransaction
<1>2. PICK j \in DOMAIN tickets : tickets[j].by = d /\ tickets[j].name = name
  BY DEF TicketsMatch, InTransaction
<1>3. tickets[i].gen = tickets[j].gen
  BY <1>1, <1>2 DEF TicketsMatch
<1>4. DOMAIN tickets = 1..Len(tickets) /\ Len(tickets) \in Nat
  BY DEF KeysTypes
<1>5. i = j \/ i \in 1..(j - 1) \/ j \in 1..(i - 1)
  BY <1>4
<1>6. Holds(c, name) /\ Holds(d, name)
  BY DEF TicketsMatch
<1>. HIDE DEF name
<1>. QED BY <1>1, <1>2, <1>3, <1>5, <1>6 DEF Holds

-----------------------------------------------------------------------------
(* What steps do to the parts of the invariant *)

(* Nobody takes or leaves a place, and no transaction begins or ends. *)
LEMMA TicketsKept ==
  ASSUME KeysTypes, TicketsMatch, UNCHANGED <<table, tickets>>,
         \A c \in Callers :
           /\ tx'[c].at \in InTransaction <=> tx[c].at \in InTransaction
           /\ tx'[c].at \in InTransaction => tx'[c].row = tx[c].row
           /\ tx'[c].at \in AtWork => tx[c].at \in AtWork \/ Holds(c, KeyOf[tx[c].row])
  PROVE  TicketsMatch'
<1>1. \A d, n : Holds(d, n) <=> Holds(d, n)'
  BY DEF Holds
<1>2. \A i \in DOMAIN tickets : tickets[i].by \in Callers
  <2>1. \A i \in DOMAIN tickets : tickets[i] \in Tickets
    BY DEF KeysTypes
  <2>. QED BY <2>1 DEF Tickets
<1>. QED BY <1>1, <1>2 DEF TicketsMatch, InTransaction

(* A transaction ends: it has left the mutex of its key. *)
LEMMA TicketsSettle ==
  ASSUME KeysTypes, TicketsMatch, NEW c \in Callers, tx[c].at \in AtWork, Settles(c), UNCHANGED table
  PROVE  TicketsMatch' /\ tickets' \in Seq(Tickets)
<1>1. PICK name : name = KeyOf[tx[c].row]
  OBVIOUS
<1>2. /\ tx'[c].at = "settling" /\ \A d \in Callers \ {c} : tx'[d] = tx[d]
  BY DEF Settles, KeysTypes
<1>3. name \in MutexNames
  <2>1. tx[c] \in Contexts
    BY DEF KeysTypes
  <2>. QED BY <1>1, <2>1, NamesAreMutexes DEF Contexts
<1>4. Leave(c, name) /\ Holds(c, name)
  BY <1>1 DEF Settles, TicketsMatch
<1>5. /\ tickets' \in Seq(Tickets)
      /\ \A i \in DOMAIN tickets' : \E j \in DOMAIN tickets : tickets'[i] = tickets[j]
      /\ \A d, n : HasTicket(d, n) /\ ~(d = c /\ n = name) => HasTicket(d, n)'
      /\ \A d, n : Holds(d, n) => Holds(d, n)'
      /\ ~HasTicket(c, name)'
  BY <1>3, <1>4, LeaveKeeps
<1>6. \A i \in DOMAIN tickets' : tickets'[i].by \in Callers
  <2>1. \A i \in DOMAIN tickets' : tickets'[i] \in Tickets
    BY <1>5
  <2>. QED BY <2>1 DEF Tickets
<1>7. ASSUME NEW i \in DOMAIN tickets', tickets'[i].name \notin Rows
      PROVE  tickets'[i].by # c
  <2>1. PICK j \in DOMAIN tickets : tickets'[i] = tickets[j]
    BY <1>5
  <2>2. tickets'[i].by = c => tickets'[i].name = name
    BY <1>1, <1>7, <2>1 DEF TicketsMatch
  <2>. QED BY <1>5, <2>2 DEF HasTicket
<1>8. \A i \in DOMAIN tickets' :
        /\ tickets'[i].gen = table'[tickets'[i].name] /\ table'[tickets'[i].name] # 0
        /\ tickets'[i].name \notin Rows =>
             /\ tx'[tickets'[i].by].at \in InTransaction
             /\ tickets'[i].name = KeyOf[tx'[tickets'[i].by].row]
  BY <1>2, <1>5, <1>6, <1>7 DEF TicketsMatch
<1>9. ASSUME NEW d \in Callers, tx'[d].at \in InTransaction
      PROVE  /\ \E i \in DOMAIN tickets' : tickets'[i].by = d /\ tickets'[i].name = KeyOf[tx'[d].row]
             /\ tx'[d].at \in AtWork => Holds(d, KeyOf[tx[d].row])'
  <2>1. d # c /\ tx'[d] = tx[d]
    BY <1>2, <1>9 DEF InTransaction, AtWork
  <2>2. PICK n : n = KeyOf[tx[d].row] /\ n = KeyOf[tx'[d].row]
    BY <2>1
  <2>3. HasTicket(d, n)'
    <3>1. HasTicket(d, n)
      BY <1>9, <2>1, <2>2 DEF TicketsMatch, HasTicket
    <3>. QED BY <1>5, <2>1, <3>1
  <2>4. tx'[d].at \in AtWork => Holds(d, n)'
    <3>1. tx'[d].at \in AtWork => Holds(d, n)
      BY <2>1, <2>2 DEF TicketsMatch
    <3>. QED BY <1>5, <3>1
  <2>5. tx'[d].at \in AtWork => Holds(d, KeyOf[tx[d].row])'
    BY <2>2, <2>4 DEF Holds
  <2>. QED BY <2>2, <2>3, <2>5 DEF HasTicket
<1>10. \A d \in Callers : tx'[d].at \in AtWork => tx'[d].at \in InTransaction
  BY DEF InTransaction
<1>. QED BY <1>5, <1>8, <1>9, <1>10 DEF TicketsMatch

(* A transaction takes a place in the queue of its key's mutex when it is  *)
(* called, and of its type's mutex while it goes on.                       *)
LEMMA TicketsEntered ==
  ASSUME KeysTypes, TicketsMatch, NEW c \in Callers, NEW key \in MutexNames, NEW owned, Enter(c, key, owned),
         \A d \in Callers \ {c} : tx'[d] = tx[d],
         tx'[c].at \in InTransaction,
         \/ tx[c].at \notin InTransaction /\ tx'[c].at \notin AtWork /\ key = KeyOf[tx'[c].row]
         \/ tx[c].at \in AtWork /\ tx'[c].row = tx[c].row /\ key \in Rows
  PROVE  TicketsMatch' /\ tickets' \in Seq(Tickets) /\ table' \in [MutexNames -> Nat]
<1>1. PICK name \in MutexNames : name = key
  OBVIOUS
<1>2. /\ tickets' \in Seq(Tickets) /\ table' \in [MutexNames -> Nat]
      /\ \A i \in DOMAIN tickets' :
           tickets'[i].gen = table'[tickets'[i].name] /\ table'[tickets'[i].name] # 0
      /\ \A i \in DOMAIN tickets' :
           \/ i \in DOMAIN tickets /\ tickets'[i] = tickets[i]
           \/ tickets'[i].by = c /\ tickets'[i].name = name
      /\ \A d, n : HasTicket(d, n) => HasTicket(d, n)'
      /\ HasTicket(c, name)'
      /\ \A d, n : Holds(d, n) /\ ~(d = c /\ n = name) => Holds(d, n)'
  BY <1>1, EnterKeeps
<1>3. ASSUME NEW i \in DOMAIN tickets', tickets'[i].name \notin Rows
      PROVE  /\ tx'[tickets'[i].by].at \in InTransaction
             /\ tickets'[i].name = KeyOf[tx'[tickets'[i].by].row]
  <2>1. CASE tickets'[i].by = c /\ tickets'[i].name = name
    BY <1>1, <1>3, <2>1
  <2>2. CASE i \in DOMAIN tickets /\ tickets'[i] = tickets[i]
    <3>1. tickets[i].by \in Callers
      <4>1. tickets[i] \in Tickets
        BY <2>2 DEF KeysTypes
      <4>. QED BY <4>1 DEF Tickets
    <3>2. tickets[i].by = c => tx[c].at \in AtWork
      BY <1>3, <2>2 DEF TicketsMatch
    <3>. QED BY <1>3, <2>2, <3>1, <3>2 DEF TicketsMatch
  <2>. QED BY <1>2, <2>1, <2>2
<1>4. ASSUME NEW d \in Callers, tx'[d].at \in InTransaction
      PROVE  \E i \in DOMAIN tickets' : tickets'[i].by = d /\ tickets'[i].name = KeyOf[tx'[d].row]
  <2>1. CASE d = c /\ tx[c].at \notin InTransaction
    BY <1>1, <1>2, <2>1 DEF HasTicket, InTransaction
  <2>2. CASE d # c \/ tx[c].at \in InTransaction
    <3>1. PICK n : n = KeyOf[tx[d].row] /\ tx'[d].row = tx[d].row
      BY <2>2
    <3>2. HasTicket(d, n)
      BY <1>4, <2>2, <3>1 DEF TicketsMatch, HasTicket
    <3>3. HasTicket(d, n)'
      BY <1>2, <3>2
    <3>. QED BY <3>1, <3>3 DEF HasTicket
  <2>. QED BY <2>1, <2>2
<1>5. ASSUME NEW d \in Callers, tx'[d].at \in AtWork
      PROVE  Holds(d, KeyOf[tx[d].row])'
  <2>1. tx[d].at \in AtWork /\ tx'[d].row = tx[d].row /\ (d = c => name \in Rows)
    BY <1>1, <1>5
  <2>2. PICK n : n = KeyOf[tx[d].row] /\ n = KeyOf[tx'[d].row] /\ n \notin Rows
    BY <2>1, ContextFields
  <2>3. Holds(d, n)'
    BY <1>2, <2>1, <2>2 DEF TicketsMatch
  <2>. QED BY <2>2, <2>3 DEF Holds
<1>. QED BY <1>2, <1>3, <1>4, <1>5 DEF TicketsMatch

-----------------------------------------------------------------------------
(* Steps that touch neither the cache nor the store *)

(* Contexts change, and calls to the caching store may begin. *)
LEMMA OutsideCache ==
  ASSUME KeysIInv, UNCHANGED <<stored, cached, unsure, io, latest>>, tx' \in [Callers -> Contexts],
         cacheQueue' = cacheQueue \/ \E c \in Callers : cacheQueue' = Append(cacheQueue, c),
         \A c \in Callers :
           \/ tx'[c] = tx[c]
           \/ /\ io[c] = Missing
              /\ tx'[c].at \in InCacheCall => cacheQueue' = Append(cacheQueue, c)
              /\ tx'[c].at \notin AtWork => tx'[c].base = Missing /\ tx'[c].new = Missing
              /\ tx'[c].at \in {"committing", "retrying"} => tx'[c].new # Missing
              /\ tx'[c].base # Missing => tx'[c].base \in latest[tx'[c].row]
              /\ tx'[c].new # Missing => tx'[c].new \in {0} \cup {base + 1 : base \in latest[tx'[c].row]}
  PROVE  QueueMatches' /\ ContextsMatch' /\ CacheMatches' /\ cacheQueue' \in Seq(Callers)
<1>1. cacheQueue \in Seq(Callers)
  BY DEF KeysIInv, KeysTypes
<1>2. /\ cacheQueue' \in Seq(Callers)
      /\ \A i \in DOMAIN cacheQueue : i \in DOMAIN cacheQueue' /\ cacheQueue'[i] = cacheQueue[i]
      /\ \A c : cacheQueue' = Append(cacheQueue, c) =>
           Len(cacheQueue) + 1 \in DOMAIN cacheQueue' /\ cacheQueue'[Len(cacheQueue) + 1] = c
      /\ cacheQueue # <<>> => Head(cacheQueue') = Head(cacheQueue)
  BY <1>1
<1>3. \A c \in Callers : io[c] # Missing => tx'[c] = tx[c] /\ cacheQueue # <<>>
  BY <1>1 DEF KeysIInv, QueueMatches
<1>4. QueueMatches'
  BY <1>2, <1>3 DEF KeysIInv, QueueMatches
<1>5. ContextsMatch'
  BY <1>3 DEF KeysIInv, ContextsMatch
<1>6. \A c \in Callers : \A r : Sets(c, r) <=> Sets(c, r)'
  BY <1>3 DEF Sets
<1>7. CacheMatches'
  <2>1. \A c \in Callers : \A r : Sets(c, r) => tx'[c] = tx[c]
    BY <1>3 DEF Sets
  <2>. QED BY <1>6, <2>1 DEF KeysIInv, CacheMatches
<1>. QED BY <1>2, <1>4, <1>5, <1>7

LEMMA FreshType ==
  /\ Fresh.at = "idle" /\ Fresh.row \in Rows
  /\ Fresh.base = Missing /\ Fresh.new = Missing /\ Fresh.tries = 0 /\ Fresh \in Contexts
BY KeysAssumption DEF Fresh, Contexts, States, Values

(* The transaction ends without a commit, or after one. *)
LEMMA SettledContext ==
  ASSUME KeysTypes, NEW c \in Callers, Settles(c)
  PROVE  /\ tx' \in [Callers -> Contexts]
         /\ \A d \in Callers \ {c} : tx'[d] = tx[d]
         /\ tx'[c].at = "settling" /\ tx'[c].row = tx[c].row
         /\ tx'[c].base = Missing /\ tx'[c].new = Missing
<1>. DEFINE t == [Fresh EXCEPT !.at = "settling", !.row = tx[c].row]
<1>1. /\ t \in Contexts /\ t.at = "settling" /\ t.row = tx[c].row
      /\ t.base = Missing /\ t.new = Missing
  <2>1. Fresh \in Contexts /\ Fresh.base = Missing /\ Fresh.new = Missing /\ tx[c].row \in Rows
    BY FreshType, ContextFields
  <2>. QED BY <2>1 DEF Contexts, States
<1>2. tx' = [tx EXCEPT ![c] = t] /\ tx \in [Callers -> Contexts]
  BY DEF Settles, KeysTypes
<1>. HIDE DEF t
<1>. QED BY <1>1, <1>2

(* The context moves to another position. *)
LEMMA ContextMoves ==
  ASSUME KeysTypes, NEW c \in Callers, NEW at \in States, Goes(c, at)
  PROVE  /\ tx' \in [Callers -> Contexts]
         /\ \A d \in Callers \ {c} : tx'[d] = tx[d]
         /\ tx'[c].at = at /\ tx'[c].row = tx[c].row
         /\ tx'[c].base = tx[c].base /\ tx'[c].new = tx[c].new
<1>1. tx \in [Callers -> Contexts] /\ tx' = [tx EXCEPT ![c].at = at] /\ tx[c] \in Contexts
  BY DEF KeysTypes, Goes
<1>2. [tx[c] EXCEPT !.at = at] \in Contexts
  BY <1>1 DEF Contexts
<1>. QED BY <1>1, <1>2 DEF Contexts

LEMMA CallTransactionKeeps ==
  ASSUME KeysIInv, NEW c \in Callers, NEW r \in Rows, CallTransaction(c, r)
  PROVE  KeysIInv'
<1>1. /\ tx[c].at = "idle" /\ tx' = [tx EXCEPT ![c].at = "queued", ![c].row = r]
      /\ Enter(c, KeyOf[r], 1)
      /\ UNCHANGED <<stored, cached, unsure, cacheQueue, io, latest>>
  BY DEF CallTransaction, storeVars, cacheVars
<1>2. KeysTypes /\ TicketsMatch
  BY DEF KeysIInv
<1>3. /\ tx' \in [Callers -> Contexts] /\ \A d \in Callers \ {c} : tx'[d] = tx[d]
      /\ tx'[c].at = "queued" /\ tx'[c].row = r
      /\ tx'[c].base = Missing /\ tx'[c].new = Missing
  <2>1. [tx[c] EXCEPT !.at = "queued", !.row = r] \in Contexts
    BY <1>2, ContextFields DEF KeysTypes, Contexts, States, InTransaction
  <2>2. tx[c].base = Missing /\ tx[c].new = Missing
    BY <1>1 DEF KeysIInv, ContextsMatch, AtWork
  <2>. QED BY <1>1, <1>2, <2>1, <2>2 DEF KeysTypes, Contexts
<1>4. io[c] = Missing
  BY <1>1 DEF KeysIInv, QueueMatches, InCacheCall, Reading
<1>5. QueueMatches' /\ ContextsMatch' /\ CacheMatches' /\ cacheQueue' \in Seq(Callers)
  BY <1>1, <1>3, <1>4, OutsideCache DEF InCacheCall, Reading, AtWork
<1>6. TicketsMatch' /\ tickets' \in Seq(Tickets) /\ table' \in [MutexNames -> Nat]
  <2>1. KeyOf[r] \in MutexNames /\ KeyOf[r] \notin Rows
    BY NamesAreMutexes
  <2>. QED BY <1>1, <1>2, <1>3, <2>1, TicketsEntered DEF InTransaction, AtWork
<1>7. KeysTypes'
  BY <1>1, <1>2, <1>3, <1>5, <1>6 DEF KeysTypes
<1>. QED BY <1>5, <1>6, <1>7 DEF KeysIInv

LEMMA TransactionStartsKeeps ==
  ASSUME KeysIInv, NEW c \in Callers, TransactionStarts(c)
  PROVE  KeysIInv'
<1>1. /\ tx[c].at = "queued" /\ Goes(c, "working") /\ Holds(c, KeyOf[tx[c].row])
      /\ cacheQueue' = cacheQueue
      /\ UNCHANGED <<stored, cached, unsure, io, table, tickets, latest>>
  BY DEF TransactionStarts, storeVars, cacheVars, mutexVars
<1>2. KeysTypes /\ TicketsMatch
  BY DEF KeysIInv
<1>3. /\ tx' \in [Callers -> Contexts] /\ \A d \in Callers \ {c} : tx'[d] = tx[d]
      /\ tx'[c].at = "working" /\ tx'[c].row = tx[c].row
      /\ tx'[c].base = tx[c].base /\ tx'[c].new = tx[c].new
  BY <1>1, <1>2, ContextMoves DEF States, InTransaction, AtWork, InCacheCall, Reading
<1>4. io[c] = Missing
  BY <1>1 DEF KeysIInv, QueueMatches, InCacheCall, Reading
<1>5. /\ tx[c].base # Missing => tx[c].base \in latest[tx[c].row]
      /\ tx[c].new # Missing => tx[c].new \in {0} \cup {base + 1 : base \in latest[tx[c].row]}
      /\ tx[c].at \notin AtWork => tx[c].base = Missing /\ tx[c].new = Missing
      /\ tx[c].at \in {"committing", "retrying"} => tx[c].new # Missing
  BY DEF KeysIInv, ContextsMatch
<1>6. QueueMatches' /\ ContextsMatch' /\ CacheMatches' /\ cacheQueue' \in Seq(Callers)
  BY <1>1, <1>3, <1>4, <1>5, OutsideCache DEF InCacheCall, Reading, AtWork
<1>7. TicketsMatch'
  BY <1>1, <1>2, <1>3, TicketsKept DEF InTransaction, AtWork
<1>8. KeysTypes'
  BY <1>1, <1>2, <1>3, <1>6 DEF KeysTypes
<1>. QED BY <1>6, <1>7, <1>8 DEF KeysIInv

LEMMA ReadStartsKeeps ==
  ASSUME KeysIInv, NEW c \in Callers, ReadStarts(c)
  PROVE  KeysIInv'
<1>1. /\ tx[c].at = "awaitsType" /\ Goes(c, "reading")
      /\ cacheQueue' = Append(cacheQueue, c)
      /\ UNCHANGED <<stored, cached, unsure, io, table, tickets, latest>>
  BY DEF ReadStarts, storeVars, cacheVars, mutexVars
<1>2. KeysTypes /\ TicketsMatch
  BY DEF KeysIInv
<1>3. /\ tx' \in [Callers -> Contexts] /\ \A d \in Callers \ {c} : tx'[d] = tx[d]
      /\ tx'[c].at = "reading" /\ tx'[c].row = tx[c].row
      /\ tx'[c].base = tx[c].base /\ tx'[c].new = tx[c].new
  BY <1>1, <1>2, ContextMoves DEF States, InTransaction, AtWork, InCacheCall, Reading
<1>4. io[c] = Missing
  BY <1>1 DEF KeysIInv, QueueMatches, InCacheCall, Reading
<1>5. /\ tx[c].base # Missing => tx[c].base \in latest[tx[c].row]
      /\ tx[c].new # Missing => tx[c].new \in {0} \cup {base + 1 : base \in latest[tx[c].row]}
      /\ tx[c].at \notin AtWork => tx[c].base = Missing /\ tx[c].new = Missing
      /\ tx[c].at \in {"committing", "retrying"} => tx[c].new # Missing
  BY DEF KeysIInv, ContextsMatch
<1>6. QueueMatches' /\ ContextsMatch' /\ CacheMatches' /\ cacheQueue' \in Seq(Callers)
  BY <1>1, <1>3, <1>4, <1>5, OutsideCache DEF InCacheCall, Reading, AtWork
<1>7. TicketsMatch'
  BY <1>1, <1>2, <1>3, TicketsKept DEF InTransaction, AtWork
<1>8. KeysTypes'
  BY <1>1, <1>2, <1>3, <1>6 DEF KeysTypes
<1>. QED BY <1>6, <1>7, <1>8 DEF KeysIInv

LEMMA RetryStartsKeeps ==
  ASSUME KeysIInv, NEW c \in Callers, RetryStarts(c)
  PROVE  KeysIInv'
<1>1. /\ tx[c].at = "retrying" /\ Goes(c, "committing")
      /\ cacheQueue' = Append(cacheQueue, c)
      /\ UNCHANGED <<stored, cached, unsure, io, table, tickets, latest>>
  BY DEF RetryStarts, storeVars, cacheVars, mutexVars
<1>2. KeysTypes /\ TicketsMatch
  BY DEF KeysIInv
<1>3. /\ tx' \in [Callers -> Contexts] /\ \A d \in Callers \ {c} : tx'[d] = tx[d]
      /\ tx'[c].at = "committing" /\ tx'[c].row = tx[c].row
      /\ tx'[c].base = tx[c].base /\ tx'[c].new = tx[c].new
  BY <1>1, <1>2, ContextMoves DEF States, InTransaction, AtWork, InCacheCall, Reading
<1>4. io[c] = Missing
  BY <1>1 DEF KeysIInv, QueueMatches, InCacheCall, Reading
<1>5. /\ tx[c].base # Missing => tx[c].base \in latest[tx[c].row]
      /\ tx[c].new # Missing => tx[c].new \in {0} \cup {base + 1 : base \in latest[tx[c].row]}
      /\ tx[c].at \notin AtWork => tx[c].base = Missing /\ tx[c].new = Missing
      /\ tx[c].at \in {"committing", "retrying"} => tx[c].new # Missing
  BY DEF KeysIInv, ContextsMatch
<1>6. QueueMatches' /\ ContextsMatch' /\ CacheMatches' /\ cacheQueue' \in Seq(Callers)
  BY <1>1, <1>3, <1>4, <1>5, OutsideCache DEF InCacheCall, Reading, AtWork
<1>7. TicketsMatch'
  BY <1>1, <1>2, <1>3, TicketsKept DEF InTransaction, AtWork
<1>8. KeysTypes'
  BY <1>1, <1>2, <1>3, <1>6 DEF KeysTypes
<1>. QED BY <1>6, <1>7, <1>8 DEF KeysIInv

LEMMA CallReadKeeps ==
  ASSUME KeysIInv, NEW c \in Callers, CallRead(c)
  PROVE  KeysIInv'
<1>1. /\ tx[c].at = "working" /\ Goes(c, "awaitsType") /\ Enter(c, tx[c].row, 0)
      /\ UNCHANGED <<stored, cached, unsure, cacheQueue, io, latest>>
  BY DEF CallRead, ReadMutex, storeVars, cacheVars
<1>2. KeysTypes /\ TicketsMatch
  BY DEF KeysIInv
<1>3. /\ tx' \in [Callers -> Contexts] /\ \A d \in Callers \ {c} : tx'[d] = tx[d]
      /\ tx'[c].at = "awaitsType" /\ tx'[c].row = tx[c].row
      /\ tx'[c].base = tx[c].base /\ tx'[c].new = tx[c].new
  BY <1>1, <1>2, ContextMoves DEF States, InTransaction, AtWork
<1>4. io[c] = Missing
  BY <1>1 DEF KeysIInv, QueueMatches, InCacheCall, Reading
<1>5. /\ tx[c].base # Missing => tx[c].base \in latest[tx[c].row]
      /\ tx[c].new # Missing => tx[c].new \in {0} \cup {base + 1 : base \in latest[tx[c].row]}
  BY DEF KeysIInv, ContextsMatch
<1>6. QueueMatches' /\ ContextsMatch' /\ CacheMatches' /\ cacheQueue' \in Seq(Callers)
  BY <1>1, <1>3, <1>4, <1>5, OutsideCache DEF InCacheCall, Reading, AtWork
<1>7. TicketsMatch' /\ tickets' \in Seq(Tickets) /\ table' \in [MutexNames -> Nat]
  <2>1. tx[c].row \in Rows /\ tx[c].row \in MutexNames
    BY <1>2, ContextFields
  <2>. QED BY <1>1, <1>2, <1>3, <2>1, TicketsEntered DEF InTransaction, AtWork
<1>8. KeysTypes'
  BY <1>1, <1>2, <1>3, <1>6, <1>7 DEF KeysTypes
<1>. QED BY <1>6, <1>7, <1>8 DEF KeysIInv

LEMMA CallGetKeeps ==
  ASSUME KeysIInv, NEW c \in Callers, NEW r \in Rows, CallGet(c, r)
  PROVE  KeysIInv'
<1>1. /\ tx[c].at = "idle" /\ tx' = [tx EXCEPT ![c].at = "getting", ![c].row = r]
      /\ cacheQueue' = Append(cacheQueue, c)
      /\ UNCHANGED <<stored, cached, unsure, io, table, tickets, latest>>
  BY DEF CallGet, storeVars, mutexVars
<1>2. KeysTypes /\ TicketsMatch
  BY DEF KeysIInv
<1>3. /\ tx' \in [Callers -> Contexts] /\ \A d \in Callers \ {c} : tx'[d] = tx[d]
      /\ tx'[c].at = "getting" /\ tx'[c].base = Missing /\ tx'[c].new = Missing
  <2>1. [tx[c] EXCEPT !.at = "getting", !.row = r] \in Contexts
    BY <1>2, ContextFields DEF KeysTypes, Contexts, States, InCacheCall, Reading
  <2>2. tx[c].base = Missing /\ tx[c].new = Missing
    BY <1>1 DEF KeysIInv, ContextsMatch, AtWork
  <2>. QED BY <1>1, <1>2, <2>1, <2>2 DEF KeysTypes, Contexts
<1>4. io[c] = Missing
  BY <1>1 DEF KeysIInv, QueueMatches, InCacheCall, Reading
<1>5. QueueMatches' /\ ContextsMatch' /\ CacheMatches' /\ cacheQueue' \in Seq(Callers)
  BY <1>1, <1>3, <1>4, OutsideCache DEF InCacheCall, Reading, AtWork
<1>6. TicketsMatch'
  BY <1>1, <1>2, <1>3, TicketsKept DEF InTransaction, AtWork
<1>7. KeysTypes'
  BY <1>1, <1>2, <1>3, <1>5 DEF KeysTypes
<1>. QED BY <1>5, <1>6, <1>7 DEF KeysIInv

(* set() in a transaction: the new value is made from the one read. *)
LEMMA WorkWritesKeeps ==
  ASSUME KeysIInv, NEW c \in Callers,
         \/ DeletionCounts(c) /\ WorkWrites(c, 0)
         \/ tx[c].base # Missing /\ WorkWrites(c, tx[c].base + 1)
  PROVE  KeysIInv'
<1>0. PICK value \in Nat : /\ WorkWrites(c, value)
                           /\ value = 0 \/ (tx[c].base # Missing /\ value = tx[c].base + 1)
  <2>1. tx[c].base # Missing => tx[c].base + 1 \in Nat
    BY ContextFields DEF KeysIInv, Values
  <2>. QED BY <2>1
<1>1. /\ tx[c].at = "working" /\ tx' = [tx EXCEPT ![c].new = value]
      /\ value = 0 \/ (tx[c].base # Missing /\ value = tx[c].base + 1)
      /\ UNCHANGED <<stored, cached, unsure, cacheQueue, io, table, tickets, latest>>
  BY <1>0 DEF WorkWrites, storeVars, cacheVars, mutexVars
<1>2. KeysTypes /\ TicketsMatch
  BY DEF KeysIInv
<1>3. /\ tx' \in [Callers -> Contexts] /\ \A d \in Callers \ {c} : tx'[d] = tx[d]
      /\ tx'[c].at = "working" /\ tx'[c].row = tx[c].row
      /\ tx'[c].base = tx[c].base /\ tx'[c].new = value
  <2>0. tx[c] \in Contexts /\ value \in Values
    BY <1>2 DEF KeysTypes, Values
  <2>1. [tx[c] EXCEPT !.new = value] \in Contexts
    BY <2>0 DEF Contexts
  <2>. QED BY <1>1, <1>2, <2>1 DEF KeysTypes, Contexts
<1>4. io[c] = Missing
  BY <1>1 DEF KeysIInv, QueueMatches, InCacheCall, Reading
<1>5. /\ tx[c].base # Missing => tx[c].base \in latest[tx[c].row]
      /\ value \in {0} \cup {base + 1 : base \in latest[tx[c].row]}
  BY <1>1 DEF KeysIInv, ContextsMatch
<1>6. QueueMatches' /\ ContextsMatch' /\ CacheMatches' /\ cacheQueue' \in Seq(Callers)
  BY <1>1, <1>3, <1>4, <1>5, OutsideCache DEF InCacheCall, Reading, AtWork
<1>7. TicketsMatch'
  BY <1>1, <1>2, <1>3, TicketsKept DEF InTransaction, AtWork
<1>8. KeysTypes'
  BY <1>1, <1>2, <1>3, <1>6 DEF KeysTypes
<1>. QED BY <1>6, <1>7, <1>8 DEF KeysIInv

(* The work has thrown, or has nothing to commit. *)
LEMMA SettlesKeeps ==
  ASSUME KeysIInv, NEW c \in Callers, tx[c].at = "working", Settles(c),
         UNCHANGED <<stored, cached, unsure, cacheQueue, io, table, latest>>
  PROVE  KeysIInv'
<1>1. KeysTypes /\ TicketsMatch
  BY DEF KeysIInv
<1>2. /\ tx' \in [Callers -> Contexts] /\ \A d \in Callers \ {c} : tx'[d] = tx[d]
      /\ tx'[c].at = "settling" /\ tx'[c].base = Missing /\ tx'[c].new = Missing
  BY <1>1, SettledContext
<1>3. io[c] = Missing
  BY DEF KeysIInv, QueueMatches, InCacheCall, Reading
<1>4. QueueMatches' /\ ContextsMatch' /\ CacheMatches' /\ cacheQueue' \in Seq(Callers)
  BY <1>2, <1>3, OutsideCache DEF InCacheCall, Reading, AtWork
<1>5. TicketsMatch' /\ tickets' \in Seq(Tickets)
  BY <1>1, TicketsSettle DEF AtWork
<1>6. KeysTypes'
  BY <1>1, <1>2, <1>4, <1>5 DEF KeysTypes
<1>. QED BY <1>4, <1>5, <1>6 DEF KeysIInv

LEMMA WorkReturnsKeeps ==
  ASSUME KeysIInv, NEW c \in Callers, WorkReturns(c)
  PROVE  KeysIInv'
<1>1. CASE tx[c].new = Missing
  BY <1>1, SettlesKeeps DEF WorkReturns, storeVars
<1>2. CASE tx[c].new # Missing
  <2>1. /\ tx[c].at = "working" /\ Goes(c, "committing")
        /\ cacheQueue' = Append(cacheQueue, c)
        /\ UNCHANGED <<stored, cached, unsure, io, table, tickets, latest>>
    BY <1>2 DEF WorkReturns, storeVars
  <2>2. KeysTypes /\ TicketsMatch
    BY DEF KeysIInv
  <2>3. /\ tx' \in [Callers -> Contexts] /\ \A d \in Callers \ {c} : tx'[d] = tx[d]
        /\ tx'[c].at = "committing" /\ tx'[c].row = tx[c].row
        /\ tx'[c].base = tx[c].base /\ tx'[c].new = tx[c].new
    BY <2>1, <2>2, ContextMoves DEF States, InTransaction, AtWork
  <2>4. io[c] = Missing
    BY <2>1 DEF KeysIInv, QueueMatches, InCacheCall, Reading
  <2>5. /\ tx[c].base # Missing => tx[c].base \in latest[tx[c].row]
        /\ tx[c].new # Missing => tx[c].new \in {0} \cup {base + 1 : base \in latest[tx[c].row]}
    BY DEF KeysIInv, ContextsMatch
  <2>6. QueueMatches' /\ ContextsMatch' /\ CacheMatches' /\ cacheQueue' \in Seq(Callers)
    BY <1>2, <2>1, <2>3, <2>4, <2>5, OutsideCache DEF InCacheCall, Reading, AtWork
  <2>7. TicketsMatch'
    BY <2>1, <2>2, <2>3, TicketsKept DEF InTransaction, AtWork
  <2>8. KeysTypes'
    BY <2>1, <2>2, <2>3, <2>6 DEF KeysTypes
  <2>. QED BY <2>6, <2>7, <2>8 DEF KeysIInv
<1>. QED BY <1>1, <1>2

(* The last one out drops the mutex, of which no ticket is left. *)
LEMMA TransactionEndsKeeps ==
  ASSUME KeysIInv, NEW c \in Callers, TransactionEnds(c)
  PROVE  KeysIInv'
<1>1. /\ tx[c].at = "settling" /\ ReleaseRef(KeyOf[tx[c].row])
      /\ tx' = [tx EXCEPT ![c] = [Fresh EXCEPT !.at = "done"]]
      /\ UNCHANGED <<stored, cached, unsure, cacheQueue, io, tickets, latest>>
  BY DEF TransactionEnds, storeVars, cacheVars
<1>2. KeysTypes /\ TicketsMatch
  BY DEF KeysIInv
<1>3. /\ tx' \in [Callers -> Contexts] /\ \A d \in Callers \ {c} : tx'[d] = tx[d]
      /\ tx'[c].at = "done" /\ tx'[c].base = Missing /\ tx'[c].new = Missing
  <2>1. PICK t : t = [Fresh EXCEPT !.at = "done"]
    OBVIOUS
  <2>2. t \in Contexts /\ t.at = "done" /\ t.base = Missing /\ t.new = Missing
    <3>1. Fresh \in Contexts /\ Fresh.base = Missing /\ Fresh.new = Missing
      BY FreshType
    <3>. QED BY <2>1, <3>1 DEF Contexts, States
  <2>3. tx' = [tx EXCEPT ![c] = t] /\ tx \in [Callers -> Contexts]
    BY <1>1, <1>2, <2>1 DEF KeysTypes
  <2>. QED BY <2>2, <2>3
<1>4. io[c] = Missing
  BY <1>1 DEF KeysIInv, QueueMatches, InCacheCall, Reading
<1>5. QueueMatches' /\ ContextsMatch' /\ CacheMatches' /\ cacheQueue' \in Seq(Callers)
  BY <1>1, <1>3, <1>4, OutsideCache DEF InCacheCall, Reading, AtWork
<1>6. /\ table' \in [MutexNames -> Nat]
      /\ \A i \in DOMAIN tickets : table'[tickets[i].name] = table[tickets[i].name]
  <2>1. PICK name \in MutexNames : name = KeyOf[tx[c].row]
    BY <1>2, ContextFields
  <2>2. \A i \in DOMAIN tickets : tickets[i].name \in MutexNames
    <3>1. \A i \in DOMAIN tickets : tickets[i] \in Tickets
      BY <1>2 DEF KeysTypes
    <3>. QED BY <3>1 DEF Tickets
  <2>3. table' = table \/ (~Locked(name, table[name]) /\ table' = [table EXCEPT ![name] = 0])
    BY <1>1, <2>1 DEF ReleaseRef
  <2>4. ~Locked(name, table[name]) => \A i \in DOMAIN tickets : tickets[i].name # name
    BY <1>2 DEF TicketsMatch, Locked
  <2>5. table \in [MutexNames -> Nat]
    BY <1>2 DEF KeysTypes
  <2>. QED BY <2>2, <2>3, <2>4, <2>5
<1>7. TicketsMatch'
  <2>1. \A d, n : Holds(d, n) <=> Holds(d, n)'
    BY <1>1 DEF Holds
  <2>2. \A i \in DOMAIN tickets : tickets[i].by \in Callers
    <3>1. \A i \in DOMAIN tickets : tickets[i] \in Tickets
      BY <1>2 DEF KeysTypes
    <3>. QED BY <3>1 DEF Tickets
  <2>3. tx[c].at \notin InTransaction /\ tx'[c].at \notin InTransaction /\ tx'[c].at \notin AtWork
    BY <1>1, <1>3 DEF InTransaction, AtWork
  <2>. QED BY <1>1, <1>2, <1>3, <1>6, <2>1, <2>2, <2>3 DEF TicketsMatch
<1>8. KeysTypes'
  BY <1>1, <1>2, <1>3, <1>5, <1>6 DEF KeysTypes
<1>. QED BY <1>5, <1>7, <1>8 DEF KeysIInv

-----------------------------------------------------------------------------
(* Steps of the holder of the cache *)

(* Nobody else is between asking the store and its answer. *)
LEMMA CacheHolder ==
  ASSUME KeysIInv, NEW c \in Callers, tx[c].at \in InCacheCall, Head(cacheQueue) = c
  PROVE  /\ cacheQueue # <<>> /\ cacheQueue \in Seq(Callers)
         /\ \A d \in Callers \ {c} : io[d] = Missing
         /\ \A d \in Callers \ {c} : \A r : ~Sets(d, r)
BY DEF KeysIInv, QueueMatches, KeysTypes, Sets

(* The holder leaves. *)
LEMMA CacheLeft ==
  ASSUME KeysIInv, NEW c \in Callers, tx[c].at \in InCacheCall, Head(cacheQueue) = c, CacheDone(c),
         \A d \in Callers \ {c} : tx'[d] = tx[d], tx'[c].at \notin InCacheCall
  PROVE  /\ cacheQueue' \in Seq(Callers) /\ io' \in [Callers -> Values]
         /\ \A d \in Callers : io'[d] = Missing
         /\ \A d \in Callers : \A r : ~Sets(d, r)'
         /\ QueueMatches'
<1>1. /\ cacheQueue # <<>> /\ cacheQueue \in Seq(Callers)
      /\ \A d \in Callers \ {c} : io[d] = Missing
  BY CacheHolder
<1>2. /\ cacheQueue' \in Seq(Callers) /\ DOMAIN cacheQueue' = 1..(Len(cacheQueue) - 1)
      /\ \A i \in 1..(Len(cacheQueue) - 1) : cacheQueue'[i] = cacheQueue[i + 1]
      /\ cacheQueue[1] = c /\ DOMAIN cacheQueue = 1..Len(cacheQueue) /\ Len(cacheQueue) \in Nat
  BY <1>1 DEF CacheDone
<1>3. io' = [io EXCEPT ![c] = Missing] /\ io \in [Callers -> Values]
  BY DEF CacheDone, Asks, KeysIInv, KeysTypes
<1>4. io' \in [Callers -> Values] /\ \A d \in Callers : io'[d] = Missing
  BY <1>1, <1>3 DEF Values
<1>5. ASSUME NEW d \in Callers, tx'[d].at \in InCacheCall
      PROVE  \E i \in DOMAIN cacheQueue' : cacheQueue'[i] = d
  <2>1. d # c
    BY <1>5
  <2>2. PICK i \in DOMAIN cacheQueue : cacheQueue[i] = d
    BY <1>5, <2>1 DEF KeysIInv, QueueMatches
  <2>3. i - 1 \in DOMAIN cacheQueue' /\ cacheQueue'[i - 1] = d
    BY <1>2, <2>1, <2>2
  <2>. QED BY <2>3
<1>6. QueueMatches'
  BY <1>4, <1>5 DEF QueueMatches
<1>7. \A d \in Callers : \A r : ~Sets(d, r)'
  BY <1>4 DEF Sets
<1>. QED BY <1>2, <1>4, <1>6, <1>7

(* A transaction that goes on leaves another mutex than its key's. *)
LEMMA TicketsLeft ==
  ASSUME KeysTypes, TicketsMatch, NEW c \in Callers, tx[c].at \in AtWork, tx'[c].at \in AtWork,
         tx'[c].row = tx[c].row, \A d \in Callers \ {c} : tx'[d] = tx[d],
         Leave(c, tx[c].row), UNCHANGED table
  PROVE  TicketsMatch' /\ tickets' \in Seq(Tickets)
<1>1. PICK row \in Rows : row = tx[c].row
  BY ContextFields
<1>2. row \in MutexNames
  BY NamesAreMutexes
<1>3. /\ tickets' \in Seq(Tickets)
      /\ \A i \in DOMAIN tickets' : \E j \in DOMAIN tickets : tickets'[i] = tickets[j]
      /\ \A d, n : HasTicket(d, n) /\ ~(d = c /\ n = row) => HasTicket(d, n)'
      /\ \A d, n : Holds(d, n) => Holds(d, n)'
  BY <1>1, <1>2, LeaveKeeps
<1>4. \A i \in DOMAIN tickets' : tickets'[i].by \in Callers
  <2>1. \A i \in DOMAIN tickets' : tickets'[i] \in Tickets
    BY <1>3
  <2>. QED BY <2>1 DEF Tickets
<1>5. \A i \in DOMAIN tickets' :
        /\ tickets'[i].gen = table'[tickets'[i].name] /\ table'[tickets'[i].name] # 0
        /\ tickets'[i].name \notin Rows =>
             /\ tx'[tickets'[i].by].at \in InTransaction
             /\ tickets'[i].name = KeyOf[tx'[tickets'[i].by].row]
  BY <1>3, <1>4 DEF TicketsMatch, InTransaction
<1>6. ASSUME NEW d \in Callers, tx'[d].at \in InTransaction
      PROVE  /\ \E i \in DOMAIN tickets' : tickets'[i].by = d /\ tickets'[i].name = KeyOf[tx'[d].row]
             /\ tx'[d].at \in AtWork => Holds(d, KeyOf[tx[d].row])'
  <2>1. /\ tx[d].at \in InTransaction /\ tx'[d].row = tx[d].row
        /\ tx'[d].at \in AtWork => tx[d].at \in AtWork
    BY <1>6 DEF InTransaction
  <2>2. PICK n : n = KeyOf[tx[d].row] /\ n = KeyOf[tx'[d].row] /\ n \notin Rows
    BY <2>1, ContextFields
  <2>3. HasTicket(d, n)'
    <3>1. HasTicket(d, n)
      BY <2>1, <2>2 DEF TicketsMatch, HasTicket
    <3>. QED BY <1>3, <2>2, <3>1
  <2>4. tx'[d].at \in AtWork => Holds(d, n)'
    <3>1. tx'[d].at \in AtWork => Holds(d, n)
      BY <2>1, <2>2 DEF TicketsMatch
    <3>. QED BY <1>3, <3>1
  <2>5. tx'[d].at \in AtWork => Holds(d, KeyOf[tx[d].row])'
    BY <2>2, <2>4 DEF Holds
  <2>. QED BY <2>2, <2>3, <2>5 DEF HasTicket
<1>7. \A d \in Callers : tx'[d].at \in AtWork => tx'[d].at \in InTransaction
  BY DEF InTransaction
<1>. QED BY <1>3, <1>5, <1>6, <1>7 DEF TicketsMatch

(* get() answers with a value that a reader may find. *)
LEMMA AnswerKeeps ==
  ASSUME KeysIInv, NEW c \in Callers, tx[c].at \in Reading, Head(cacheQueue) = c,
         NEW value \in Nat, value \in latest[tx[c].row], Answer(c, value),
         cached' \in [Rows -> Values],
         \A r \in Rows : \/ cached'[r] = cached[r]
                         \/ cached'[r] \in latest[r] /\ (r \in unsure \/ cached'[r] = stored[r])
  PROVE  KeysIInv'
<1>1. /\ CacheDone(c) /\ UNCHANGED <<stored, unsure, table, latest>>
      /\ IF tx[c].at = "reading"
         THEN Leave(c, tx[c].row) /\ tx' = [tx EXCEPT ![c].at = "working", ![c].base = value]
         ELSE UNCHANGED tickets /\ Goes(c, "done")
  BY DEF Answer, ReadMutex
<1>2. KeysTypes /\ TicketsMatch
  BY DEF KeysIInv
<1>3. /\ tx' \in [Callers -> Contexts] /\ \A d \in Callers \ {c} : tx'[d] = tx[d]
      /\ tx'[c].row = tx[c].row /\ tx'[c].new = tx[c].new
      /\ IF tx[c].at = "reading" THEN tx'[c].at = "working" /\ tx'[c].base = value
                                 ELSE tx'[c].at = "done" /\ tx'[c].base = tx[c].base
  <2>1. CASE tx[c].at = "reading"
    <3>1. PICK t : t = [tx[c] EXCEPT !.at = "working", !.base = value]
      OBVIOUS
    <3>2. /\ t \in Contexts /\ t.at = "working" /\ t.base = value
          /\ t.row = tx[c].row /\ t.new = tx[c].new
      <4>1. "working" \in States /\ value \in Values
        BY DEF States, InTransaction, AtWork, Values
      <4>2. tx[c] \in Contexts
        BY <1>2 DEF KeysTypes
      <4>. QED BY <3>1, <4>1, <4>2 DEF Contexts
    <3>3. tx' = [tx EXCEPT ![c] = t] /\ tx \in [Callers -> Contexts]
      BY <1>1, <1>2, <2>1, <3>1 DEF KeysTypes
    <3>. QED BY <2>1, <3>2, <3>3
  <2>2. CASE tx[c].at # "reading"
    BY <1>1, <1>2, <2>2, ContextMoves DEF States
  <2>. QED BY <2>1, <2>2
<1>4. /\ cacheQueue' \in Seq(Callers) /\ io' \in [Callers -> Values]
      /\ \A d \in Callers : io'[d] = Missing
      /\ \A d \in Callers : \A r : ~Sets(d, r)'
      /\ QueueMatches'
  BY <1>1, <1>3, CacheLeft DEF InCacheCall, Reading
<1>5. \A d \in Callers : \A r : ~Sets(d, r)
  BY CacheHolder DEF Sets, Reading, InCacheCall
<1>6. TicketsMatch' /\ tickets' \in Seq(Tickets)
  <2>1. CASE tx[c].at = "reading"
    BY <1>1, <1>2, <1>3, <2>1, TicketsLeft DEF AtWork
  <2>2. CASE tx[c].at # "reading"
    <3>1. tx[c].at \notin InTransaction /\ tx'[c].at \notin InTransaction /\ tx'[c].at \notin AtWork
      BY <1>3, <2>2 DEF InTransaction, AtWork, Reading
    <3>2. TicketsMatch'
      BY <1>1, <1>2, <1>3, <2>2, <3>1, TicketsKept
    <3>. QED BY <1>1, <1>2, <2>2, <3>2 DEF KeysTypes
  <2>. QED BY <2>1, <2>2
<1>7. ContextsMatch'
  BY <1>1, <1>3, <1>4 DEF KeysIInv, ContextsMatch, AtWork, Reading
<1>8. CacheMatches'
  BY <1>1, <1>4, <1>5 DEF KeysIInv, CacheMatches
<1>9. KeysTypes'
  BY <1>1, <1>2, <1>3, <1>4, <1>6 DEF KeysTypes
<1>. QED BY <1>4, <1>6, <1>7, <1>8, <1>9 DEF KeysIInv

LEMMA CacheHitsKeeps ==
  ASSUME KeysIInv, NEW c \in Callers, CacheHits(c)
  PROVE  KeysIInv'
<1>1. PICK r \in Rows : r = tx[c].row
  BY ContextFields DEF KeysIInv
<1>2. /\ tx[c].at \in Reading /\ Head(cacheQueue) = c /\ cached[r] # Missing
      /\ Answer(c, cached[r]) /\ cached' = cached
  BY <1>1 DEF CacheHits, CacheTurn
<1>3. \A d \in Callers : \A q : ~Sets(d, q)
  BY <1>2, CacheHolder DEF Sets, Reading, InCacheCall
<1>4. cached[r] \in latest[r]
  BY <1>2, <1>3 DEF KeysIInv, CacheMatches
<1>5. cached \in [Rows -> Values] /\ cached[r] \in Nat
  BY <1>2 DEF KeysIInv, KeysTypes, Values
<1>6. PICK value \in Nat : value = cached[r]
  BY <1>5
<1>. QED BY <1>1, <1>2, <1>4, <1>5, <1>6, AnswerKeeps

LEMMA CacheFillsKeeps ==
  ASSUME KeysIInv, NEW c \in Callers, CacheFills(c)
  PROVE  KeysIInv'
<1>1. PICK r \in Rows : r = tx[c].row
  BY ContextFields DEF KeysIInv
<1>2. PICK value : value = io[c]
  OBVIOUS
<1>3. /\ tx[c].at \in Reading /\ Head(cacheQueue) = c /\ value # Missing
      /\ Answer(c, value)
      /\ cached' = IF value = 0 THEN cached ELSE [cached EXCEPT ![r] = value]
  BY <1>1, <1>2 DEF CacheFills, CacheTurn
<1>4. value \in latest[r] /\ (r \in unsure \/ value = stored[r])
  BY <1>1, <1>2, <1>3 DEF KeysIInv, ContextsMatch
<1>5. value \in Nat /\ value \in Values /\ cached \in [Rows -> Values]
  BY <1>2, <1>3 DEF KeysIInv, KeysTypes, Values
<1>6. /\ cached' \in [Rows -> Values]
      /\ \A q \in Rows : cached'[q] = cached[q] \/ (q = r /\ cached'[q] = value)
  BY <1>3, <1>5
<1>. QED BY <1>1, <1>3, <1>4, <1>5, <1>6, AnswerKeeps

LEMMA CacheMissesKeeps ==
  ASSUME KeysIInv, NEW c \in Callers, CacheMisses(c)
  PROVE  KeysIInv'
<1>1. /\ tx[c].at \in Reading /\ Head(cacheQueue) = c
      /\ io' = [io EXCEPT ![c] = stored[tx[c].row]]
      /\ UNCHANGED <<stored, cached, unsure, cacheQueue, table, tickets, tx, latest>>
  BY DEF CacheMisses, CacheTurn, Asks, storeVars, mutexVars
<1>2. KeysTypes /\ TicketsMatch
  BY DEF KeysIInv
<1>3. tx[c].row \in Rows
  BY <1>2, ContextFields
<1>4. stored[tx[c].row] \in latest[tx[c].row] /\ stored[tx[c].row] \in Values
  BY <1>2, <1>3 DEF KeysIInv, CacheMatches, KeysTypes, Values
<1>5. /\ io' \in [Callers -> Values] /\ io'[c] = stored[tx[c].row]
      /\ \A d \in Callers \ {c} : io'[d] = io[d]
  BY <1>1, <1>2, <1>4 DEF KeysTypes
<1>6. QueueMatches'
  BY <1>1, <1>5 DEF KeysIInv, QueueMatches, InCacheCall
<1>7. ContextsMatch'
  BY <1>1, <1>4, <1>5 DEF KeysIInv, ContextsMatch
<1>8. \A d \in Callers : \A r : Sets(d, r)' <=> Sets(d, r)
  BY <1>1, <1>5 DEF Sets, Reading
<1>9. CacheMatches'
  BY <1>1, <1>8 DEF KeysIInv, CacheMatches
<1>10. TicketsMatch'
  BY <1>1, <1>2, TicketsKept
<1>11. KeysTypes'
  BY <1>1, <1>2, <1>5 DEF KeysTypes
<1>. QED BY <1>6, <1>7, <1>9, <1>10, <1>11 DEF KeysIInv

LEMMA CacheSetsKeeps ==
  ASSUME KeysIInv, NEW c \in Callers, CacheSets(c)
  PROVE  KeysIInv'
<1>1. /\ tx[c].at = "committing" /\ Head(cacheQueue) = c
      /\ cached' = [cached EXCEPT ![tx[c].row] = tx[c].new]
      /\ io' = [io EXCEPT ![c] = tx[c].new]
      /\ UNCHANGED <<stored, unsure, cacheQueue, table, tickets, tx, latest>>
  BY DEF CacheSets, CacheTurn, Asks, mutexVars
<1>2. KeysTypes /\ TicketsMatch
  BY DEF KeysIInv
<1>3. tx[c].row \in Rows /\ tx[c].new \in Values /\ tx[c].new # Missing
  BY <1>1, <1>2, ContextFields DEF KeysIInv, ContextsMatch
<1>4. /\ io' \in [Callers -> Values] /\ io'[c] = tx[c].new
      /\ \A d \in Callers \ {c} : io'[d] = io[d] /\ io[d] = Missing
      /\ cached' \in [Rows -> Values] /\ cached'[tx[c].row] = tx[c].new
      /\ \A r \in Rows \ {tx[c].row} : cached'[r] = cached[r]
  BY <1>1, <1>2, <1>3, CacheHolder DEF KeysTypes, InCacheCall
<1>5. QueueMatches'
  BY <1>1, <1>4 DEF KeysIInv, QueueMatches, InCacheCall
<1>6. ContextsMatch'
  BY <1>1, <1>4 DEF KeysIInv, ContextsMatch, Reading
<1>7. \A d \in Callers : \A r : Sets(d, r)' <=> (d = c /\ r = tx[c].row)
  BY <1>1, <1>3, <1>4 DEF Sets
<1>8. \A d \in Callers : \A r : Sets(d, r) => d = c /\ r = tx[c].row
  BY <1>4 DEF Sets
<1>9. CacheMatches'
  BY <1>1, <1>4, <1>7, <1>8 DEF KeysIInv, CacheMatches
<1>10. TicketsMatch'
  BY <1>1, <1>2, TicketsKept
<1>11. KeysTypes'
  BY <1>1, <1>2, <1>4 DEF KeysTypes
<1>. QED BY <1>5, <1>6, <1>9, <1>10, <1>11 DEF KeysIInv

-----------------------------------------------------------------------------
(* The store answers a set(), entries expire, the store is cleared *)

(* The transaction is committed.  Whoever else goes on with the row would  *)
(* hold the mutex of the same key.                                         *)
LEMMA StoreSetsKeeps ==
  ASSUME KeysIInv, NEW c \in Callers, StoreSets(c)
  PROVE  KeysIInv'
<1>1. PICK r \in Rows, v \in Values : r = tx[c].row /\ v = tx[c].new
  BY ContextFields DEF KeysIInv
<1>2. /\ tx[c].at = "committing" /\ Head(cacheQueue) = c /\ io[c] # Missing
      /\ stored' = [stored EXCEPT ![r] = v]
      /\ unsure' = unsure \ {r}
      /\ latest' = [latest EXCEPT ![r] = {v}]
      /\ CacheDone(c) /\ Settles(c)
      /\ UNCHANGED <<cached, table, refs>>
  BY <1>1 DEF StoreSets, CacheTurn
<1>3. KeysTypes /\ TicketsMatch /\ v \in Nat
  BY <1>1, <1>2 DEF KeysIInv, ContextsMatch, Values
<1>4. /\ tx' \in [Callers -> Contexts] /\ \A d \in Callers \ {c} : tx'[d] = tx[d]
      /\ tx'[c].at = "settling" /\ tx'[c].base = Missing /\ tx'[c].new = Missing
  BY <1>2, <1>3, SettledContext
<1>5. /\ cacheQueue' \in Seq(Callers) /\ io' \in [Callers -> Values]
      /\ \A d \in Callers : io'[d] = Missing
      /\ \A d \in Callers : \A q : ~Sets(d, q)'
      /\ QueueMatches'
  BY <1>2, <1>4, CacheLeft DEF InCacheCall, Reading
<1>6. TicketsMatch' /\ tickets' \in Seq(Tickets)
  BY <1>2, <1>3, TicketsSettle DEF AtWork
<1>7. /\ stored' \in [Rows -> Nat] /\ stored'[r] = v /\ \A q \in Rows \ {r} : stored'[q] = stored[q]
      /\ latest' \in [Rows -> SUBSET Nat] /\ latest'[r] = {v}
      /\ \A q \in Rows \ {r} : latest'[q] = latest[q]
  BY <1>2, <1>3 DEF KeysTypes
<1>8. ASSUME NEW d \in Callers, d # c, tx[d].row = r
      PROVE  tx[d].base = Missing /\ tx[d].new = Missing
  <2>1. tx[d].at \notin AtWork
    BY <1>1, <1>2, <1>3, <1>8, MutualExclusion DEF AtWork
  <2>. QED BY <2>1 DEF KeysIInv, ContextsMatch
<1>9. ContextsMatch'
  <2>1. \A d \in Callers \ {c} : tx[d].row \in Rows
    BY <1>3, ContextFields
  <2>. QED BY <1>4, <1>5, <1>7, <1>8, <2>1 DEF KeysIInv, ContextsMatch, AtWork, Reading
<1>10. CacheMatches'
  <2>1. cached[r] \in {Missing, v}
    BY <1>1, <1>2 DEF KeysIInv, CacheMatches, Sets
  <2>2. \A d \in Callers, q \in Rows \ {r} : ~Sets(d, q)
    BY <1>1, <1>2, CacheHolder DEF InCacheCall, Sets
  <2>. QED BY <1>2, <1>5, <1>7, <2>1, <2>2 DEF KeysIInv, CacheMatches
<1>11. KeysTypes'
  BY <1>2, <1>3, <1>4, <1>5, <1>6, <1>7 DEF KeysTypes
<1>. QED BY <1>5, <1>6, <1>9, <1>10, <1>11 DEF KeysIInv

(* It has failed: the row may have either value. *)
LEMMA StoreFailsKeeps ==
  ASSUME KeysIInv, NEW c \in Callers, StoreFails(c)
  PROVE  KeysIInv'
<1>1. PICK r \in Rows, v \in Values : r = tx[c].row /\ v = tx[c].new
  BY ContextFields DEF KeysIInv
<1>2. /\ tx[c].at = "committing" /\ Head(cacheQueue) = c /\ io[c] # Missing
      /\ stored' \in {stored, [stored EXCEPT ![r] = v]}
      /\ unsure' = unsure \cup {r}
      /\ latest' = [latest EXCEPT ![r] = @ \cup {v}]
      /\ CacheDone(c)
      /\ \/ Settles(c)
         \/ /\ UNCHANGED tickets
            /\ tx' = [tx EXCEPT ![c].tries = @ + 1, ![c].at = "retrying"]
      /\ UNCHANGED <<cached, table, refs>>
  BY <1>1 DEF StoreFails, CacheTurn
<1>3. KeysTypes /\ TicketsMatch /\ v \in Nat
  BY <1>1, <1>2 DEF KeysIInv, ContextsMatch, Values
<1>4. /\ tx' \in [Callers -> Contexts] /\ \A d \in Callers \ {c} : tx'[d] = tx[d]
      /\ \/ tx'[c].at = "settling" /\ tx'[c].base = Missing /\ tx'[c].new = Missing
         \/ /\ tx'[c].at = "retrying" /\ tx'[c].base = tx[c].base /\ tx'[c].new = tx[c].new
            /\ tx'[c].row = tx[c].row
  <2>1. CASE Settles(c)
    BY <1>3, <2>1, SettledContext
  <2>2. CASE ~Settles(c)
    <3>1. PICK t : t = [tx[c] EXCEPT !.tries = @ + 1, !.at = "retrying"]
      OBVIOUS
    <3>2. /\ t \in Contexts /\ t.at = "retrying" /\ t.base = tx[c].base
          /\ t.row = tx[c].row /\ t.new = tx[c].new
      <4>1. "retrying" \in States /\ tx[c].tries + 1 \in Int
        BY <1>3, ContextFields DEF States, InTransaction, AtWork
      <4>2. tx[c] \in Contexts
        BY <1>3 DEF KeysTypes
      <4>. QED BY <3>1, <4>1, <4>2 DEF Contexts
    <3>3. tx' = [tx EXCEPT ![c] = t] /\ tx \in [Callers -> Contexts]
      BY <1>2, <1>3, <2>2, <3>1 DEF KeysTypes
    <3>. QED BY <3>2, <3>3
  <2>. QED BY <2>1, <2>2
<1>5. /\ cacheQueue' \in Seq(Callers) /\ io' \in [Callers -> Values]
      /\ \A d \in Callers : io'[d] = Missing
      /\ \A d \in Callers : \A q : ~Sets(d, q)'
      /\ QueueMatches'
  BY <1>2, <1>4, CacheLeft DEF InCacheCall, Reading
<1>6. TicketsMatch' /\ tickets' \in Seq(Tickets)
  <2>1. CASE Settles(c)
    BY <1>2, <1>3, <2>1, TicketsSettle DEF AtWork
  <2>2. CASE ~Settles(c)
    <3>1. tx'[c].at = "retrying" /\ tx'[c].row = tx[c].row
      <4>1. tx' = [tx EXCEPT ![c].tries = @ + 1, ![c].at = "retrying"]
        BY <1>2, <2>2
      <4>2. tx \in [Callers -> Contexts] /\ tx[c] \in Contexts
        BY <1>3 DEF KeysTypes
      <4>. QED BY <4>1, <4>2 DEF Contexts
    <3>2. TicketsMatch'
      BY <1>2, <1>3, <1>4, <2>2, <3>1, TicketsKept DEF InTransaction, AtWork
    <3>. QED BY <1>2, <1>3, <2>2, <3>2 DEF KeysTypes
  <2>. QED BY <2>1, <2>2
<1>7. /\ stored' \in [Rows -> Nat] /\ stored'[r] \in {stored[r], v}
      /\ \A q \in Rows \ {r} : stored'[q] = stored[q]
      /\ latest' \in [Rows -> SUBSET Nat] /\ latest'[r] = latest[r] \cup {v}
      /\ \A q \in Rows \ {r} : latest'[q] = latest[q]
  <2>1. /\ stored' \in {stored, [stored EXCEPT ![r] = v]} /\ v \in Nat
        /\ latest' = [latest EXCEPT ![r] = @ \cup {v}]
    BY <1>2, <1>3
  <2>2. stored \in [Rows -> Nat] /\ latest \in [Rows -> SUBSET Nat]
    BY <1>3 DEF KeysTypes
  <2>3. /\ stored' \in [Rows -> Nat] /\ stored'[r] \in {stored[r], v}
        /\ \A q \in Rows \ {r} : stored'[q] = stored[q]
    BY <2>1, <2>2
  <2>4. /\ latest' \in [Rows -> SUBSET Nat] /\ latest'[r] = latest[r] \cup {v}
        /\ \A q \in Rows \ {r} : latest'[q] = latest[q]
    BY <2>1, <2>2
  <2>. QED BY <2>3, <2>4
<1>8. \A d \in Callers : tx[d].row \in Rows /\ latest[tx[d].row] \subseteq latest'[tx[d].row]
  BY <1>3, <1>7, ContextFields
<1>9. ContextsMatch'
  <2>1. ASSUME NEW d \in Callers
        PROVE  /\ tx'[d].at \notin AtWork => tx'[d].base = Missing /\ tx'[d].new = Missing
               /\ tx'[d].at \in {"committing", "retrying"} => tx'[d].new # Missing
               /\ tx'[d].base # Missing => tx'[d].base = tx[d].base /\ tx'[d].row = tx[d].row
               /\ tx'[d].new # Missing => tx'[d].new = tx[d].new /\ tx'[d].row = tx[d].row
    BY <1>2, <1>4 DEF KeysIInv, ContextsMatch, AtWork
  <2>2. \A d \in Callers :
          /\ tx[d].base # Missing => tx[d].base \in latest'[tx[d].row]
          /\ tx[d].new # Missing => tx[d].new \in {0} \cup {base + 1 : base \in latest'[tx[d].row]}
    BY <1>8 DEF KeysIInv, ContextsMatch
  <2>. QED BY <1>5, <2>1, <2>2 DEF ContextsMatch
<1>10. CacheMatches'
  <2>1. cached[r] \in {Missing, v}
    BY <1>1, <1>2 DEF KeysIInv, CacheMatches, Sets
  <2>2. \A d \in Callers, q \in Rows \ {r} : ~Sets(d, q)
    BY <1>1, <1>2, CacheHolder DEF InCacheCall, Sets
  <2>. QED BY <1>2, <1>5, <1>7, <2>1, <2>2 DEF KeysIInv, CacheMatches
<1>11. KeysTypes'
  BY <1>2, <1>3, <1>4, <1>5, <1>6, <1>7 DEF KeysTypes
<1>. QED BY <1>5, <1>6, <1>9, <1>10, <1>11 DEF KeysIInv

LEMMA CacheExpiresKeeps ==
  ASSUME KeysIInv, NEW r \in Rows, CacheExpires(r)
  PROVE  KeysIInv'
<1>1. /\ cached' = [cached EXCEPT ![r] = Missing]
      /\ UNCHANGED <<stored, unsure, cacheQueue, io, table, tickets, tx, latest>>
  BY DEF CacheExpires, cacheVars, mutexVars
<1>2. KeysTypes /\ TicketsMatch
  BY DEF KeysIInv
<1>3. cached' \in [Rows -> Values] /\ \A q \in Rows : cached'[q] \in {cached[q], Missing}
  BY <1>1, <1>2 DEF KeysTypes, Values
<1>4. QueueMatches' /\ ContextsMatch' /\ CacheMatches'
  BY <1>1, <1>3 DEF KeysIInv, QueueMatches, ContextsMatch, CacheMatches, Sets
<1>5. TicketsMatch'
  BY <1>1, <1>2, TicketsKept
<1>6. KeysTypes'
  BY <1>1, <1>2, <1>3 DEF KeysTypes
<1>. QED BY <1>4, <1>5, <1>6 DEF KeysIInv

LEMMA CallClearKeeps ==
  ASSUME KeysIInv, NEW c \in Callers, CallClear(c)
  PROVE  KeysIInv'
<1>1. /\ tx[c].at = "idle" /\ Goes(c, "clearing")
      /\ cached' = [r \in Rows |-> Missing]
      /\ unsure' = unsure \cup InCache
      /\ UNCHANGED <<stored, cacheQueue, io, table, tickets, latest>>
  BY DEF CallClear, cacheVars, mutexVars
<1>2. KeysTypes /\ TicketsMatch
  BY DEF KeysIInv
<1>3. /\ tx' \in [Callers -> Contexts] /\ \A d \in Callers \ {c} : tx'[d] = tx[d]
      /\ tx'[c].at = "clearing" /\ tx'[c].row = tx[c].row
      /\ tx'[c].base = tx[c].base /\ tx'[c].new = tx[c].new
  BY <1>1, <1>2, ContextMoves DEF States
<1>4. io[c] = Missing /\ tx[c].base = Missing /\ tx[c].new = Missing
  BY <1>1 DEF KeysIInv, QueueMatches, ContextsMatch, InCacheCall, Reading, AtWork
<1>5. cached' \in [Rows -> Values] /\ \A r \in Rows : cached'[r] = Missing
  BY <1>1 DEF Values
<1>6. unsure \subseteq unsure' /\ unsure' \subseteq Rows
  <2>1. \A d \in Callers : tx[d].row \in Rows
    BY <1>2, ContextFields
  <2>. QED BY <1>1, <1>2, <2>1 DEF InCache, KeysTypes
<1>7. QueueMatches' /\ ContextsMatch'
  BY <1>1, <1>3, <1>4, <1>6 DEF KeysIInv, QueueMatches, ContextsMatch, InCacheCall, Reading, AtWork
<1>8. CacheMatches'
  BY <1>1, <1>5 DEF KeysIInv, CacheMatches
<1>9. TicketsMatch'
  BY <1>1, <1>2, <1>3, TicketsKept DEF InTransaction, AtWork
<1>10. KeysTypes'
  BY <1>1, <1>2, <1>3, <1>5, <1>6 DEF KeysTypes
<1>. QED BY <1>7, <1>8, <1>9, <1>10 DEF KeysIInv

LEMMA StoreClearsKeeps ==
  ASSUME KeysIInv, NEW c \in Callers, StoreClears(c)
  PROVE  KeysIInv'
<1>1. /\ tx[c].at = "clearing" /\ Goes(c, "done")
      /\ stored' = [r \in Rows |-> 0]
      /\ latest' = [r \in Rows |-> latest[r] \cup {0}]
      /\ unsure' = unsure \cup {r \in Rows : cached[r] # Missing} \cup InCache
      /\ UNCHANGED <<cached, cacheQueue, io, table, tickets>>
  BY DEF StoreClears, cacheVars, mutexVars
<1>2. KeysTypes /\ TicketsMatch
  BY DEF KeysIInv
<1>3. /\ tx' \in [Callers -> Contexts] /\ \A d \in Callers \ {c} : tx'[d] = tx[d]
      /\ tx'[c].at = "done" /\ tx'[c].row = tx[c].row
      /\ tx'[c].base = tx[c].base /\ tx'[c].new = tx[c].new
  BY <1>1, <1>2, ContextMoves DEF States
<1>4. io[c] = Missing /\ tx[c].base = Missing /\ tx[c].new = Missing
  BY <1>1 DEF KeysIInv, QueueMatches, ContextsMatch, InCacheCall, Reading, AtWork
<1>5. /\ stored' \in [Rows -> Nat] /\ latest' \in [Rows -> SUBSET Nat]
      /\ \A r \in Rows : stored'[r] = 0 /\ latest'[r] = latest[r] \cup {0}
  BY <1>1, <1>2 DEF KeysTypes
<1>6. \A d \in Callers : tx[d].row \in Rows /\ latest[tx[d].row] \subseteq latest'[tx[d].row]
  BY <1>2, <1>5, ContextFields
<1>7. /\ unsure' \subseteq Rows
      /\ \A r \in Rows : cached[r] # Missing => r \in unsure'
      /\ \A d \in Callers : io[d] # Missing => tx[d].row \in unsure'
  BY <1>1, <1>2, <1>6 DEF InCache, KeysTypes
<1>8. QueueMatches'
  BY <1>1, <1>3, <1>4 DEF KeysIInv, QueueMatches, InCacheCall, Reading
<1>9. ContextsMatch'
  BY <1>1, <1>3, <1>4, <1>6, <1>7 DEF KeysIInv, ContextsMatch, AtWork, Reading
<1>10. CacheMatches'
  <2>1. \A d \in Callers : \A r : Sets(d, r)' <=> Sets(d, r)
    BY <1>1, <1>3, <1>4 DEF Sets
  <2>2. \A d \in Callers : \A r : Sets(d, r) => tx'[d] = tx[d]
    BY <1>3, <1>4 DEF Sets
  <2>. QED BY <1>1, <1>5, <1>7, <2>1, <2>2 DEF KeysIInv, CacheMatches
<1>11. TicketsMatch'
  BY <1>1, <1>2, <1>3, TicketsKept DEF InTransaction, AtWork
<1>12. KeysTypes'
  BY <1>1, <1>2, <1>3, <1>5, <1>7 DEF KeysTypes
<1>. QED BY <1>8, <1>9, <1>10, <1>11, <1>12 DEF KeysIInv

-----------------------------------------------------------------------------
LEMMA InitKeysIInv == KeysInit => KeysIInv
<1>. SUFFICES ASSUME KeysInit PROVE KeysIInv
  OBVIOUS
<1>1. \A c \in Callers : tx[c] = Fresh
  BY DEF KeysInit
<1>2. KeysTypes
  <2>1. tx \in [Callers -> Contexts]
    BY FreshType DEF KeysInit
  <2>2. cacheQueue \in Seq(Callers) /\ tickets \in Seq(Tickets)
    BY DEF KeysInit
  <2>. QED BY <2>1, <2>2 DEF KeysInit, KeysTypes, Values
<1>3. TicketsMatch /\ QueueMatches /\ ContextsMatch
  BY <1>1, FreshType DEF KeysInit, TicketsMatch, QueueMatches, ContextsMatch, InTransaction, AtWork,
                         InCacheCall, Reading
<1>4. CacheMatches
  BY <1>1, FreshType DEF KeysInit, CacheMatches, Sets
<1>. QED BY <1>2, <1>3, <1>4 DEF KeysIInv

LEMMA NextKeysIInv ==
  ASSUME KeysIInv, KeysNext
  PROVE  KeysIInv'
<1>1. ASSUME NEW c \in Callers, KeysStep(c) PROVE KeysIInv'
  <2>1. CASE \/ DeletionCounts(c) /\ WorkWrites(c, 0)
             \/ tx[c].base # Missing /\ WorkWrites(c, tx[c].base + 1)
    BY <2>1, WorkWritesKeeps
  <2>2. CASE WorkThrows(c)
    BY <2>2, SettlesKeeps DEF WorkThrows, storeVars, cacheVars
  <2>3. CASE TransactionStarts(c) \/ CallRead(c) \/ ReadStarts(c) \/ WorkReturns(c)
    BY <2>3, TransactionStartsKeeps, CallReadKeeps, ReadStartsKeeps, WorkReturnsKeeps
  <2>4. CASE RetryStarts(c) \/ TransactionEnds(c)
    BY <2>4, RetryStartsKeeps, TransactionEndsKeeps
  <2>5. CASE CacheHits(c) \/ CacheMisses(c) \/ CacheFills(c) \/ CacheSets(c)
    BY <2>5, CacheHitsKeeps, CacheMissesKeeps, CacheFillsKeeps, CacheSetsKeeps
  <2>6. CASE StoreSets(c) \/ StoreFails(c) \/ StoreClears(c)
    BY <2>6, StoreSetsKeeps, StoreFailsKeeps, StoreClearsKeeps
  <2>. QED BY <1>1, <2>1, <2>2, <2>3, <2>4, <2>5, <2>6 DEF KeysStep
<1>2. ASSUME NEW c \in Callers, NEW r \in Rows, CallTransaction(c, r) \/ CallGet(c, r) PROVE KeysIInv'
  BY <1>2, CallTransactionKeeps, CallGetKeeps
<1>3. ASSUME NEW c \in Callers, CallClear(c) PROVE KeysIInv'
  BY <1>3, CallClearKeeps
<1>4. ASSUME NEW r \in Rows, CacheExpires(r) PROVE KeysIInv'
  BY <1>4, CacheExpiresKeeps
<1>. QED BY <1>1, <1>2, <1>3, <1>4 DEF KeysNext

LEMMA StutterKeysIInv ==
  ASSUME KeysIInv, UNCHANGED keyVars
  PROVE  KeysIInv'
<1>1. UNCHANGED <<stored, cached, cacheQueue, io, table, tickets, tx, unsure, latest>>
  BY DEF keyVars
<1>2. TicketsMatch'
  BY <1>1, TicketsKept DEF KeysIInv
<1>3. QueueMatches' /\ ContextsMatch' /\ CacheMatches' /\ KeysTypes'
  BY <1>1 DEF KeysIInv, QueueMatches, ContextsMatch, CacheMatches, Sets, KeysTypes
<1>. QED BY <1>2, <1>3 DEF KeysIInv

(* What every reachable state of the key utilities satisfies. *)
THEOREM KeysInvariance == KeysSpec => []KeysIInv
<1>1. KeysIInv /\ [KeysNext]_keyVars => KeysIInv'
  BY NextKeysIInv, StutterKeysIInv
<1>. QED BY InitKeysIInv, <1>1, PTL DEF KeysSpec

(* At most one transaction of a key is between the start of its work and   *)
(* its end (getTxMutex).                                                   *)
THEOREM TransactionsExclude ==
  KeysSpec => [](\A c, d \in Callers :
                   /\ tx[c].at \in AtWork /\ tx[d].at \in AtWork
                   /\ KeyOf[tx[c].row] = KeyOf[tx[d].row]
                   => c = d)
<1>1. KeysIInv => \A c, d \in Callers :
                /\ tx[c].at \in AtWork /\ tx[d].at \in AtWork
                /\ KeyOf[tx[c].row] = KeyOf[tx[d].row]
                => c = d
  BY MutualExclusion DEF KeysIInv
<1>. QED BY KeysInvariance, <1>1, PTL

LEMMA CacheMatchesStore == KeysIInv => CacheAgrees
<1>. SUFFICES ASSUME KeysIInv, NEW r \in Rows \ unsure, cached[r] # Missing, ~Committing(r)
              PROVE  cached[r] = stored[r]
  BY DEF CacheAgrees
<1>1. \A c \in Callers : ~Sets(c, r)
  BY DEF Committing, Sets
<1>. QED BY <1>1 DEF KeysIInv, CacheMatches

(* The cache never differs from the store, except while a set() is in      *)
(* progress, after one that failed and where a clear() met another call.   *)
THEOREM CacheIsTrue == KeysSpec => []CacheAgrees
<1>. QED BY KeysInvariance, CacheMatchesStore, PTL

(* Only the answer of the store and clear() change what a reader may find, *)
(* each as the register does.                                              *)
LEMMA StepsAreRegisters ==
  ASSUME KeysIInv, KeysNext
  PROVE  Register!RegisterNext \/ UNCHANGED latest
<1>1. ASSUME NEW c \in Callers, KeysStep(c) PROVE Register!RegisterNext \/ UNCHANGED latest
  <2>1. CASE StoreSets(c) \/ StoreFails(c)
    <3>1. PICK r \in Rows, v \in Values : r = tx[c].row /\ v = tx[c].new
      BY ContextFields DEF KeysIInv
    <3>2. tx[c].at = "committing"
      BY <2>1 DEF StoreSets, StoreFails, CacheTurn
    <3>3. v \in Register!Built(r)
      BY <3>1, <3>2 DEF KeysIInv, ContextsMatch, Register!Built
    <3>4. Register!Changes(r) \/ Register!FailsToChange(r)
      BY <2>1, <3>1, <3>3 DEF StoreSets, StoreFails, Register!Changes, Register!FailsToChange
    <3>. QED BY <3>4 DEF Register!RegisterNext
  <2>2. CASE StoreClears(c)
    BY <2>2 DEF StoreClears, Register!Erases, Register!RegisterNext
  <2>3. CASE ~(StoreSets(c) \/ StoreFails(c) \/ StoreClears(c))
    BY <1>1, <2>3 DEF KeysStep, TransactionStarts, CallRead, ReadStarts, WorkWrites, WorkReturns, WorkThrows,
         RetryStarts, TransactionEnds, CacheHits, CacheMisses, CacheFills, CacheSets, Answer
  <2>. QED BY <2>1, <2>2, <2>3
<1>2. ASSUME NEW c \in Callers, NEW r \in Rows, CallTransaction(c, r) \/ CallGet(c, r)
      PROVE  UNCHANGED latest
  BY <1>2 DEF CallTransaction, CallGet
<1>3. ASSUME NEW c \in Callers, CallClear(c) PROVE UNCHANGED latest
  BY <1>3 DEF CallClear
<1>4. ASSUME NEW r \in Rows, CacheExpires(r) PROVE UNCHANGED latest
  BY <1>4 DEF CacheExpires
<1>. QED BY <1>1, <1>2, <1>3, <1>4 DEF KeysNext

LEMMA RegisterInitially == KeysInit => Register!RegisterInit
BY DEF KeysInit, Register!RegisterInit

LEMMA RegisterSteps == KeysIInv /\ [KeysNext]_keyVars => [Register!RegisterNext]_latest
<1>. SUFFICES ASSUME KeysIInv, [KeysNext]_keyVars PROVE [Register!RegisterNext]_latest
  OBVIOUS
<1>1. CASE KeysNext
  BY <1>1, StepsAreRegisters
<1>2. CASE UNCHANGED keyVars
  BY <1>2 DEF keyVars
<1>. QED BY <1>1, <1>2

(* The key utilities implement the register: a change of a row is made     *)
(* from a value that a reader may still find, never from one another       *)
(* transaction has replaced.                                               *)
THEOREM RegisterRefined == KeysSpec => ImplementsRegister
<1>. QED BY KeysInvariance, RegisterInitially, RegisterSteps, PTL
         DEF KeysSpec, ImplementsRegister, Register!RegisterSpec
-----------------------------------------------------------------------------
(***************************************************************************)
(* Nobody waits for ever behind somebody who cannot go on.  Whoever has a  *)
(* place in a queue is still in the call that took it and has one place    *)
(* there, and the reference count of a mutex counts those who use it.      *)
(***************************************************************************)

(* A read inside a transaction has a place at the mutex of its type. *)
AtType == {"awaitsType", "reading"}

(* A transaction refers to the mutex of its key until it has ended. *)
UsesKey == InTransaction \cup {"settling"}
UsersOf(name) == {c \in Callers : tx[c].at \in UsesKey /\ KeyOf[tx[c].row] = name}

TicketsOnce ==
  \A i, j \in DOMAIN tickets :
    tickets[i].by = tickets[j].by /\ tickets[i].name = tickets[j].name => i = j

TypeTickets ==
  /\ \A i \in DOMAIN tickets : tickets[i].name \in Rows =>
       tx[tickets[i].by].at \in AtType /\ tickets[i].name = tx[tickets[i].by].row
  /\ \A c \in Callers :
       /\ tx[c].at \in AtType => HasTicket(c, tx[c].row)
       /\ tx[c].at = "reading" => Holds(c, tx[c].row)

QueueOnce ==
  /\ \A i, j \in DOMAIN cacheQueue : cacheQueue[i] = cacheQueue[j] => i = j
  /\ \A i \in DOMAIN cacheQueue : tx[cacheQueue[i]].at \in InCacheCall

RefsCount ==
  /\ refs \in [MutexNames -> Nat]
  /\ \A name \in MutexNames \ Rows :
       /\ IsFiniteSet(UsersOf(name)) /\ refs[name] = Cardinality(UsersOf(name))
       /\ table[name] # 0 <=> UsersOf(name) # {}

TriesBounded == \A c \in Callers : tx[c].tries \in 0..(MaxRetries - 1)

PlacesIInv == TicketsOnce /\ TypeTickets /\ QueueOnce /\ RefsCount /\ TriesBounded

(* What the step of a caller does to the queue of the cache, ... *)
QueueMoves(c) ==
  \/ /\ cacheQueue' = cacheQueue
     /\ tx[c].at \in InCacheCall <=> tx'[c].at \in InCacheCall
  \/ /\ cacheQueue' = Append(cacheQueue, c)
     /\ tx[c].at \notin InCacheCall /\ tx'[c].at \in InCacheCall
  \/ /\ cacheQueue' = Tail(cacheQueue) /\ Head(cacheQueue) = c
     /\ tx[c].at \in InCacheCall /\ tx'[c].at \notin InCacheCall

(* ... to the queues of the mutexes, ... *)
TicketMoves(c) ==
  \/ /\ tickets' = tickets
     /\ tx[c].at \in AtType <=> tx'[c].at \in AtType
     /\ tx[c].at \in AtType => tx'[c].row = tx[c].row
     /\ tx'[c].at = "reading" => tx[c].at = "reading" \/ Holds(c, tx[c].row)
  \/ tx[c].at = "idle" /\ tx'[c].at = "queued" /\ Enter(c, KeyOf[tx'[c].row], 1)
  \/ /\ tx[c].at = "working" /\ tx'[c].at = "awaitsType" /\ tx'[c].row = tx[c].row
     /\ Enter(c, tx[c].row, 0)
  \/ tx[c].at \in {"working", "committing"} /\ tx'[c].at = "settling" /\ Leave(c, KeyOf[tx[c].row])
  \/ tx[c].at = "reading" /\ tx'[c].at = "working" /\ Leave(c, tx[c].row)

(* ... and to the references to the mutexes of keys. *)
RefMoves(c) ==
  \/ /\ tx[c].at \in UsesKey <=> tx'[c].at \in UsesKey
     /\ tx[c].at \in UsesKey => tx'[c].row = tx[c].row
     /\ refs' = refs /\ \A name \in MutexNames \ Rows : table'[name] = table[name]
  \/ tx[c].at = "idle" /\ tx'[c].at = "queued" /\ Enter(c, KeyOf[tx'[c].row], 1)
  \/ /\ tx[c].at = "settling" /\ tx'[c].at = "done"
     /\ ReleaseRef(KeyOf[tx[c].row]) /\ tickets' = tickets

Moves(c) ==
  /\ \A d \in Callers \ {c} : tx'[d] = tx[d]
  /\ tx'[c].tries \in 0..(MaxRetries - 1)
  /\ QueueMoves(c) /\ TicketMoves(c) /\ RefMoves(c)

LEMMA CallsMove ==
  ASSUME KeysIInv, PlacesIInv, NEW c \in Callers, NEW r \in Rows,
         CallTransaction(c, r) \/ CallGet(c, r) \/ CallClear(c)
  PROVE  Moves(c)
<1>. USE DEF Moves, QueueMoves, TicketMoves, RefMoves, UsesKey, AtType, InTransaction, AtWork,
             InCacheCall, Reading
<1>1. tx \in [Callers -> Contexts] /\ tx[c] \in Contexts /\ tx[c].tries \in 0..(MaxRetries - 1)
  BY DEF KeysIInv, KeysTypes, PlacesIInv, TriesBounded
<1>2. CASE CallTransaction(c, r)
  <2>1. /\ tx[c].at = "idle" /\ tx' = [tx EXCEPT ![c].at = "queued", ![c].row = r]
        /\ Enter(c, KeyOf[r], 1) /\ cacheQueue' = cacheQueue
    BY <1>2 DEF CallTransaction, cacheVars
  <2>2. /\ tx'[c].at = "queued" /\ tx'[c].row = r /\ tx'[c].tries = tx[c].tries
        /\ \A d \in Callers \ {c} : tx'[d] = tx[d]
    BY <1>1, <2>1 DEF Contexts
  <2>. QED BY <1>1, <2>1, <2>2
<1>3. CASE CallGet(c, r)
  <2>1. /\ tx[c].at = "idle" /\ tx' = [tx EXCEPT ![c].at = "getting", ![c].row = r]
        /\ cacheQueue' = Append(cacheQueue, c) /\ UNCHANGED <<tickets, table, refs>>
    BY <1>3 DEF CallGet, mutexVars
  <2>2. /\ tx'[c].at = "getting" /\ tx'[c].tries = tx[c].tries
        /\ \A d \in Callers \ {c} : tx'[d] = tx[d]
    BY <1>1, <2>1 DEF Contexts
  <2>. QED BY <1>1, <2>1, <2>2
<1>4. CASE CallClear(c)
  <2>1. /\ tx[c].at = "idle" /\ tx' = [tx EXCEPT ![c].at = "clearing"]
        /\ UNCHANGED <<cacheQueue, tickets, table, refs>>
    BY <1>4 DEF CallClear, Goes, cacheVars, mutexVars
  <2>2. /\ tx'[c].at = "clearing" /\ tx'[c].tries = tx[c].tries
        /\ \A d \in Callers \ {c} : tx'[d] = tx[d]
    BY <1>1, <2>1 DEF Contexts
  <2>. QED BY <1>1, <2>1, <2>2
<1>. QED BY <1>2, <1>3, <1>4

(* The context moves, and its row stays. *)
LEMMA PositionMoves ==
  ASSUME tx \in [Callers -> Contexts], NEW c \in Callers, NEW at, Goes(c, at)
  PROVE  /\ \A d \in Callers \ {c} : tx'[d] = tx[d]
         /\ tx'[c].at = at /\ tx'[c].row = tx[c].row /\ tx'[c].tries = tx[c].tries
<1>1. tx[c] \in Contexts /\ tx' = [tx EXCEPT ![c].at = at]
  BY DEF Goes
<1>. QED BY <1>1 DEF Contexts

LEMMA SettlingMoves ==
  ASSUME tx \in [Callers -> Contexts], NEW c \in Callers, Settles(c)
  PROVE  /\ \A d \in Callers \ {c} : tx'[d] = tx[d]
         /\ tx'[c].at = "settling" /\ tx'[c].row = tx[c].row /\ tx'[c].tries = 0
         /\ Leave(c, KeyOf[tx[c].row])
<1>. DEFINE t == [Fresh EXCEPT !.at = "settling", !.row = tx[c].row]
<1>1. t.at = "settling" /\ t.row = tx[c].row /\ t.tries = 0
  BY FreshType DEF Contexts
<1>2. tx' = [tx EXCEPT ![c] = t] /\ Leave(c, KeyOf[tx[c].row])
  BY DEF Settles
<1>. HIDE DEF t
<1>. QED BY <1>1, <1>2

(* What a transaction does outside the cache. *)
LEMMA TransactionMoves ==
  ASSUME KeysIInv, PlacesIInv, NEW c \in Callers,
         \/ TransactionStarts(c) \/ CallRead(c) \/ ReadStarts(c)
         \/ WorkReturns(c) \/ WorkThrows(c) \/ RetryStarts(c) \/ TransactionEnds(c) \/ StoreClears(c)
  PROVE  Moves(c)
<1>. USE DEF Moves, QueueMoves, TicketMoves, RefMoves, UsesKey, AtType, InTransaction, AtWork,
             InCacheCall, Reading
<1>1. /\ tx \in [Callers -> Contexts] /\ tx[c] \in Contexts /\ tx[c].tries \in 0..(MaxRetries - 1)
      /\ 0 \in 0..(MaxRetries - 1)
  BY KeysAssumption DEF KeysIInv, KeysTypes, PlacesIInv, TriesBounded
<1>2. CASE TransactionStarts(c)
  <2>1. tx[c].at = "queued" /\ Goes(c, "working") /\ UNCHANGED <<cacheQueue, tickets, table, refs>>
    BY <1>2 DEF TransactionStarts, cacheVars, mutexVars
  <2>. QED BY <1>1, <2>1, PositionMoves
<1>3. CASE CallRead(c)
  <2>1. /\ tx[c].at = "working" /\ Goes(c, "awaitsType") /\ Enter(c, tx[c].row, 0)
        /\ UNCHANGED cacheQueue
    BY <1>3 DEF CallRead, ReadMutex, cacheVars
  <2>2. /\ tx'[c].at = "awaitsType" /\ tx'[c].row = tx[c].row /\ tx'[c].tries = tx[c].tries
        /\ \A d \in Callers \ {c} : tx'[d] = tx[d]
    BY <1>1, <2>1, PositionMoves
  <2>3. refs' = refs /\ \A name \in MutexNames \ Rows : table'[name] = table[name]
    <3>1. tx[c].row \in Rows /\ table \in [MutexNames -> Nat] /\ refs \in [MutexNames -> Nat]
      BY ContextFields DEF KeysIInv, KeysTypes, PlacesIInv, RefsCount
    <3>2. PICK gen : table' = [table EXCEPT ![tx[c].row] = gen]
      BY <2>1 DEF Enter
    <3>3. refs' = [refs EXCEPT ![tx[c].row] = @ + 0]
      BY <2>1 DEF Enter
    <3>4. tx[c].row \in MutexNames
      BY <3>1, NamesAreMutexes
    <3>. QED BY <3>1, <3>2, <3>3, <3>4
  <2>. QED BY <1>1, <2>1, <2>2, <2>3
<1>4. CASE ReadStarts(c)
  <2>1. /\ tx[c].at = "awaitsType" /\ Holds(c, tx[c].row) /\ Goes(c, "reading")
        /\ cacheQueue' = Append(cacheQueue, c) /\ UNCHANGED <<tickets, table, refs>>
    BY <1>4 DEF ReadStarts, ReadMutex, mutexVars
  <2>. QED BY <1>1, <2>1, PositionMoves
<1>5. CASE WorkReturns(c)
  <2>1. CASE tx[c].new = Missing
    <3>1. tx[c].at = "working" /\ Settles(c) /\ UNCHANGED <<cacheQueue, table, refs>>
      BY <1>5, <2>1 DEF WorkReturns
    <3>. QED BY <1>1, <3>1, SettlingMoves
  <2>2. CASE tx[c].new # Missing
    <3>1. /\ tx[c].at = "working" /\ Goes(c, "committing")
          /\ cacheQueue' = Append(cacheQueue, c) /\ UNCHANGED <<tickets, table, refs>>
      BY <1>5, <2>2 DEF WorkReturns
    <3>. QED BY <1>1, <3>1, PositionMoves
  <2>. QED BY <2>1, <2>2
<1>6. CASE WorkThrows(c)
  <2>1. tx[c].at = "working" /\ Settles(c) /\ UNCHANGED <<cacheQueue, table, refs>>
    BY <1>6 DEF WorkThrows, cacheVars
  <2>. QED BY <1>1, <2>1, SettlingMoves
<1>7. CASE RetryStarts(c)
  <2>1. /\ tx[c].at = "retrying" /\ Goes(c, "committing")
        /\ cacheQueue' = Append(cacheQueue, c) /\ UNCHANGED <<tickets, table, refs>>
    BY <1>7 DEF RetryStarts, mutexVars
  <2>. QED BY <1>1, <2>1, PositionMoves
<1>8. CASE TransactionEnds(c)
  <2>1. /\ tx[c].at = "settling" /\ ReleaseRef(KeyOf[tx[c].row])
        /\ tx' = [tx EXCEPT ![c] = [Fresh EXCEPT !.at = "done"]]
        /\ UNCHANGED <<cacheQueue, tickets>>
    BY <1>8 DEF TransactionEnds, cacheVars
  <2>2. PICK t : t = [Fresh EXCEPT !.at = "done"]
    OBVIOUS
  <2>3. t.at = "done" /\ t.tries = 0
    BY <2>2, FreshType DEF Contexts
  <2>4. tx'[c].at = "done" /\ tx'[c].tries = 0 /\ \A d \in Callers \ {c} : tx'[d] = tx[d]
    BY <1>1, <2>1, <2>2, <2>3
  <2>. QED BY <1>1, <2>1, <2>4
<1>9. CASE StoreClears(c)
  <2>1. tx[c].at = "clearing" /\ Goes(c, "done") /\ UNCHANGED <<cacheQueue, tickets, table, refs>>
    BY <1>9 DEF StoreClears, cacheVars, mutexVars
  <2>. QED BY <1>1, <2>1, PositionMoves
<1>. QED BY <1>2, <1>3, <1>4, <1>5, <1>6, <1>7, <1>8, <1>9
(* What the holder of the cache does. *)
LEMMA CacheMoves ==
  ASSUME KeysIInv, PlacesIInv, NEW c \in Callers,
         \/ CacheHits(c) \/ CacheMisses(c) \/ CacheFills(c)
         \/ CacheSets(c) \/ StoreSets(c) \/ StoreFails(c)
  PROVE  Moves(c)
<1>. USE DEF Moves, QueueMoves, TicketMoves, RefMoves, UsesKey, AtType, InTransaction, AtWork,
             InCacheCall, Reading
<1>1. /\ tx \in [Callers -> Contexts] /\ tx[c] \in Contexts /\ tx[c].tries \in 0..(MaxRetries - 1)
      /\ 0 \in 0..(MaxRetries - 1)
  BY KeysAssumption DEF KeysIInv, KeysTypes, PlacesIInv, TriesBounded
<1>2. CASE CacheHits(c) \/ CacheFills(c)
  <2>1. PICK value : Answer(c, value)
    BY <1>2 DEF CacheHits, CacheFills
  <2>2. tx[c].at \in Reading /\ Head(cacheQueue) = c
    BY <1>2 DEF CacheHits, CacheFills, CacheTurn
  <2>3. cacheQueue' = Tail(cacheQueue) /\ UNCHANGED <<table, refs>>
    BY <2>1 DEF Answer, CacheDone
  <2>4. CASE tx[c].at = "reading"
    <3>1. Leave(c, tx[c].row) /\ tx' = [tx EXCEPT ![c].at = "working", ![c].base = value]
      BY <2>1, <2>4 DEF Answer, ReadMutex
    <3>2. PICK t : t = [tx[c] EXCEPT !.at = "working", !.base = value]
      OBVIOUS
    <3>3. t.at = "working" /\ t.row = tx[c].row /\ t.tries = tx[c].tries
      BY <1>1, <3>2 DEF Contexts
    <3>4. tx' = [tx EXCEPT ![c] = t]
      BY <1>1, <3>1, <3>2
    <3>5. tx'[c] = t /\ \A d \in Callers \ {c} : tx'[d] = tx[d]
      BY <1>1, <3>4
    <3>. QED BY <1>1, <2>2, <2>3, <2>4, <3>1, <3>3, <3>5
  <2>5. CASE tx[c].at # "reading"
    <3>1. UNCHANGED tickets /\ Goes(c, "done") /\ tx[c].at = "getting"
      BY <2>1, <2>2, <2>5 DEF Answer
    <3>. QED BY <1>1, <2>2, <2>3, <3>1, PositionMoves
  <2>. QED BY <2>4, <2>5
<1>3. CASE CacheMisses(c) \/ CacheSets(c)
  <2>1. UNCHANGED <<cacheQueue, tickets, table, refs, tx>>
    BY <1>3 DEF CacheMisses, CacheSets, mutexVars
  <2>. QED BY <1>1, <2>1
<1>4. CASE StoreSets(c)
  <2>1. /\ tx[c].at = "committing" /\ Head(cacheQueue) = c /\ Settles(c)
        /\ cacheQueue' = Tail(cacheQueue) /\ UNCHANGED <<table, refs>>
    BY <1>4 DEF StoreSets, CacheTurn, CacheDone
  <2>. QED BY <1>1, <2>1, SettlingMoves
<1>5. CASE StoreFails(c)
  <2>1. /\ tx[c].at = "committing" /\ Head(cacheQueue) = c
        /\ cacheQueue' = Tail(cacheQueue) /\ UNCHANGED <<table, refs>>
        /\ IF tx[c].tries + 1 = MaxRetries
           THEN Settles(c)
           ELSE UNCHANGED tickets /\ tx' = [tx EXCEPT ![c].tries = @ + 1, ![c].at = "retrying"]
    BY <1>5 DEF StoreFails, CacheTurn, CacheDone
  <2>2. CASE tx[c].tries + 1 = MaxRetries
    BY <1>1, <2>1, <2>2, SettlingMoves
  <2>3. CASE tx[c].tries + 1 # MaxRetries
    <3>1. PICK t : t = [tx[c] EXCEPT !.tries = @ + 1, !.at = "retrying"]
      OBVIOUS
    <3>2. t.at = "retrying" /\ t.row = tx[c].row /\ t.tries = tx[c].tries + 1
      BY <1>1, <3>1 DEF Contexts
    <3>3. tx' = [tx EXCEPT ![c] = t] /\ UNCHANGED tickets
      BY <1>1, <2>1, <2>3, <3>1
    <3>4. tx'[c] = t /\ \A d \in Callers \ {c} : tx'[d] = tx[d]
      BY <1>1, <3>3
    <3>5. t.tries \in 0..(MaxRetries - 1)
      BY <1>1, <2>3, <3>2, KeysAssumption
    <3>. QED BY <1>1, <2>1, <3>2, <3>3, <3>4, <3>5
  <2>. QED BY <2>2, <2>3
<1>. QED BY <1>2, <1>3, <1>4, <1>5

LEMMA WorkMoves ==
  ASSUME KeysIInv, PlacesIInv, NEW c \in Callers, NEW value, WorkWrites(c, value)
  PROVE  Moves(c)
<1>1. tx \in [Callers -> Contexts] /\ tx[c] \in Contexts /\ tx[c].tries \in 0..(MaxRetries - 1)
  BY DEF KeysIInv, KeysTypes, PlacesIInv, TriesBounded
<1>2. /\ tx[c].at = "working" /\ tx' = [tx EXCEPT ![c].new = value]
      /\ UNCHANGED <<cacheQueue, tickets, table, refs>>
  BY DEF WorkWrites, cacheVars, mutexVars
<1>3. PICK t : t = [tx[c] EXCEPT !.new = value]
  OBVIOUS
<1>4. t.at = "working" /\ t.row = tx[c].row /\ t.tries = tx[c].tries
  BY <1>1, <1>2, <1>3 DEF Contexts
<1>5. tx' = [tx EXCEPT ![c] = t]
  BY <1>1, <1>2, <1>3
<1>6. tx'[c] = t /\ \A d \in Callers \ {c} : tx'[d] = tx[d]
  BY <1>1, <1>5
<1>. QED BY <1>1, <1>2, <1>4, <1>6
     DEF Moves, QueueMoves, TicketMoves, RefMoves, UsesKey, AtType, InTransaction, AtWork, InCacheCall, Reading

LEMMA StepMoves ==
  ASSUME KeysIInv, PlacesIInv, NEW c \in Callers,
         KeysStep(c) \/ CallClear(c) \/ \E r \in Rows : CallTransaction(c, r) \/ CallGet(c, r)
  PROVE  Moves(c)
<1>1. \E r \in Rows : TRUE
  BY KeysAssumption
<1>. QED BY <1>1, CallsMove, TransactionMoves, CacheMoves, WorkMoves DEF KeysStep

-----------------------------------------------------------------------------
(* A caller takes its turn at the cache in order, and leaves the queue     *)
(* when it is done.                                                        *)
LEMMA QueueKeeps ==
  ASSUME KeysTypes, QueueOnce, NEW c \in Callers, QueueMoves(c), \A d \in Callers \ {c} : tx'[d] = tx[d],
         tx[c].at \in InCacheCall => \E i \in DOMAIN cacheQueue : cacheQueue[i] = c
  PROVE  QueueOnce'
<1>1. /\ cacheQueue \in Seq(Callers) /\ DOMAIN cacheQueue = 1..Len(cacheQueue) /\ Len(cacheQueue) \in Nat
      /\ \A i \in DOMAIN cacheQueue : cacheQueue[i] \in Callers
  BY DEF KeysTypes
<1>2. CASE cacheQueue' = cacheQueue /\ (tx[c].at \in InCacheCall <=> tx'[c].at \in InCacheCall)
  BY <1>1, <1>2 DEF QueueOnce
<1>3. CASE /\ cacheQueue' = Append(cacheQueue, c)
           /\ tx[c].at \notin InCacheCall /\ tx'[c].at \in InCacheCall
  <2>1. /\ DOMAIN cacheQueue' = 1..(Len(cacheQueue) + 1) /\ cacheQueue'[Len(cacheQueue) + 1] = c
        /\ \A i \in DOMAIN cacheQueue : cacheQueue'[i] = cacheQueue[i] /\ cacheQueue[i] # c
    BY <1>1, <1>3 DEF QueueOnce
  <2>. QED BY <1>1, <1>3, <2>1 DEF QueueOnce
<1>4. CASE /\ cacheQueue' = Tail(cacheQueue) /\ Head(cacheQueue) = c
           /\ tx[c].at \in InCacheCall /\ tx'[c].at \notin InCacheCall
  <2>1. cacheQueue # <<>>
    BY <1>1, <1>4
  <2>2. /\ DOMAIN cacheQueue' = 1..(Len(cacheQueue) - 1) /\ cacheQueue[1] = c /\ 1 \in DOMAIN cacheQueue
        /\ \A i \in DOMAIN cacheQueue' : cacheQueue'[i] = cacheQueue[i + 1] /\ i + 1 \in DOMAIN cacheQueue
    BY <1>1, <1>4, <2>1
  <2>3. \A i \in DOMAIN cacheQueue' : i + 1 # 1
    BY <1>1, <2>2
  <2>4. \A i \in DOMAIN cacheQueue' : cacheQueue'[i] # c /\ cacheQueue'[i] \in Callers
    BY <1>1, <2>2, <2>3 DEF QueueOnce
  <2>5. \A i, j \in DOMAIN cacheQueue' : cacheQueue'[i] = cacheQueue'[j] => i = j
    <3>1. \A i, j \in DOMAIN cacheQueue' : cacheQueue'[i] = cacheQueue'[j] => i + 1 = j + 1
      BY <2>2 DEF QueueOnce
    <3>2. \A i, j \in DOMAIN cacheQueue' : i + 1 = j + 1 => i = j
      BY <1>1, <2>2
    <3>. QED BY <3>1, <3>2
  <2>6. \A i \in DOMAIN cacheQueue' : tx[cacheQueue'[i]].at \in InCacheCall
    BY <2>2 DEF QueueOnce
  <2>. QED BY <2>4, <2>5, <2>6 DEF QueueOnce
<1>. QED BY <1>2, <1>3, <1>4 DEF QueueMoves

(* A new ticket is the last, and the caller has no other of that mutex. *)
LEMMA EnterOnce ==
  ASSUME KeysTypes, TicketsMatch, TicketsOnce, NEW c \in Callers, NEW name \in MutexNames, NEW owned,
         Enter(c, name, owned), ~HasTicket(c, name)
  PROVE  /\ TicketsOnce'
         /\ \A i \in DOMAIN tickets' : \/ tickets'[i].by = c /\ tickets'[i].name = name
                                       \/ \E j \in DOMAIN tickets : tickets'[i] = tickets[j]
         /\ HasTicket(c, name)' /\ \A d, n : HasTicket(d, n) => HasTicket(d, n)'
         /\ \A d, n : Holds(d, n) /\ ~(d = c /\ n = name) => Holds(d, n)'
<1>1. /\ \A i \in DOMAIN tickets' :
           \/ i \in DOMAIN tickets /\ tickets'[i] = tickets[i]
           \/ tickets'[i].by = c /\ tickets'[i].name = name
      /\ HasTicket(c, name)' /\ \A d, n : HasTicket(d, n) => HasTicket(d, n)'
      /\ \A d, n : Holds(d, n) /\ ~(d = c /\ n = name) => Holds(d, n)'
  BY EnterKeeps
<1>2. PICK t : tickets' = Append(tickets, t)
  BY DEF Enter
<1>3. /\ DOMAIN tickets = 1..Len(tickets) /\ DOMAIN tickets' = 1..(Len(tickets) + 1) /\ Len(tickets) \in Nat
      /\ \A i \in DOMAIN tickets : tickets'[i] = tickets[i]
  BY <1>2 DEF KeysTypes
<1>4. \A i \in DOMAIN tickets : ~(tickets'[i].by = c /\ tickets'[i].name = name)
  BY <1>3 DEF HasTicket
<1>5. tickets'[Len(tickets) + 1].by = c /\ tickets'[Len(tickets) + 1].name = name
  BY <1>1, <1>3
<1>6. TicketsOnce'
  BY <1>3, <1>4, <1>5 DEF TicketsOnce
<1>. QED BY <1>1, <1>6

LEMMA LeaveOnce ==
  ASSUME KeysTypes, TicketsMatch, TicketsOnce, NEW c \in Callers, NEW name \in MutexNames, Leave(c, name)
  PROVE  /\ TicketsOnce' /\ ~HasTicket(c, name)'
         /\ \A i \in DOMAIN tickets' : \E j \in DOMAIN tickets : tickets'[i] = tickets[j]
         /\ \A d, n : HasTicket(d, n) /\ ~(d = c /\ n = name) => HasTicket(d, n)'
         /\ \A d, n : Holds(d, n) => Holds(d, n)'
<1>1. PICK k \in DOMAIN tickets :
        tickets[k].by = c /\ tickets[k].name = name /\ tickets' = RemoveAt(tickets, k)
  BY DEF Leave
<1>2. tickets \in Seq(Tickets) /\ DOMAIN tickets = 1..Len(tickets) /\ Len(tickets) \in Nat
  BY DEF KeysTypes
<1>. DEFINE up(i) == IF i < k THEN i ELSE i + 1
<1>3. DOMAIN tickets' = 1..(Len(tickets) - 1) /\ \A i \in 1..(Len(tickets) - 1) : tickets'[i] = tickets[up(i)]
  BY <1>1, <1>2, RemovedAt
<1>4. /\ \A i \in DOMAIN tickets' : up(i) \in DOMAIN tickets /\ up(i) # k
      /\ \A i, j \in DOMAIN tickets' : up(i) = up(j) => i = j
  BY <1>1, <1>2, <1>3
<1>. HIDE DEF up
<1>5. TicketsOnce'
  BY <1>3, <1>4 DEF TicketsOnce
<1>6. ~HasTicket(c, name)'
  <2>. SUFFICES ASSUME NEW i \in DOMAIN tickets', tickets'[i].by = c, tickets'[i].name = name PROVE FALSE
    BY DEF HasTicket
  <2>1. up(i) \in DOMAIN tickets /\ up(i) # k /\ tickets[up(i)].by = c /\ tickets[up(i)].name = name
    BY <1>3, <1>4
  <2>. QED BY <1>1, <2>1 DEF TicketsOnce
<1>. QED BY <1>5, <1>6, LeaveKeeps
(* Whoever has no place at a type's mutex has no ticket for one. *)
LEMMA NoTypeTicket ==
  ASSUME TypeTickets, NEW c \in Callers, tx[c].at \notin AtType, NEW r \in Rows
  PROVE  ~HasTicket(c, r)
BY DEF TypeTickets, HasTicket

LEMMA TicketsStep ==
  ASSUME KeysTypes, TicketsMatch, TicketsOnce, TypeTickets, NEW c \in Callers, TicketMoves(c),
         \A d \in Callers \ {c} : tx'[d] = tx[d], tx'[c].row \in Rows
  PROVE  TicketsOnce' /\ TypeTickets'
<1>1. /\ \A i \in DOMAIN tickets : tickets[i].by \in Callers
      /\ \A d \in Callers : tx[d].row \in Rows /\ tx[d].row \in MutexNames
                           /\ KeyOf[tx[d].row] \in MutexNames /\ KeyOf[tx[d].row] \notin Rows
  <2>1. \A i \in DOMAIN tickets : tickets[i] \in Tickets
    BY DEF KeysTypes
  <2>. QED BY <2>1, ContextFields DEF Tickets
<1>2. CASE /\ tickets' = tickets
           /\ tx[c].at \in AtType <=> tx'[c].at \in AtType
           /\ tx[c].at \in AtType => tx'[c].row = tx[c].row
           /\ tx'[c].at = "reading" => tx[c].at = "reading" \/ Holds(c, tx[c].row)
  <2>1. \A d, n : (HasTicket(d, n)' <=> HasTicket(d, n)) /\ (Holds(d, n)' <=> Holds(d, n))
    BY <1>2 DEF HasTicket, Holds
  <2>2. ASSUME NEW d \in Callers
        PROVE  /\ tx'[d].at \in AtType <=> tx[d].at \in AtType
               /\ tx[d].at \in AtType => tx'[d].row = tx[d].row
               /\ tx'[d].at = "reading" => Holds(d, tx[d].row)
    BY <1>2 DEF TypeTickets
  <2>3. TicketsOnce'
    BY <1>2 DEF TicketsOnce
  <2>4. \A i \in DOMAIN tickets' : tickets'[i].name \in Rows =>
          tx'[tickets'[i].by].at \in AtType /\ tickets'[i].name = tx'[tickets'[i].by].row
    BY <1>1, <1>2, <2>2 DEF TypeTickets
  <2>5. ASSUME NEW d \in Callers, tx'[d].at \in AtType
        PROVE  HasTicket(d, tx[d].row)' /\ (tx'[d].at = "reading" => Holds(d, tx[d].row)')
    <3>1. PICK r : r = tx[d].row /\ r = tx'[d].row
      BY <2>2, <2>5
    <3>2. HasTicket(d, r)' /\ (tx'[d].at = "reading" => Holds(d, r)')
      BY <2>1, <2>2, <2>5, <3>1 DEF TypeTickets
    <3>. QED BY <3>1, <3>2 DEF HasTicket, Holds
  <2>. QED BY <2>3, <2>4, <2>5 DEF TypeTickets, AtType
<1>3. CASE tx[c].at = "idle" /\ tx'[c].at = "queued" /\ Enter(c, KeyOf[tx'[c].row], 1)
  <2>1. PICK key : key = KeyOf[tx'[c].row]
    OBVIOUS
  <2>2. key \in MutexNames /\ key \notin Rows
    BY <2>1, NamesAreMutexes
  <2>3. ~HasTicket(c, key)
    BY <1>3, <2>2 DEF TicketsMatch, HasTicket, InTransaction, AtWork
  <2>4. /\ TicketsOnce'
        /\ \A i \in DOMAIN tickets' : \/ tickets'[i].by = c /\ tickets'[i].name = key
                                      \/ \E j \in DOMAIN tickets : tickets'[i] = tickets[j]
        /\ \A d, n : HasTicket(d, n) => HasTicket(d, n)'
        /\ \A d, n : Holds(d, n) /\ ~(d = c /\ n = key) => Holds(d, n)'
    BY <1>3, <2>1, <2>2, <2>3, EnterOnce
  <2>5. ASSUME NEW i \in DOMAIN tickets', tickets'[i].name \in Rows
        PROVE  tx'[tickets'[i].by].at \in AtType /\ tickets'[i].name = tx'[tickets'[i].by].row
    <3>1. PICK j \in DOMAIN tickets : tickets'[i] = tickets[j]
      BY <2>2, <2>4, <2>5
    <3>2. tx[tickets[j].by].at \in AtType /\ tickets[j].name = tx[tickets[j].by].row
      BY <2>5, <3>1 DEF TypeTickets
    <3>3. tickets[j].by # c
      BY <1>3, <3>2 DEF AtType
    <3>. QED BY <1>1, <3>1, <3>2, <3>3
  <2>6. ASSUME NEW d \in Callers, tx'[d].at \in AtType
        PROVE  HasTicket(d, tx[d].row)' /\ (tx'[d].at = "reading" => Holds(d, tx[d].row)')
    <3>1. d # c /\ tx'[d] = tx[d]
      BY <1>3, <2>6 DEF AtType
    <3>2. PICK r \in Rows : r = tx[d].row /\ r = tx'[d].row
      BY <1>1, <3>1
    <3>3. HasTicket(d, r)' /\ (tx'[d].at = "reading" => Holds(d, r)')
      BY <2>2, <2>4, <2>6, <3>1, <3>2 DEF TypeTickets
    <3>. QED BY <3>2, <3>3 DEF HasTicket, Holds
  <2>. QED BY <2>4, <2>5, <2>6 DEF TypeTickets, AtType
<1>4. CASE /\ tx[c].at = "working" /\ tx'[c].at = "awaitsType" /\ tx'[c].row = tx[c].row
           /\ Enter(c, tx[c].row, 0)
  <2>1. PICK row \in Rows : row = tx[c].row /\ row \in MutexNames
    BY <1>1
  <2>2. ~HasTicket(c, row)
    BY <1>4, NoTypeTicket DEF AtType
  <2>3. /\ TicketsOnce' /\ HasTicket(c, row)'
        /\ \A i \in DOMAIN tickets' : \/ tickets'[i].by = c /\ tickets'[i].name = row
                                      \/ \E j \in DOMAIN tickets : tickets'[i] = tickets[j]
        /\ \A d, n : HasTicket(d, n) => HasTicket(d, n)'
        /\ \A d, n : Holds(d, n) /\ ~(d = c /\ n = row) => Holds(d, n)'
    BY <1>4, <2>1, <2>2, EnterOnce
  <2>4. ASSUME NEW i \in DOMAIN tickets', tickets'[i].name \in Rows
        PROVE  tx'[tickets'[i].by].at \in AtType /\ tickets'[i].name = tx'[tickets'[i].by].row
    <3>1. CASE tickets'[i].by = c /\ tickets'[i].name = row
      BY <1>4, <2>1, <3>1 DEF AtType
    <3>2. CASE \E j \in DOMAIN tickets : tickets'[i] = tickets[j]
      <4>1. PICK j \in DOMAIN tickets : tickets'[i] = tickets[j]
        BY <3>2
      <4>2. tx[tickets[j].by].at \in AtType /\ tickets[j].name = tx[tickets[j].by].row
        BY <2>4, <4>1 DEF TypeTickets
      <4>3. tickets[j].by # c
        BY <1>4, <4>2 DEF AtType
      <4>. QED BY <1>1, <4>1, <4>2, <4>3
    <3>. QED BY <2>3, <3>1, <3>2
  <2>5. ASSUME NEW d \in Callers, tx'[d].at \in AtType
        PROVE  HasTicket(d, tx[d].row)' /\ (tx'[d].at = "reading" => Holds(d, tx[d].row)')
    <3>1. CASE d = c
      BY <1>4, <2>1, <2>3, <3>1 DEF HasTicket
    <3>2. CASE d # c
      <4>1. PICK r : r = tx[d].row /\ tx'[d] = tx[d]
        BY <3>2
      <4>2. HasTicket(d, r)' /\ (tx'[d].at = "reading" => Holds(d, r)')
        BY <2>3, <2>5, <3>2, <4>1 DEF TypeTickets
      <4>. QED BY <4>1, <4>2 DEF HasTicket, Holds
    <3>. QED BY <3>1, <3>2
  <2>6. ASSUME NEW d \in Callers
        PROVE  (tx[d].at \in AtType => HasTicket(d, tx[d].row))' /\ (tx[d].at = "reading" => Holds(d, tx[d].row))'
    BY <2>5 DEF AtType
  <2>. QED BY <2>3, <2>4, <2>6 DEF TypeTickets
<1>5. ASSUME NEW name \in MutexNames, Leave(c, name), tx'[c].at \notin AtType,
             tx[c].at \in AtType => name = tx[c].row
      PROVE  TicketsOnce' /\ TypeTickets'
  <2>1. /\ TicketsOnce' /\ ~HasTicket(c, name)'
        /\ \A i \in DOMAIN tickets' : \E j \in DOMAIN tickets : tickets'[i] = tickets[j]
        /\ \A d, n : HasTicket(d, n) /\ ~(d = c /\ n = name) => HasTicket(d, n)'
        /\ \A d, n : Holds(d, n) => Holds(d, n)'
    BY <1>5, LeaveOnce
  <2>2. ASSUME NEW i \in DOMAIN tickets', tickets'[i].name \in Rows
        PROVE  tx'[tickets'[i].by].at \in AtType /\ tickets'[i].name = tx'[tickets'[i].by].row
    <3>1. PICK j \in DOMAIN tickets : tickets'[i] = tickets[j]
      BY <2>1
    <3>2. tx[tickets[j].by].at \in AtType /\ tickets[j].name = tx[tickets[j].by].row
      BY <2>2, <3>1 DEF TypeTickets
    <3>3. tickets[j].by # c
      BY <1>5, <2>1, <3>1, <3>2 DEF HasTicket
    <3>. QED BY <1>1, <3>1, <3>2, <3>3
  <2>3. ASSUME NEW d \in Callers
        PROVE  (tx[d].at \in AtType => HasTicket(d, tx[d].row))' /\ (tx[d].at = "reading" => Holds(d, tx[d].row))'
    <3>1. CASE d = c
      BY <1>5, <3>1 DEF AtType
    <3>2. CASE d # c
      <4>1. PICK r : r = tx[d].row /\ tx'[d] = tx[d]
        BY <3>2
      <4>2. (tx'[d].at \in AtType => HasTicket(d, r)') /\ (tx'[d].at = "reading" => Holds(d, r)')
        BY <2>1, <3>2, <4>1 DEF TypeTickets
      <4>. QED BY <4>1, <4>2 DEF HasTicket, Holds
    <3>. QED BY <3>1, <3>2
  <2>. QED BY <2>1, <2>2, <2>3 DEF TypeTickets
<1>. QED BY <1>1, <1>2, <1>3, <1>4, <1>5 DEF TicketMoves, AtType
(* A mutex is referred to once by each of its users, and the last one to   *)
(* leave takes it out of the table.                                        *)
LEMMA RefsStep ==
  ASSUME KeysTypes, TicketsMatch, RefsCount, NEW c \in Callers, RefMoves(c), tx'[c].row \in Rows,
         \A d \in Callers \ {c} : tx'[d] = tx[d]
  PROVE  RefsCount'
<1>. DEFINE names == MutexNames \ Rows
<1>1. /\ refs \in [MutexNames -> Nat] /\ table \in [MutexNames -> Nat]
      /\ \A name \in names : /\ IsFiniteSet(UsersOf(name)) /\ refs[name] = Cardinality(UsersOf(name))
                             /\ table[name] # 0 <=> UsersOf(name) # {}
  BY DEF RefsCount, KeysTypes
<1>2. CASE /\ tx[c].at \in UsesKey <=> tx'[c].at \in UsesKey
           /\ tx[c].at \in UsesKey => tx'[c].row = tx[c].row
           /\ refs' = refs /\ \A name \in names : table'[name] = table[name]
  <2>1. \A name : UsersOf(name)' = UsersOf(name)
    BY <1>2 DEF UsersOf
  <2>. QED BY <1>1, <1>2, <2>1 DEF RefsCount
<1>3. CASE tx[c].at = "idle" /\ tx'[c].at = "queued" /\ Enter(c, KeyOf[tx'[c].row], 1)
  <2>1. PICK key \in names : key = KeyOf[tx'[c].row]
    BY NamesAreMutexes
  <2>2. /\ UsersOf(key)' = UsersOf(key) \cup {c} /\ c \notin UsersOf(key)
        /\ \A name \in names \ {key} : UsersOf(name)' = UsersOf(name)
    <3>1. tx[c].at \notin UsesKey /\ tx'[c].at \in UsesKey
      BY <1>3 DEF UsesKey, InTransaction, AtWork
    <3>. QED BY <2>1, <3>1 DEF UsersOf
  <2>3. refs' = [refs EXCEPT ![key] = @ + 1]
    BY <1>3, <2>1 DEF Enter
  <2>4. table'[key] # 0 /\ \A name \in MutexNames \ {key} : table'[name] = table[name]
    <3>1. \A i \in DOMAIN tickets' :
            tickets'[i].gen = table'[tickets'[i].name] /\ table'[tickets'[i].name] # 0
      BY <1>3, <2>1, EnterKeeps
    <3>2. HasTicket(c, key)'
      BY <1>3, <2>1, EnterKeeps
    <3>3. PICK gen : table' = [table EXCEPT ![key] = gen]
      BY <1>3, <2>1 DEF Enter
    <3>. QED BY <1>1, <3>1, <3>2, <3>3 DEF HasTicket
  <2>5. IsFiniteSet(UsersOf(key)') /\ Cardinality(UsersOf(key)') = Cardinality(UsersOf(key)) + 1
    BY <1>1, <2>2, FS_AddElement
  <2>6. refs' \in [MutexNames -> Nat] /\ refs'[key] = refs[key] + 1
        /\ \A name \in MutexNames \ {key} : refs'[name] = refs[name]
    BY <1>1, <2>1, <2>3
  <2>. QED BY <1>1, <2>1, <2>2, <2>4, <2>5, <2>6 DEF RefsCount
<1>4. CASE /\ tx[c].at = "settling" /\ tx'[c].at = "done"
           /\ ReleaseRef(KeyOf[tx[c].row]) /\ tickets' = tickets
  <2>1. PICK key \in names : key = KeyOf[tx[c].row]
    BY ContextFields
  <2>2. /\ UsersOf(key)' = UsersOf(key) \ {c} /\ c \in UsersOf(key)
        /\ \A name \in names \ {key} : UsersOf(name)' = UsersOf(name)
    <3>1. tx[c].at \in UsesKey /\ tx'[c].at \notin UsesKey
      BY <1>4 DEF UsesKey, InTransaction, AtWork
    <3>. QED BY <2>1, <3>1 DEF UsersOf
  <2>3. /\ IsFiniteSet(UsersOf(key)') /\ Cardinality(UsersOf(key)') = Cardinality(UsersOf(key)) - 1
        /\ Cardinality(UsersOf(key)) \in Nat /\ Cardinality(UsersOf(key)') \in Nat
    BY <1>1, <2>2, FS_RemoveElement, FS_CardinalityType
  <2>4. Cardinality(UsersOf(key)') = 0 <=> UsersOf(key)' = {}
    BY <2>3, FS_EmptySet
  <2>5. refs[key] = Cardinality(UsersOf(key)) /\ table[key] # 0
    BY <1>1, <2>2
  <2>6. CASE refs[key] <= 1 /\ ~Locked(key, table[key])
    <3>1. table' = [table EXCEPT ![key] = 0] /\ refs' = [refs EXCEPT ![key] = 0]
      BY <1>4, <2>1, <2>6 DEF ReleaseRef
    <3>2. Cardinality(UsersOf(key)') = 0
      BY <2>3, <2>5, <2>6
    <3>3. /\ refs' \in [MutexNames -> Nat] /\ refs'[key] = 0 /\ table'[key] = 0
          /\ \A name \in MutexNames \ {key} : refs'[name] = refs[name] /\ table'[name] = table[name]
      BY <1>1, <2>1, <3>1
    <3>. QED BY <1>1, <2>2, <2>3, <2>4, <3>2, <3>3 DEF RefsCount
  <2>7. CASE ~(refs[key] <= 1 /\ ~Locked(key, table[key]))
    <3>1. table' = table /\ refs' = [refs EXCEPT ![key] = @ - 1]
      BY <1>4, <2>1, <2>7 DEF ReleaseRef
    <3>2. /\ refs' \in [MutexNames -> Nat] /\ refs'[key] = Cardinality(UsersOf(key)')
          /\ \A name \in MutexNames \ {key} : refs'[name] = refs[name]
      BY <1>1, <2>1, <2>3, <2>5, <3>1
    <3>3. UsersOf(key)' # {}
      <4>1. CASE Locked(key, table[key])
        <5>1. PICK i \in DOMAIN tickets : tickets[i].name = key
          BY <4>1 DEF Locked
        <5>2. tickets[i].by \in Callers
          <6>1. tickets[i] \in Tickets
            BY DEF KeysTypes
          <6>. QED BY <6>1 DEF Tickets
        <5>3. tx[tickets[i].by].at \in InTransaction /\ key = KeyOf[tx[tickets[i].by].row]
          BY <2>1, <5>1 DEF TicketsMatch
        <5>4. tickets[i].by # c
          BY <1>4, <5>3 DEF InTransaction, AtWork
        <5>5. tickets[i].by \in UsersOf(key)
          BY <5>2, <5>3 DEF UsersOf, UsesKey
        <5>. QED BY <2>2, <5>4, <5>5
      <4>2. CASE ~(refs[key] <= 1)
        <5>1. Cardinality(UsersOf(key)') # 0
          BY <2>3, <2>5, <4>2
        <5>. QED BY <2>4, <5>1
      <4>. QED BY <2>7, <4>1, <4>2
    <3>. QED BY <1>1, <2>2, <2>3, <2>5, <3>1, <3>2, <3>3 DEF RefsCount
  <2>. QED BY <2>6, <2>7
<1>. QED BY <1>2, <1>3, <1>4 DEF RefMoves

LEMMA PlacesKept ==
  ASSUME KeysIInv, KeysIInv', PlacesIInv, NEW c \in Callers, Moves(c)
  PROVE  PlacesIInv'
<1>1. KeysTypes /\ TicketsMatch /\ TicketsOnce /\ TypeTickets /\ QueueOnce /\ RefsCount /\ TriesBounded
  BY DEF KeysIInv, PlacesIInv
<1>2. /\ \A d \in Callers \ {c} : tx'[d] = tx[d]
      /\ tx'[c].tries \in 0..(MaxRetries - 1)
      /\ QueueMoves(c) /\ TicketMoves(c) /\ RefMoves(c)
  BY DEF Moves
<1>3. tx'[c].row \in Rows
  <2>1. tx'[c] \in Contexts
    BY DEF KeysIInv, KeysTypes
  <2>. QED BY <2>1 DEF Contexts
<1>4. QueueOnce'
  <2>1. tx[c].at \in InCacheCall => \E i \in DOMAIN cacheQueue : cacheQueue[i] = c
    BY DEF KeysIInv, QueueMatches
  <2>. QED BY <1>1, <1>2, <2>1, QueueKeeps
<1>5. TicketsOnce' /\ TypeTickets'
  BY <1>1, <1>2, <1>3, TicketsStep
<1>6. RefsCount'
  BY <1>1, <1>2, <1>3, RefsStep
<1>7. TriesBounded'
  BY <1>1, <1>2 DEF TriesBounded
<1>. QED BY <1>4, <1>5, <1>6, <1>7 DEF PlacesIInv

LEMMA PlacesSame ==
  ASSUME PlacesIInv, UNCHANGED <<tickets, cacheQueue, refs, table, tx>>
  PROVE  PlacesIInv'
<1>1. \A d, n : (HasTicket(d, n)' <=> HasTicket(d, n)) /\ (Holds(d, n)' <=> Holds(d, n))
  BY DEF HasTicket, Holds
<1>2. \A n : UsersOf(n)' = UsersOf(n)
  BY DEF UsersOf
<1>3. TicketsOnce' /\ QueueOnce' /\ TriesBounded'
  BY DEF PlacesIInv, TicketsOnce, QueueOnce, TriesBounded
<1>4. TypeTickets'
  <2>1. ASSUME NEW d \in Callers
        PROVE  (tx[d].at \in AtType => HasTicket(d, tx[d].row))' /\ (tx[d].at = "reading" => Holds(d, tx[d].row))'
    <3>1. PICK r : r = tx[d].row
      OBVIOUS
    <3>2. (tx'[d].at \in AtType => HasTicket(d, r)') /\ (tx'[d].at = "reading" => Holds(d, r)')
      BY <1>1, <3>1 DEF PlacesIInv, TypeTickets
    <3>. QED BY <3>1, <3>2 DEF HasTicket, Holds
  <2>2. \A i \in DOMAIN tickets' : tickets'[i].name \in Rows =>
          tx'[tickets'[i].by].at \in AtType /\ tickets'[i].name = tx'[tickets'[i].by].row
    BY DEF PlacesIInv, TypeTickets
  <2>. QED BY <2>1, <2>2 DEF TypeTickets
<1>5. RefsCount'
  BY <1>2 DEF PlacesIInv, RefsCount
<1>. QED BY <1>3, <1>4, <1>5 DEF PlacesIInv

LEMMA PlacesInitially == KeysInit => PlacesIInv
<1>. SUFFICES ASSUME KeysInit PROVE PlacesIInv
  OBVIOUS
<1>1. \A c \in Callers : tx[c].at = "idle" /\ tx[c].tries = 0
  BY FreshType DEF KeysInit
<1>2. tickets = <<>> /\ cacheQueue = <<>>
  BY DEF KeysInit
<1>3. TicketsOnce /\ QueueOnce
  BY <1>2 DEF TicketsOnce, QueueOnce
<1>4. TypeTickets
  BY <1>1, <1>2 DEF TypeTickets, AtType
<1>5. RefsCount
  <2>1. \A name : UsersOf(name) = {}
    BY <1>1 DEF UsersOf, UsesKey, InTransaction, AtWork
  <2>2. IsFiniteSet({}) /\ Cardinality({}) = 0
    BY FS_EmptySet
  <2>. QED BY <2>1, <2>2 DEF KeysInit, RefsCount
<1>6. TriesBounded
  BY <1>1, KeysAssumption DEF TriesBounded
<1>. QED BY <1>3, <1>4, <1>5, <1>6 DEF PlacesIInv

LEMMA PlacesStep == KeysIInv /\ KeysIInv' /\ PlacesIInv /\ [KeysNext]_keyVars => PlacesIInv'
<1>. SUFFICES ASSUME KeysIInv, KeysIInv', PlacesIInv, [KeysNext]_keyVars PROVE PlacesIInv'
  OBVIOUS
<1>1. ASSUME NEW c \in Callers,
             KeysStep(c) \/ CallClear(c) \/ \E r \in Rows : CallTransaction(c, r) \/ CallGet(c, r)
      PROVE  PlacesIInv'
  BY <1>1, StepMoves, PlacesKept
<1>2. ASSUME NEW r \in Rows, CacheExpires(r) PROVE PlacesIInv'
  BY <1>2, PlacesSame DEF CacheExpires, cacheVars, mutexVars
<1>3. CASE UNCHANGED keyVars
  BY <1>3, PlacesSame DEF keyVars
<1>. QED BY <1>1, <1>2, <1>3 DEF KeysNext

LEMMA KeysTyped ==
  ASSUME KeysIInv, PlacesIInv
  PROVE  KeysTypeOK
<1>1. \A c \in Callers : tx[c].at \in States /\ tx[c].tries \in 0..MaxRetries
  BY ContextFields, KeysAssumption DEF KeysIInv, PlacesIInv, TriesBounded
<1>2. /\ stored \in [Rows -> Nat] /\ cached \in [Rows -> Nat \cup {Missing}]
      /\ cacheQueue \in Seq(Callers) /\ table \in [MutexNames -> Nat]
  BY DEF KeysIInv, KeysTypes, Values
<1>3. refs \in [MutexNames -> Nat]
  BY DEF PlacesIInv, RefsCount
<1>. QED BY <1>1, <1>2, <1>3 DEF KeysTypeOK, States, InTransaction, AtWork, InCacheCall, Reading

(* Every reachable state of the key utilities has these, too. *)
THEOREM PlacesInvariance == KeysSpec => []PlacesIInv
<1>. QED BY KeysInvariance, PlacesInitially, PlacesStep, PTL DEF KeysSpec

(* The variables of the key utilities keep their types: in particular no   *)
(* reference count drops below zero, and no commit is tried too often.     *)
THEOREM KeysTypeCorrect == KeysSpec => []KeysTypeOK
<1>1. KeysIInv /\ PlacesIInv => KeysTypeOK
  BY KeysTyped
<1>. QED BY KeysInvariance, PlacesInvariance, <1>1, PTL

(* The mutex of a key is in the table exactly while some transaction of    *)
(* the key holds, awaits or leaves it, and its reference count is their    *)
(* number: none is dropped under a waiting caller, and none is left behind *)
(* (getTxMutex, releaseTxMutexRef).                                        *)
THEOREM ReferencesAreCounted ==
  KeysSpec => [](\A name \in MutexNames \ Rows :
                   /\ refs[name] = Cardinality(UsersOf(name))
                   /\ table[name] # 0 <=> UsersOf(name) # {})
<1>1. PlacesIInv => \A name \in MutexNames \ Rows :
                      /\ refs[name] = Cardinality(UsersOf(name))
                      /\ table[name] # 0 <=> UsersOf(name) # {}
  BY DEF PlacesIInv, RefsCount
<1>. QED BY PlacesInvariance, <1>1, PTL

(* c has what its next step takes: its turn, and the ticket it gives up.   *)
Ready(c) ==
  \/ tx[c].at = "queued" /\ Holds(c, KeyOf[tx[c].row])
  \/ tx[c].at = "awaitsType" /\ Holds(c, ReadMutex(c))
  \/ tx[c].at = "working" /\ HasTicket(c, KeyOf[tx[c].row])
  \/ CacheTurn(c, {"getting"})
  \/ CacheTurn(c, {"reading"}) /\ HasTicket(c, ReadMutex(c))
  \/ CacheTurn(c, {"committing"}) /\ HasTicket(c, KeyOf[tx[c].row])
  \/ tx[c].at \in {"retrying", "settling", "clearing"}

First(c, name) == HasTicket(c, name) /\ Holds(c, name)

(* c waits for what d has. *)
WaitsFor(c, d) ==
  \/ tx[c].at = "queued" /\ First(d, KeyOf[tx[c].row])
  \/ tx[c].at = "awaitsType" /\ First(d, ReadMutex(c))
  \/ tx[c].at \in InCacheCall /\ d = Head(cacheQueue)

GoesOn(c) == Ready(c) \/ \E d \in Callers : WaitsFor(c, d) /\ Ready(d)
GoesOnLater(c) == Ready(c) \/ \E d \in Callers : WaitsFor(c, d) /\ GoesOn(d)

NoDeadlock ==
  \A c \in Callers : tx[c].at \notin {"idle", "done"} =>
    Ready(c) \/ \E d \in Callers : WaitsFor(c, d) /\ GoesOnLater(d)

(* A set of numbers that is not empty has a smallest. *)
LEMMA SmallestIsFirst ==
  ASSUME NEW T, T \subseteq Nat, T # {}
  PROVE  \E m \in T : \A n \in T : m <= n
<1>. DEFINE R == OpToRel(<, Nat)
<1>1. IsWellFoundedOn(R, Nat)
  BY NatLessThanWellFounded, Zenon
<1>2. \A x, y \in Nat : x < y => <<x, y>> \in R
  BY DEF OpToRel
<1>. HIDE DEF R
<1>3. PICK m \in T : \A n \in T : ~(<<n, m>> \in R)
  BY <1>1, WFMin
<1>4. \A n \in T : ~(n < m)
  BY <1>2, <1>3
<1>. QED BY <1>3, <1>4

(* Somebody holds a mutex that has a queue. *)
LEMMA SomebodyHolds ==
  ASSUME KeysTypes, TicketsOnce, NEW c, NEW name, HasTicket(c, name)
  PROVE  \E d \in Callers : First(d, name)
<1>. DEFINE T == {i \in DOMAIN tickets : tickets[i].name = name}
<1>1. /\ DOMAIN tickets = 1..Len(tickets) /\ Len(tickets) \in Nat
      /\ \A i \in DOMAIN tickets : tickets[i] \in Tickets
  BY DEF KeysTypes
<1>2. T \subseteq Nat /\ T # {}
  BY <1>1 DEF HasTicket
<1>3. PICK m \in T : \A n \in T : m <= n
  BY <1>2, SmallestIsFirst
<1>4. tickets[m].by \in Callers /\ m \in DOMAIN tickets /\ tickets[m].name = name
  BY <1>1, <1>3 DEF Tickets
<1>5. \A j \in 1..(m - 1) : tickets[j].name # name
  BY <1>1, <1>3, <1>4
<1>6. HasTicket(tickets[m].by, name)
  BY <1>4 DEF HasTicket
<1>7. Holds(tickets[m].by, name)
  BY <1>4, <1>5 DEF Holds, TicketsOnce
<1>. QED BY <1>4, <1>6, <1>7 DEF First

(* Whoever waits for the cache waits for somebody who can go on, ... *)
LEMMA CacheGoesOn ==
  ASSUME KeysIInv, PlacesIInv, NEW c \in Callers, tx[c].at \in InCacheCall
  PROVE  GoesOn(c)
<1>1. PICK d \in Callers : d = Head(cacheQueue) /\ tx[d].at \in InCacheCall
  <2>1. cacheQueue \in Seq(Callers) /\ cacheQueue # <<>>
    BY DEF KeysIInv, KeysTypes, QueueMatches
  <2>2. Head(cacheQueue) \in Callers /\ 1 \in DOMAIN cacheQueue /\ Head(cacheQueue) = cacheQueue[1]
    BY <2>1
  <2>. QED BY <2>2 DEF PlacesIInv, QueueOnce
<1>2. Ready(d)
  <2>1. tx[d].at = "reading" => HasTicket(d, ReadMutex(d))
    BY DEF PlacesIInv, TypeTickets, AtType, ReadMutex
  <2>2. tx[d].at = "committing" => HasTicket(d, KeyOf[tx[d].row])
    BY DEF KeysIInv, TicketsMatch, HasTicket, InTransaction, AtWork
  <2>. QED BY <1>1, <2>1, <2>2 DEF Ready, CacheTurn, InCacheCall, Reading
<1>. QED BY <1>1, <1>2 DEF GoesOn, WaitsFor

(* ... whoever waits for a type's mutex for one who reads or is about to,  *)
LEMMA TypeGoesOn ==
  ASSUME KeysIInv, PlacesIInv, NEW c \in Callers, tx[c].at = "awaitsType"
  PROVE  GoesOnLater(c)
<1>1. PICK row \in Rows : row = tx[c].row
  BY ContextFields DEF KeysIInv
<1>2. HasTicket(c, row)
  BY <1>1 DEF PlacesIInv, TypeTickets, AtType
<1>3. PICK d \in Callers : First(d, row)
  BY <1>2, SomebodyHolds DEF KeysIInv, PlacesIInv
<1>4. tx[d].at \in AtType /\ tx[d].row = row
  BY <1>1, <1>3 DEF First, HasTicket, PlacesIInv, TypeTickets
<1>5. CASE tx[d].at = "awaitsType"
  <2>1. Ready(d)
    BY <1>3, <1>4, <1>5 DEF Ready, First, ReadMutex
  <2>. QED BY <1>1, <1>3, <2>1 DEF GoesOnLater, GoesOn, WaitsFor, ReadMutex
<1>6. CASE tx[d].at = "reading"
  <2>1. GoesOn(d)
    BY <1>6, CacheGoesOn DEF InCacheCall, Reading
  <2>. QED BY <1>1, <1>3, <2>1 DEF GoesOnLater, WaitsFor, ReadMutex
<1>. QED BY <1>4, <1>5, <1>6 DEF AtType

(* ... and whoever waits for a key's mutex for a transaction under way.    *)
LEMMA TransactionGoesOn ==
  ASSUME KeysIInv, PlacesIInv, NEW c \in Callers, tx[c].at \in AtWork
  PROVE  GoesOnLater(c)
<1>1. CASE tx[c].at = "working"
  <2>1. HasTicket(c, KeyOf[tx[c].row])
    BY <1>1 DEF KeysIInv, TicketsMatch, HasTicket, InTransaction, AtWork
  <2>. QED BY <1>1, <2>1 DEF GoesOnLater, Ready
<1>2. CASE tx[c].at = "retrying"
  BY <1>2 DEF GoesOnLater, Ready
<1>3. CASE tx[c].at = "awaitsType"
  BY <1>3, TypeGoesOn
<1>4. CASE tx[c].at \in {"reading", "committing"}
  <2>1. PICK d \in Callers : Ready(c) \/ (WaitsFor(c, d) /\ Ready(d))
    BY <1>4, CacheGoesOn DEF GoesOn, InCacheCall, Reading
  <2>. QED BY <2>1 DEF GoesOnLater, GoesOn
<1>. QED BY <1>1, <1>2, <1>3, <1>4 DEF AtWork

(* No caller waits for ever, whatever the number of callers, rows and      *)
(* keys: one that cannot go on waits for the holder of a key's mutex, this *)
(* for the holder of a type's mutex, this for the holder of the cache, and *)
(* one of these can go on.  Nobody waits the other way round: inside the   *)
(* cache no mutex is taken, and at a type's mutex no key's                 *)
(* (auth-utils.ts, transaction, get, makeCacheableSignalKeyStore).         *)
THEOREM CallersNeverDeadlock == KeysSpec => []NoDeadlock
<1>1. KeysIInv /\ PlacesIInv => NoDeadlock
  <2>. SUFFICES ASSUME KeysIInv, PlacesIInv, NEW c \in Callers, tx[c].at \notin {"idle", "done"}
                PROVE  Ready(c) \/ \E d \in Callers : WaitsFor(c, d) /\ GoesOnLater(d)
    BY DEF NoDeadlock
  <2>1. tx[c].at \in States
    BY ContextFields DEF KeysIInv
  <2>2. CASE tx[c].at = "queued"
    <3>1. PICK key : key = KeyOf[tx[c].row] /\ key \notin Rows
      BY ContextFields DEF KeysIInv
    <3>2. HasTicket(c, key)
      BY <2>2, <3>1 DEF KeysIInv, TicketsMatch, HasTicket, InTransaction
    <3>3. PICK d \in Callers : First(d, key)
      BY <3>2, SomebodyHolds DEF KeysIInv, PlacesIInv
    <3>4. tx[d].at \in InTransaction /\ key = KeyOf[tx[d].row]
      BY <3>1, <3>3 DEF First, HasTicket, KeysIInv, TicketsMatch
    <3>5. GoesOnLater(d)
      <4>1. CASE tx[d].at = "queued"
        BY <3>3, <3>4, <4>1 DEF GoesOnLater, Ready, First
      <4>2. CASE tx[d].at # "queued"
        BY <3>4, <4>2, TransactionGoesOn DEF InTransaction
      <4>. QED BY <4>1, <4>2
    <3>. QED BY <2>2, <3>1, <3>3, <3>5 DEF WaitsFor
  <2>3. CASE tx[c].at \in AtWork
    <3>1. PICK d \in Callers : Ready(c) \/ (WaitsFor(c, d) /\ GoesOn(d))
      BY <2>3, TransactionGoesOn DEF GoesOnLater
    <3>. QED BY <3>1 DEF GoesOnLater, GoesOn
  <2>4. CASE tx[c].at = "getting"
    <3>1. PICK d \in Callers : Ready(c) \/ (WaitsFor(c, d) /\ Ready(d))
      BY <2>4, CacheGoesOn DEF GoesOn, InCacheCall, Reading
    <3>. QED BY <3>1 DEF GoesOnLater, GoesOn
  <2>5. CASE tx[c].at \in {"settling", "clearing"}
    BY <2>5 DEF Ready
  <2>. QED BY <2>1, <2>2, <2>3, <2>4, <2>5 DEF States, InTransaction, InCacheCall, Reading, AtWork
<1>. QED BY KeysInvariance, PlacesInvariance, <1>1, PTL
=============================================================================
