------------------------ MODULE ClientRegistryProofs ------------------------
(***************************************************************************)
(* Proofs about ClientRegistry, for any number of clients, broadcasting    *)
(* threads, slots and descriptors: the client table is consistent, nobody  *)
(* uses a descriptor number that was closed or given to somebody else, and *)
(* the table with broadcast_msg implements EventBus.                       *)
(***************************************************************************)
EXTENDS ClientRegistry, FiniteSetTheorems, SequenceTheorems, TLAPS

(* A connection is waiting, or names a descriptor, and waits once.         *)
BacklogNew ==
    /\ \A i, j \in DOMAIN backlog : backlog[i] = backlog[j] => i = j
    /\ \A i \in DOMAIN backlog : \A f \in Fd : file[f] # backlog[i]

(* Between accept and the end of an iteration cfd is a connection without  *)
(* a handler.                                                              *)
MainOwnsFd ==
    /\ mfd \in Fd <=> mpc \in {"register", "create", "rollback", "close"}
    /\ mfd \in Fd => file[mfd] \in Client /\ hpc[file[mfd]] = "none"

(* A handler has a descriptor while it exists, and it names its client.    *)
HandlersOwnFd ==
    \A c \in Client : IF hpc[c] = "none" THEN hfd[c] = NoFd
                                         ELSE hfd[c] \in Fd /\ file[hfd[c]] = c

(* Copies are open, are nobody else's, and name different clients.         *)
CopiesOwned ==
    \A b \in Caster : \A i \in DOMAIN copies[b] :
       /\ file[copies[b][i]] \in Client
       /\ copies[b][i] # mfd
       /\ \A c \in Client : copies[b][i] # hfd[c]
       /\ \A d \in Caster : \A j \in DOMAIN copies[d] :
             copies[b][i] = copies[d][j] => b = d /\ i = j
       /\ \A j \in DOMAIN copies[b] :
             file[copies[b][i]] = file[copies[b][j]] => i = j

CopiesBounded ==
    \A b \in Caster : /\ Len(copies[b]) <= MaxClients
                      /\ bpc[b] = "idle" <=> copies[b] = <<>>

Types ==
    /\ up \subseteq Client
    /\ backlog \in Seq(Client)
    /\ file \in [Fd -> Client \cup {NoClient}]
    /\ slots \in [Slot -> Fd \cup {NoFd}]
    /\ mpc \in {"load", "listen", "fork", "hardware", "workers", "exited",
                "accept", "register", "create", "rollback", "close"}
    /\ mfd \in Fd \cup {NoFd}
    /\ hpc \in [Client -> {"none", "recv", "reply", "clear", "close"}]
    /\ hfd \in [Client -> Fd \cup {NoFd}]
    /\ bpc \in [Caster -> {"idle", "send", "close"}]
    /\ copies \in [Caster -> Seq(Fd)]

IInv == /\ Types /\ BacklogNew /\ MainOwnsFd /\ HandlersOwnFd
        /\ CopiesOwned /\ CopiesBounded
        /\ SlotsNameOpenClients /\ CountMatches
-----------------------------------------------------------------------------
(* The operators.                                                          *)

LEMMA NthElement ==
  ASSUME NEW S \in SUBSET Nat, IsFiniteSet(S), NEW n \in 1..Cardinality(S)
  PROVE  Nth(S, n) \in S /\ Cardinality({j \in S : j <= Nth(S, n)}) = n
<1> DEFINE upto(i) == {j \in S : j <= i}
           rank == [i \in S |-> Cardinality(upto(i))]
           N == Cardinality(S)
<1>0. \A i \in S : i \in Nat
  OBVIOUS
<1>1. N \in Nat /\ IsFiniteSet(1..N) /\ Cardinality(1..N) = N
  BY FS_CardinalityType, FS_Interval
<1>2. ASSUME NEW i \in S
      PROVE  IsFiniteSet(upto(i)) /\ Cardinality(upto(i)) \in 1..N
  <2>1. upto(i) \in SUBSET S /\ i \in upto(i)
    BY <1>0
  <2>2. IsFiniteSet(upto(i)) /\ Cardinality(upto(i)) <= N
    BY <2>1, FS_Subset
  <2>3. Cardinality(upto(i)) \in Nat /\ Cardinality(upto(i)) # 0
    BY <2>1, <2>2, FS_CardinalityType, FS_EmptySet
  <2> QED
    BY <1>1, <2>2, <2>3
<1>3. ASSUME NEW i \in S, NEW k \in S, i < k
      PROVE  Cardinality(upto(i)) # Cardinality(upto(k))
  <2>1. upto(i) \in SUBSET upto(k) /\ k \in upto(k) /\ k \notin upto(i)
    <3>1. i \in Nat /\ k \in Nat
      BY <1>0
    <3>2. \A j \in S : j <= i => j <= k
      BY <1>0, <1>3, <3>1
    <3>3. k <= k /\ ~(k <= i)
      BY <1>3, <3>1
    <3> QED
      BY <3>2, <3>3
  <2>2. IsFiniteSet(upto(k))
    BY <1>2
  <2>3. upto(i) # upto(k)
    BY <2>1
  <2> HIDE DEF upto
  <2> QED
    BY <2>1, <2>2, <2>3, FS_Subset
<1>4. rank \in Injection(S, 1..N)
  <2>1. rank \in [S -> 1..N]
    BY <1>2
  <2>2. \A i, k \in S : rank[i] = rank[k] => i = k
    <3> TAKE i, k \in S
    <3>1. i < k \/ k < i \/ i = k
      BY <1>0
    <3>2. rank[i] = Cardinality(upto(i)) /\ rank[k] = Cardinality(upto(k))
      OBVIOUS
    <3> HIDE DEF upto, rank
    <3> QED
      BY <3>1, <3>2, <1>3
  <2> HIDE DEF rank
  <2> QED
    BY <2>1, <2>2 DEF Injection, IsInjective
<1>5. rank \in Surjection(S, 1..N)
  <2> HIDE DEF rank, N
  <2> QED
    BY <1>1, <1>4, FS_Injection DEF N
<1>6. \E i \in S : rank[i] = n
  <2> HIDE DEF rank
  <2> QED
    BY <1>5 DEF Surjection
<1>7. \E i \in S : Cardinality({j \in S : j <= i}) = n
  BY <1>6
<1> QED
  BY <1>7 DEF Nth

(* Different places, different elements. *)
LEMMA NthInjective ==
  ASSUME NEW S \in SUBSET Nat, IsFiniteSet(S),
         NEW m \in 1..Cardinality(S), NEW n \in 1..Cardinality(S), Nth(S, m) = Nth(S, n)
  PROVE  m = n
<1>1. /\ Cardinality({j \in S : j <= Nth(S, m)}) = m
      /\ Cardinality({j \in S : j <= Nth(S, n)}) = n
  BY NthElement
<1> QED
  BY <1>1

LEMMA FirstElement ==
  ASSUME NEW S \in SUBSET Nat, IsFiniteSet(S), S # {}
  PROVE  First(S) \in S
<1>1. Cardinality(S) \in Nat /\ Cardinality(S) # 0
  BY FS_CardinalityType, FS_EmptySet
<1>2. 1 \in 1..Cardinality(S)
  BY <1>1
<1> QED
  BY <1>2, NthElement DEF First

(* Slots and descriptors are finitely many. *)
LEMMA Finite ==
  /\ Fd \in SUBSET Nat /\ IsFiniteSet(Fd)
  /\ Slot \in SUBSET Nat /\ IsFiniteSet(Slot) /\ Cardinality(Slot) = MaxClients
  /\ Closed \in SUBSET Fd /\ IsFiniteSet(Closed) /\ Cardinality(Closed) \in Nat
  /\ Empty \in SUBSET Slot /\ IsFiniteSet(Empty)
  /\ IsFiniteSet(Slot \ Empty) /\ Cardinality(Slot \ Empty) \in 0..MaxClients
<1>1. Fd \in SUBSET Nat /\ Slot \in SUBSET Nat /\ MaxClients \in Nat /\ NFds \in Nat
  BY RegistryAssumption DEF Fd, Slot
<1>2. IsFiniteSet(Fd) /\ IsFiniteSet(Slot) /\ Cardinality(Slot) = MaxClients
  BY <1>1, FS_Interval, RegistryAssumption DEF Fd, Slot
<1>3. Closed \in SUBSET Fd /\ Empty \in SUBSET Slot
  BY DEF Closed, Empty
<1>4. Slot \ Empty \in SUBSET Slot
  OBVIOUS
<1>5. /\ IsFiniteSet(Closed) /\ IsFiniteSet(Empty)
      /\ IsFiniteSet(Slot \ Empty) /\ Cardinality(Slot \ Empty) <= MaxClients
  BY <1>2, <1>3, <1>4, FS_Subset
<1> QED
  BY <1>1, <1>2, <1>3, <1>5, FS_CardinalityType

(* What is in a slot is an open descriptor, the same in no two slots, of   *)
(* different clients, and no copy.                                         *)
LEMMA SlotFacts ==
  ASSUME IInv
  PROVE  \A i \in Slot \ Empty :
            /\ slots[i] \in Fd /\ file[slots[i]] \in Client
            /\ \A j \in Slot \ Empty : file[slots[i]] = file[slots[j]] => i = j
            /\ \A b \in Caster : \A k \in DOMAIN copies[b] : copies[b][k] # slots[i]
<1> USE DEF IInv
<1>1. \A i \in Slot \ Empty : slots[i] \in Fd
  BY DEF Empty, Types
<1>2. \A i \in Slot \ Empty :
         \/ slots[i] = mfd /\ mfd \in Fd
         \/ \E c \in Client : /\ hpc[c] \in {"recv", "reply", "clear"}
                              /\ hfd[c] = slots[i] /\ file[slots[i]] = c
  BY <1>1 DEF SlotsNameOpenClients
<1>3. \A i \in Slot \ Empty : file[slots[i]] \in Client
  BY <1>2 DEF MainOwnsFd
<1>4. \A i, j \in Slot \ Empty : file[slots[i]] = file[slots[j]] => slots[i] = slots[j]
  BY <1>2 DEF MainOwnsFd, HandlersOwnFd
<1>5. \A i, j \in Slot \ Empty : file[slots[i]] = file[slots[j]] => i = j
  BY <1>4 DEF SlotsNameOpenClients
<1>6. \A i \in Slot \ Empty : \A b \in Caster : \A k \in DOMAIN copies[b] :
         copies[b][k] # slots[i]
  BY <1>2 DEF CopiesOwned
<1> QED
  BY <1>1, <1>3, <1>5, <1>6

(* The accept loop takes an empty slot and counts it. *)
LEMMA TakeSlot ==
  ASSUME Types, CountMatches, Empty # {}, mfd \in Fd,
         slots' = [slots EXCEPT ![First(Empty)] = mfd], nClients' = nClients + 1
  PROVE  /\ CountMatches' /\ nClients < MaxClients
         /\ First(Empty) \in Empty /\ slots' \in [Slot -> Fd \cup {NoFd}]
         /\ (Slot \ Empty)' = (Slot \ Empty) \cup {First(Empty)}
         /\ \A i \in Slot : slots'[i] = IF i = First(Empty) THEN mfd ELSE slots[i]
<1>1. Empty \in SUBSET Nat /\ IsFiniteSet(Empty) /\ Empty \in SUBSET Slot
  BY Finite
<1>2. First(Empty) \in Empty
  BY <1>1, FirstElement
<1>3. \A i \in Slot : slots'[i] = IF i = First(Empty) THEN mfd ELSE slots[i]
  BY DEF Types
<1>4. (Slot \ Empty)' = (Slot \ Empty) \cup {First(Empty)}
  BY <1>1, <1>2, <1>3, RegistryAssumption DEF Empty, Slot
<1>5. /\ Cardinality((Slot \ Empty) \cup {First(Empty)}) = Cardinality(Slot \ Empty) + 1
      /\ IsFiniteSet((Slot \ Empty) \cup {First(Empty)})
  BY <1>2, Finite, FS_AddElement
<1>6. (Slot \ Empty) \cup {First(Empty)} \in SUBSET Slot
  BY <1>1, <1>2
<1>7. Cardinality((Slot \ Empty) \cup {First(Empty)}) <= MaxClients
  BY <1>6, Finite, FS_Subset
<1>8. CountMatches'
  BY <1>4, <1>5 DEF CountMatches
<1>9. nClients < MaxClients
  BY <1>5, <1>7, Finite, RegistryAssumption DEF CountMatches
<1>10. slots' \in [Slot -> Fd \cup {NoFd}]
  BY DEF Types
<1> QED
  BY <1>2, <1>3, <1>4, <1>8, <1>9, <1>10

(* Unregister empties the slot of a descriptor, if it has one, and keeps   *)
(* the count.                                                              *)
LEMMA GiveSlotBack ==
  ASSUME Types, SlotsNameOpenClients, CountMatches, NEW f \in Fd, Unregister(f)
  PROVE  /\ CountMatches' /\ slots' \in [Slot -> Fd \cup {NoFd}]
         /\ (Slot \ Empty)' = {i \in Slot \ Empty : slots[i] # f}
         /\ \A i \in Slot : slots'[i] = IF slots[i] = f THEN NoFd ELSE slots[i]
<1> DEFINE S == {i \in Slot : slots[i] = f}
<1>1. S \in SUBSET Slot /\ IsFiniteSet(S) /\ S \in SUBSET Nat
  <2>1. S \in SUBSET Slot
    OBVIOUS
  <2> QED
    BY <2>1, Finite, FS_Subset
<1>2. CASE S = {}
  <2>1. UNCHANGED tableVars
    BY <1>2 DEF Unregister
  <2>2. UNCHANGED <<slots, nClients>>
    BY <2>1 DEF tableVars
  <2> QED
    BY <1>2, <2>2 DEF Empty, CountMatches, Types
<1>3. CASE S # {}
  <2>1. First(S) \in S
    BY <1>1, <1>3, FirstElement
  <2>2. slots' = [slots EXCEPT ![First(S)] = NoFd] /\ nClients' = nClients - 1
    BY <1>3 DEF Unregister
  <2>3. \A i \in S : i = First(S)
    <3>1. S \in SUBSET (Slot \ Empty)
      BY RegistryAssumption DEF Empty
    <3> QED
      BY <2>1, <3>1 DEF SlotsNameOpenClients
  <2> HIDE DEF S
  <2>4. \A i \in Slot : slots'[i] = IF slots[i] = f THEN NoFd ELSE slots[i]
    BY <2>1, <2>2, <2>3 DEF Types, S
  <2>5. (Slot \ Empty)' = (Slot \ Empty) \ {First(S)}
    BY <2>1, <2>2, RegistryAssumption DEF Empty, Types, Slot, S
  <2>6. First(S) \in Slot \ Empty
    BY <2>1, RegistryAssumption DEF Empty, S
  <2>7. Cardinality((Slot \ Empty) \ {First(S)}) = Cardinality(Slot \ Empty) - 1
    BY <2>6, Finite, FS_RemoveElement, ZenonT(30)
  <2>8. CountMatches'
    BY <2>2, <2>5, <2>7 DEF CountMatches
  <2>9. slots' \in [Slot -> Fd \cup {NoFd}]
    BY <2>2 DEF Types
  <2>10. (Slot \ Empty)' = {i \in Slot \ Empty : slots[i] # f}
    BY <2>1, <2>3, <2>5 DEF S
  <2> QED
    BY <2>4, <2>8, <2>9, <2>10
<1> QED
  BY <1>2, <1>3

(* accept hands out a closed descriptor. *)
LEMMA NewFdClosed ==
  ASSUME NEW n \in 1..Cardinality(Closed)
  PROVE  NewFd(n) \in Closed
BY Finite, NthElement DEF NewFd

(* What a broadcast does: closed descriptors become copies of different    *)
(* registered ones, and nothing else changes in the descriptor table.      *)
LEMMA BroadcastCopies ==
  ASSUME IInv, NEW b \in Caster, Broadcast(b)
  PROVE  \E n \in 0..MaxClients : \E cs \in [1..n -> Closed] : \E us \in [1..n -> Slot \ Empty] :
            /\ \A i, j \in 1..n : cs[i] = cs[j] => i = j
            /\ \A i, j \in 1..n : us[i] = us[j] => i = j
            /\ copies' = [copies EXCEPT ![b] = cs]
            /\ bpc' = [bpc EXCEPT ![b] = AfterCopy(cs)]
            /\ file' \in [Fd -> Client \cup {NoClient}]
            /\ \A i \in 1..n : file'[cs[i]] = file[slots[us[i]]]
            /\ \A f \in Fd : (\A i \in 1..n : cs[i] # f) => file'[f] = file[f]
<1> DEFINE N == Cardinality(Slot \ Empty)
           M == Cardinality(Closed)
           n == IF Len(Used) <= M THEN Len(Used) ELSE M
           cs == [i \in 1..n |-> NewFd(i)]
           us == [i \in 1..n |-> Nth(Slot \ Empty, i)]
<1>1. N \in 0..MaxClients /\ M \in Nat /\ MaxClients \in Nat
  BY Finite, RegistryAssumption
<1>2. Len(Used) = N
  <2> HIDE DEF N
  <2>1. Used = [i \in 1..N |-> slots[Nth(Slot \ Empty, i)]]
    BY DEF Used, N
  <2> QED
    BY <1>1, <2>1
<1>3. n \in 0..MaxClients /\ n <= N /\ n <= M
  BY <1>1, <1>2
<1>4. \A i \in 1..n : i \in 1..N /\ i \in 1..M
  BY <1>1, <1>3
<1>5. cs \in [1..n -> Closed]
  BY <1>4, NewFdClosed
<1>6. us \in [1..n -> Slot \ Empty]
  BY <1>4, Finite, NthElement
<1>7. \A i, j \in 1..n : cs[i] = cs[j] => i = j
  <2> TAKE i, j \in 1..n
  <2>1. cs[i] = Nth(Closed, i) /\ cs[j] = Nth(Closed, j)
    BY DEF NewFd
  <2>2. i \in 1..M /\ j \in 1..M /\ Closed \in SUBSET Nat /\ IsFiniteSet(Closed)
    BY <1>4, Finite
  <2> QED
    BY <2>1, <2>2, NthInjective
<1>8. \A i, j \in 1..n : us[i] = us[j] => i = j
  <2> TAKE i, j \in 1..n
  <2>1. us[i] = Nth(Slot \ Empty, i) /\ us[j] = Nth(Slot \ Empty, j)
    OBVIOUS
  <2>2. i \in 1..N /\ j \in 1..N /\ Slot \ Empty \in SUBSET Nat /\ IsFiniteSet(Slot \ Empty)
    BY <1>4, Finite
  <2> QED
    BY <2>1, <2>2, NthInjective
<1>9. \A i \in 1..n : Used[i] = slots[us[i]]
  BY <1>4 DEF Used
<1>10. /\ copies' = [copies EXCEPT ![b] = cs]
       /\ bpc' = [bpc EXCEPT ![b] = AfterCopy(cs)]
       /\ file' = [f \in Fd |-> IF \E i \in 1..n : cs[i] = f
                                THEN file[Used[CHOOSE i \in 1..n : cs[i] = f]]
                                ELSE file[f]]
  BY DEF Broadcast
<1> HIDE DEF n, cs, us
<1>11. \A i \in 1..n : (CHOOSE j \in 1..n : cs[j] = cs[i]) = i
  BY <1>7
<1>12. \A i \in 1..n : file'[cs[i]] = file[slots[us[i]]]
  <2> TAKE i \in 1..n
  <2>1. cs[i] \in Fd
    BY <1>5, Finite
  <2>2. file'[cs[i]] = file[Used[CHOOSE j \in 1..n : cs[j] = cs[i]]]
    BY <1>10, <2>1
  <2> QED
    BY <1>9, <1>11, <2>2
<1>13. \A f \in Fd : (\A i \in 1..n : cs[i] # f) => file'[f] = file[f]
  BY <1>10
<1>14. file' \in [Fd -> Client \cup {NoClient}]
  <2>1. \A f \in Fd : file'[f] \in Client \cup {NoClient}
    <3> TAKE f \in Fd
    <3>1. CASE \E i \in 1..n : cs[i] = f
      BY <1>6, <1>12, <3>1, SlotFacts
    <3>2. CASE \A i \in 1..n : cs[i] # f
      BY <1>13, <3>2 DEF IInv, Types
    <3> QED
      BY <3>1, <3>2
  <2>2. file' = [f \in Fd |-> file'[f]]
    BY <1>10
  <2> QED
    BY <2>1, <2>2
<1>15. n \in 0..MaxClients
  BY <1>3
<1> WITNESS n \in 0..MaxClients
<1> WITNESS cs \in [1..n -> Closed]
<1> WITNESS us \in [1..n -> Slot \ Empty]
<1> QED
  BY <1>7, <1>8, <1>10, <1>12, <1>13, <1>14
-----------------------------------------------------------------------------
(* The invariant. *)

LEMMA InitInv == Init => IInv
<1> SUFFICES ASSUME Init PROVE IInv
  OBVIOUS
<1>1. Slot \ Empty = {}
  BY DEF Init, Empty
<1>2. CountMatches
  BY <1>1, FS_EmptySet DEF Init, CountMatches
<1>3. SlotsNameOpenClients
  BY <1>1 DEF SlotsNameOpenClients
<1>4. Types
  BY DEF Init, Types
<1>5. BacklogNew /\ MainOwnsFd /\ HandlersOwnFd
  BY RegistryAssumption DEF Init, BacklogNew, MainOwnsFd, HandlersOwnFd
<1>6. CopiesOwned /\ CopiesBounded
  BY RegistryAssumption DEF Init, CopiesOwned, CopiesBounded
<1> QED
  BY <1>2, <1>3, <1>4, <1>5, <1>6 DEF IInv

(* Steps that leave descriptors, table and copies alone. *)
LEMMA ClientSteps ==
  ASSUME IInv, NEW c \in Client, Connect(c) \/ HangUp(c)
  PROVE  IInv'
<1> USE DEF clientVars, tableVars, mainVars, handlerVars, casterVars
<1>1. CASE Connect(c)
  <2> USE DEF Connect
  <2>1. Types'
    BY <1>1, AppendProperties DEF IInv, Types
  <2>2. BacklogNew'
    <3>1. backlog \in Seq(Client) /\ backlog' = Append(backlog, c)
      BY <1>1 DEF IInv, Types
    <3>2. /\ Len(backlog) \in Nat /\ DOMAIN backlog = 1..Len(backlog)
          /\ DOMAIN backlog' = 1..(Len(backlog) + 1)
          /\ \A i \in 1..Len(backlog) : backlog'[i] = backlog[i]
          /\ backlog'[Len(backlog) + 1] = c
      BY <3>1, AppendProperties, LenProperties
    <3>3. \A i \in DOMAIN backlog' : i \in DOMAIN backlog \/ i = Len(backlog) + 1
      BY <3>2
    <3>4. \A i \in DOMAIN backlog : backlog[i] # c
      BY <1>1 DEF Waiting
    <3> QED
      BY <1>1, <3>2, <3>3, <3>4 DEF IInv, BacklogNew
  <2>3. MainOwnsFd' /\ HandlersOwnFd'
    BY <1>1 DEF IInv, MainOwnsFd, HandlersOwnFd
  <2>4. CopiesOwned' /\ CopiesBounded'
    BY <1>1 DEF IInv, CopiesOwned, CopiesBounded
  <2>5. SlotsNameOpenClients' /\ CountMatches'
    BY <1>1 DEF IInv, SlotsNameOpenClients, CountMatches, Empty
  <2> QED
    BY <2>1, <2>2, <2>3, <2>4, <2>5 DEF IInv
<1>2. CASE HangUp(c)
  BY <1>2 DEF HangUp, IInv, Types, BacklogNew, MainOwnsFd, HandlersOwnFd, CopiesOwned,
              CopiesBounded, SlotsNameOpenClients, CountMatches, Empty
<1> QED
  BY <1>1, <1>2

LEMMA StartupSteps ==
  ASSUME IInv, Startup
  PROVE  IInv'
<1> USE DEF clientVars, tableVars, mainVars, handlerVars, casterVars
<1>1. PICK from \in {"load", "listen", "fork", "hardware", "workers"},
           to \in {"listen", "fork", "hardware", "workers", "accept"} : Stage(from, to)
  BY DEF Startup, LoadLibraries, SetupServer, Daemonize, InitializeHardware, StartWorkers
<1> USE <1>1 DEF Stage, IInv
<1>2. mpc' \in {"listen", "fork", "hardware", "workers", "accept", "exited"}
  OBVIOUS
<1>3. backlog' \in {<<>>, backlog}
  OBVIOUS
<1>4. Types' /\ BacklogNew'
  BY <1>2, <1>3 DEF Types, BacklogNew
<1>5. MainOwnsFd' /\ HandlersOwnFd'
  BY <1>2 DEF MainOwnsFd, HandlersOwnFd
<1>6. CopiesOwned' /\ CopiesBounded'
  BY DEF CopiesOwned, CopiesBounded
<1>7. SlotsNameOpenClients' /\ CountMatches'
  BY DEF SlotsNameOpenClients, CountMatches, Empty
<1> QED
  BY <1>4, <1>5, <1>6, <1>7

LEMMA AcceptStep ==
  ASSUME IInv, Accept
  PROVE  IInv'
<1> USE DEF Accept, IInv, clientVars, tableVars, mainVars, handlerVars, casterVars
<1> DEFINE f == NewFd(1)
           c == Head(backlog)
<1>1. f \in Fd /\ file[f] = NoClient
  <2>1. 1 \in 1..Cardinality(Closed)
    BY Finite, FS_EmptySet
  <2>2. f \in Closed
    BY <2>1, NewFdClosed
  <2> QED
    BY <2>2 DEF Closed
<1>2. /\ c \in Client /\ backlog' \in Seq(Client)
      /\ c = backlog[1] /\ 1 \in DOMAIN backlog
      /\ \A i \in DOMAIN backlog' : i + 1 \in DOMAIN backlog /\ backlog'[i] = backlog[i + 1] /\ i + 1 # 1
  BY HeadTailProperties, LenProperties, EmptySeq DEF Types
<1> HIDE DEF f, c
<1>3. /\ file' = [file EXCEPT ![f] = c] /\ mfd' = f /\ mpc' \in {"register", "close"}
      /\ mpc = "accept" /\ UNCHANGED <<slots, nClients, hpc, hfd, bpc, copies, up>>
  BY DEF f, c
<1>4. /\ \A g \in Fd : g # f => file'[g] = file[g]
      /\ file'[f] = c /\ c # NoClient
  BY <1>1, <1>2, <1>3, RegistryAssumption DEF Types
<1>5. \A g \in Fd : file[g] # c
  BY <1>2 DEF BacklogNew
<1>6. Types'
  BY <1>1, <1>2, <1>3 DEF Types
<1>7. BacklogNew'
  BY <1>2, <1>4 DEF BacklogNew
<1>8. mfd = NoFd
  BY <1>3 DEF MainOwnsFd, Types
<1>9. MainOwnsFd'
  BY <1>1, <1>2, <1>3, <1>4, <1>5 DEF MainOwnsFd, HandlersOwnFd
<1>10. \A d \in Client : hpc[d] # "none" => hfd[d] \in Fd /\ hfd[d] # f
  BY <1>1, RegistryAssumption DEF HandlersOwnFd
<1>11. HandlersOwnFd'
  BY <1>3, <1>4, <1>10 DEF HandlersOwnFd
<1>12. \A b \in Caster : \A i \in DOMAIN copies[b] : copies[b][i] \in Fd /\ copies[b][i] # f
  BY <1>1, ElementOfSeq, LenProperties, RegistryAssumption DEF CopiesOwned, Types
<1>13. CopiesOwned' /\ CopiesBounded'
  BY <1>3, <1>4, <1>12 DEF CopiesOwned, CopiesBounded
<1>14. CountMatches'
  BY <1>3 DEF CountMatches, Empty
<1>15. SlotsNameOpenClients'
  BY <1>3, <1>4, <1>8, <1>10 DEF SlotsNameOpenClients, Empty
<1> QED
  BY <1>6, <1>7, <1>9, <1>11, <1>13, <1>14, <1>15

LEMMA RegisterStep ==
  ASSUME IInv, Register
  PROVE  IInv'
<1> USE DEF Register, IInv, clientVars, tableVars, mainVars, handlerVars, casterVars
<1>1. mfd \in Fd /\ mpc = "register" /\ mpc' \in {"create", "close"}
  BY DEF MainOwnsFd
<1>2. BacklogNew' /\ MainOwnsFd' /\ HandlersOwnFd' /\ CopiesOwned' /\ CopiesBounded'
  BY <1>1 DEF BacklogNew, MainOwnsFd, HandlersOwnFd, CopiesOwned, CopiesBounded
<1>3. CASE Empty # {} /\ mpc' = "create"
  <2>1. slots' = [slots EXCEPT ![First(Empty)] = mfd] /\ nClients' = nClients + 1
    BY <1>3
  <2>2. /\ CountMatches'
        /\ First(Empty) \in Empty /\ slots' \in [Slot -> Fd \cup {NoFd}]
        /\ (Slot \ Empty)' = (Slot \ Empty) \cup {First(Empty)}
        /\ \A i \in Slot : slots'[i] = IF i = First(Empty) THEN mfd ELSE slots[i]
    BY <1>1, <1>3, <2>1, TakeSlot
  <2>3. Types'
    BY <1>3, <2>2 DEF Types
  <2>4. \A i \in Slot \ Empty : slots[i] # mfd
    BY <1>1 DEF SlotsNameOpenClients, MainOwnsFd
  <2>5. SlotsNameOpenClients'
    BY <1>1, <1>3, <2>2, <2>4, RegistryAssumption DEF SlotsNameOpenClients, MainOwnsFd, Empty
  <2> QED
    BY <1>2, <2>2, <2>3, <2>5
<1>4. CASE mpc' = "close" /\ UNCHANGED tableVars
  <2>1. Types' /\ CountMatches'
    BY <1>4 DEF Types, CountMatches, Empty
  <2>2. SlotsNameOpenClients'
    BY <1>1, <1>4 DEF SlotsNameOpenClients, Empty
  <2> QED
    BY <1>2, <2>1, <2>2
<1> QED
  BY <1>3, <1>4

LEMMA CreateStep ==
  ASSUME IInv, Create
  PROVE  IInv'
<1> USE DEF Create, IInv, clientVars, tableVars, mainVars, handlerVars, casterVars
<1> DEFINE c == file[mfd]
<1>1. mfd \in Fd /\ mpc = "create" /\ c \in Client /\ hpc[c] = "none" /\ hfd[c] = NoFd
  BY DEF MainOwnsFd, HandlersOwnFd
<1>2. CountMatches'
  BY DEF CountMatches, Empty
<1>3. CASE mpc' = "rollback"
  BY <1>1, <1>2, <1>3 DEF Types, BacklogNew, MainOwnsFd, HandlersOwnFd, CopiesOwned,
        CopiesBounded, SlotsNameOpenClients, Empty
<1>4. CASE mpc' = "accept"
  <2>1. /\ \A d \in Client : /\ hpc'[d] = IF d = c THEN "recv" ELSE hpc[d]
                             /\ hfd'[d] = IF d = c THEN mfd ELSE hfd[d]
        /\ mfd' = NoFd
    BY <1>1, <1>4 DEF Types
  <2>2. Types'
    <3>1. /\ hpc' = [hpc EXCEPT ![c] = "recv"] /\ hfd' = [hfd EXCEPT ![c] = mfd]
          /\ UNCHANGED <<up, backlog, file, slots, bpc, copies>>
      BY <1>4
    <3> HIDE DEF c, Create
    <3> QED
      BY <1>1, <1>4, <2>1, <3>1 DEF Types
  <2>3. BacklogNew' /\ CopiesBounded'
    BY DEF BacklogNew, CopiesBounded
  <2>4. MainOwnsFd' /\ HandlersOwnFd'
    BY <1>1, <1>4, <2>1, RegistryAssumption DEF MainOwnsFd, HandlersOwnFd
  <2>5. CopiesOwned'
    <3>1. \A b \in Caster : \A i \in DOMAIN copies[b] : copies[b][i] \in Fd
      BY ElementOfSeq, LenProperties DEF Types
    <3> QED
      BY <2>1, <3>1, RegistryAssumption DEF CopiesOwned
  <2>6. SlotsNameOpenClients'
    BY <1>1, <1>4, <2>1 DEF SlotsNameOpenClients, Empty
  <2> QED
    BY <1>2, <2>2, <2>3, <2>4, <2>5, <2>6
<1> QED
  BY <1>3, <1>4

LEMMA RollbackStep ==
  ASSUME IInv, Rollback
  PROVE  IInv'
<1> USE DEF Rollback, IInv, clientVars, mainVars, handlerVars, casterVars
<1>1. mfd \in Fd /\ mpc = "rollback" /\ mpc' = "close"
  BY DEF MainOwnsFd
<1>2. BacklogNew' /\ MainOwnsFd' /\ HandlersOwnFd' /\ CopiesOwned' /\ CopiesBounded'
  BY <1>1 DEF BacklogNew, MainOwnsFd, HandlersOwnFd, CopiesOwned, CopiesBounded
<1>3. /\ CountMatches' /\ slots' \in [Slot -> Fd \cup {NoFd}]
      /\ (Slot \ Empty)' = {i \in Slot \ Empty : slots[i] # mfd}
      /\ \A i \in Slot : slots'[i] = IF slots[i] = mfd THEN NoFd ELSE slots[i]
  BY <1>1, GiveSlotBack
<1>4. Types'
  BY <1>1, <1>3 DEF Types
<1>5. SlotsNameOpenClients'
  BY <1>1, <1>3 DEF SlotsNameOpenClients
<1> QED
  BY <1>2, <1>3, <1>4, <1>5

LEMMA CloseNewStep ==
  ASSUME IInv, CloseNew
  PROVE  IInv'
<1> USE DEF CloseNew, Close, IInv, clientVars, tableVars, mainVars, handlerVars, casterVars
<1>1. /\ mfd \in Fd /\ mpc = "close" /\ mpc' = "accept" /\ mfd' = NoFd
      /\ file' = [file EXCEPT ![mfd] = NoClient]
      /\ \A f \in Fd : file'[f] = IF f = mfd THEN NoClient ELSE file[f]
  BY DEF MainOwnsFd, Types
<1>2. \A c \in Client : hpc[c] # "none" => hfd[c] \in Fd /\ hfd[c] # mfd
  BY <1>1 DEF MainOwnsFd, HandlersOwnFd
<1>3. \A b \in Caster : \A i \in DOMAIN copies[b] : copies[b][i] \in Fd /\ copies[b][i] # mfd
  BY ElementOfSeq, LenProperties DEF CopiesOwned, Types
<1>4. Types' /\ CountMatches'
  BY <1>1 DEF Types, CountMatches, Empty
<1>5. BacklogNew'
  <2>1. \A i \in DOMAIN backlog : backlog[i] # NoClient
    BY ElementOfSeq, LenProperties, RegistryAssumption DEF Types
  <2> QED
    BY <1>1, <2>1 DEF BacklogNew
<1>6. MainOwnsFd' /\ HandlersOwnFd'
  BY <1>1, <1>2, RegistryAssumption DEF MainOwnsFd, HandlersOwnFd
<1>7. CopiesOwned' /\ CopiesBounded'
  BY <1>1, <1>3, RegistryAssumption DEF CopiesOwned, CopiesBounded
<1>8. SlotsNameOpenClients'
  BY <1>1, <1>2 DEF SlotsNameOpenClients, Empty
<1> QED
  BY <1>4, <1>5, <1>6, <1>7, <1>8

LEMMA HandlerSteps ==
  ASSUME IInv, NEW c \in Client, Receive(c) \/ Reply(c) \/ Eof(c)
  PROVE  IInv'
<1> USE DEF Receive, Reply, Eof, HGoto, IInv,
            clientVars, tableVars, mainVars, handlerVars, casterVars
<1>1. /\ hpc[c] \in {"recv", "reply"} /\ hpc'[c] \in {"recv", "reply", "clear"}
      /\ hpc' \in [Client -> {"none", "recv", "reply", "clear", "close"}]
      /\ \A d \in Client : d # c => hpc'[d] = hpc[d]
      /\ UNCHANGED <<up, backlog, file, slots, nClients, mpc, mfd, hfd, bpc, copies>>
  BY DEF Types
<1>2. Types' /\ CountMatches'
  BY <1>1 DEF Types, CountMatches, Empty
<1>3. BacklogNew' /\ MainOwnsFd' /\ HandlersOwnFd' /\ CopiesOwned' /\ CopiesBounded'
  BY <1>1 DEF BacklogNew, MainOwnsFd, HandlersOwnFd, CopiesOwned, CopiesBounded
<1>4. SlotsNameOpenClients'
  BY <1>1 DEF SlotsNameOpenClients, Empty
<1> QED
  BY <1>2, <1>3, <1>4

LEMMA ClearStep ==
  ASSUME IInv, NEW c \in Client, Clear(c)
  PROVE  IInv'
<1> USE DEF Clear, HGoto, IInv, clientVars, mainVars, casterVars
<1>1. /\ hpc[c] = "clear" /\ hfd[c] \in Fd /\ file[hfd[c]] = c
      /\ \A d \in Client : hpc'[d] = IF d = c THEN "close" ELSE hpc[d]
      /\ UNCHANGED <<up, backlog, file, mpc, mfd, hfd, bpc, copies>>
  BY DEF HandlersOwnFd, Types
<1>2. /\ CountMatches' /\ slots' \in [Slot -> Fd \cup {NoFd}]
      /\ (Slot \ Empty)' = {i \in Slot \ Empty : slots[i] # hfd[c]}
      /\ \A i \in Slot : slots'[i] = IF slots[i] = hfd[c] THEN NoFd ELSE slots[i]
  BY <1>1, GiveSlotBack
<1>3. Types'
  BY <1>1, <1>2 DEF Types
<1>4. BacklogNew' /\ MainOwnsFd' /\ HandlersOwnFd' /\ CopiesOwned' /\ CopiesBounded'
  BY <1>1 DEF BacklogNew, MainOwnsFd, HandlersOwnFd, CopiesOwned, CopiesBounded
<1>5. SlotsNameOpenClients'
  BY <1>1, <1>2 DEF SlotsNameOpenClients
<1> QED
  BY <1>2, <1>3, <1>4, <1>5

LEMMA CloseOwnStep ==
  ASSUME IInv, NEW c \in Client, CloseOwn(c)
  PROVE  IInv'
<1> USE DEF CloseOwn, Close, HGoto, IInv, clientVars, tableVars, mainVars, casterVars
<1>1. /\ hpc[c] = "close" /\ hfd[c] \in Fd /\ file[hfd[c]] = c
      /\ \A d \in Client : /\ hpc'[d] = IF d = c THEN "none" ELSE hpc[d]
                           /\ hfd'[d] = IF d = c THEN NoFd ELSE hfd[d]
      /\ \A f \in Fd : file'[f] = IF f = hfd[c] THEN NoClient ELSE file[f]
      /\ UNCHANGED <<up, backlog, slots, nClients, mpc, mfd, bpc, copies>>
  BY DEF HandlersOwnFd, Types
<1>2. \A d \in Client : hpc[d] # "none" /\ d # c => hfd[d] \in Fd /\ hfd[d] # hfd[c]
  BY <1>1 DEF HandlersOwnFd
<1>3. mfd # hfd[c]
  BY <1>1 DEF MainOwnsFd
<1>4. \A b \in Caster : \A i \in DOMAIN copies[b] :
         copies[b][i] \in Fd /\ copies[b][i] # hfd[c]
  BY ElementOfSeq, LenProperties DEF CopiesOwned, Types
<1>5. Types' /\ CountMatches'
  <2>1. /\ file' \in [Fd -> Client \cup {NoClient}]
        /\ hfd' \in [Client -> Fd \cup {NoFd}]
        /\ hpc' \in [Client -> {"none", "recv", "reply", "clear", "close"}]
    BY DEF Types
  <2> QED
    BY <1>1, <2>1 DEF Types, CountMatches, Empty
<1>6. BacklogNew'
  <2>1. \A i \in DOMAIN backlog : backlog[i] # NoClient
    BY ElementOfSeq, LenProperties, RegistryAssumption DEF Types
  <2> QED
    BY <1>1, <2>1 DEF BacklogNew
<1>7. MainOwnsFd' /\ HandlersOwnFd'
  BY <1>1, <1>2, <1>3 DEF MainOwnsFd, HandlersOwnFd
<1>8. CopiesOwned' /\ CopiesBounded'
  BY <1>1, <1>4, RegistryAssumption DEF CopiesOwned, CopiesBounded
<1>9. SlotsNameOpenClients'
  <2>1. \A i \in Slot \ Empty : slots[i] # hfd[c]
    BY <1>1, <1>2, <1>3 DEF SlotsNameOpenClients
  <2> QED
    BY <1>1, <1>2, <1>3, <2>1 DEF SlotsNameOpenClients, Empty
<1> QED
  BY <1>5, <1>6, <1>7, <1>8, <1>9

(* A broadcast adds descriptors that nobody had, for clients that have a   *)
(* slot and hence a handler or main.                                       *)
LEMMA BroadcastStep ==
  ASSUME IInv, NEW b \in Caster, Broadcast(b)
  PROVE  IInv'
<1> USE DEF IInv
<1>1. /\ bpc[b] = "idle"
      /\ UNCHANGED <<up, backlog, slots, nClients, mpc, mfd, hpc, hfd>>
  BY DEF Broadcast, clientVars, tableVars, mainVars, handlerVars
<1>2. PICK n \in 0..MaxClients : \E cs \in [1..n -> Closed] : \E us \in [1..n -> Slot \ Empty] :
            /\ \A i, j \in 1..n : cs[i] = cs[j] => i = j
            /\ \A i, j \in 1..n : us[i] = us[j] => i = j
            /\ copies' = [copies EXCEPT ![b] = cs]
            /\ bpc' = [bpc EXCEPT ![b] = AfterCopy(cs)]
            /\ file' \in [Fd -> Client \cup {NoClient}]
            /\ \A i \in 1..n : file'[cs[i]] = file[slots[us[i]]]
            /\ \A f \in Fd : (\A i \in 1..n : cs[i] # f) => file'[f] = file[f]
  BY BroadcastCopies
<1>3. PICK cs \in [1..n -> Closed] : \E us \in [1..n -> Slot \ Empty] :
            /\ \A i, j \in 1..n : cs[i] = cs[j] => i = j
            /\ \A i, j \in 1..n : us[i] = us[j] => i = j
            /\ copies' = [copies EXCEPT ![b] = cs]
            /\ bpc' = [bpc EXCEPT ![b] = AfterCopy(cs)]
            /\ file' \in [Fd -> Client \cup {NoClient}]
            /\ \A i \in 1..n : file'[cs[i]] = file[slots[us[i]]]
            /\ \A f \in Fd : (\A i \in 1..n : cs[i] # f) => file'[f] = file[f]
  BY <1>2
<1>4. PICK us \in [1..n -> Slot \ Empty] :
            /\ \A i, j \in 1..n : cs[i] = cs[j] => i = j
            /\ \A i, j \in 1..n : us[i] = us[j] => i = j
            /\ copies' = [copies EXCEPT ![b] = cs]
            /\ bpc' = [bpc EXCEPT ![b] = AfterCopy(cs)]
            /\ file' \in [Fd -> Client \cup {NoClient}]
            /\ \A i \in 1..n : file'[cs[i]] = file[slots[us[i]]]
            /\ \A f \in Fd : (\A i \in 1..n : cs[i] # f) => file'[f] = file[f]
  BY <1>3
<1>5. /\ cs \in Seq(Fd) /\ Len(cs) = n /\ DOMAIN cs = 1..n /\ n <= MaxClients
      /\ \A i \in 1..n : cs[i] \in Fd /\ file[cs[i]] = NoClient
  <2>1. n \in Nat /\ MaxClients \in Nat /\ n <= MaxClients
    BY RegistryAssumption
  <2>2. cs \in [1..n -> Fd]
    BY Finite
  <2> QED
    BY <2>1, <2>2, SeqDef DEF Closed
<1>6. /\ copies'[b] = cs /\ bpc'[b] = AfterCopy(cs)
      /\ \A d \in Caster : d # b => copies'[d] = copies[d] /\ bpc'[d] = bpc[d]
  BY <1>4 DEF Types
<1>7. \A i \in 1..n : /\ file'[cs[i]] \in Client
                      /\ \E k \in Slot \ Empty : file'[cs[i]] = file[slots[k]] /\ slots[k] \in Fd
  BY <1>4, SlotFacts
<1>8. \A i, j \in 1..n : file'[cs[i]] = file'[cs[j]] => i = j
  <2> TAKE i, j \in 1..n
  <2>1. file'[cs[i]] = file[slots[us[i]]] /\ file'[cs[j]] = file[slots[us[j]]]
    BY <1>4
  <2>2. us[i] \in Slot \ Empty /\ us[j] \in Slot \ Empty
    OBVIOUS
  <2>3. file[slots[us[i]]] = file[slots[us[j]]] => us[i] = us[j]
    BY <2>2, SlotFacts
  <2> QED
    BY <1>4, <2>1, <2>3
<1>9. \A f \in Fd : file[f] \in Client => file'[f] = file[f] /\ \A i \in 1..n : cs[i] # f
  BY <1>4, <1>5, RegistryAssumption
<1>10. Types'
  <2>1. AfterCopy(cs) \in {"idle", "send"}
    BY DEF AfterCopy
  <2> QED
    BY <1>1, <1>4, <1>5, <2>1 DEF Types
<1>11. BacklogNew'
  <2>1. \A f \in Fd : \/ file'[f] = file[f]
                      \/ \E k \in Slot \ Empty : file'[f] = file[slots[k]] /\ slots[k] \in Fd
    <3> TAKE f \in Fd
    <3>1. CASE \A i \in 1..n : cs[i] # f
      BY <1>4, <3>1
    <3>2. CASE \E i \in 1..n : cs[i] = f
      BY <1>7, <3>2
    <3> QED
      BY <3>1, <3>2
  <2> QED
    BY <1>1, <2>1 DEF BacklogNew
<1>12. MainOwnsFd' /\ HandlersOwnFd'
  BY <1>1, <1>9 DEF MainOwnsFd, HandlersOwnFd
<1>13. \A i \in 1..n : /\ cs[i] # mfd
                       /\ \A c \in Client : cs[i] # hfd[c]
                       /\ \A d \in Caster : \A j \in DOMAIN copies[d] : cs[i] # copies[d][j]
  BY <1>5, RegistryAssumption DEF MainOwnsFd, HandlersOwnFd, CopiesOwned
<1>14. \A d \in Caster : \A j \in DOMAIN copies[d] :
          copies[d][j] \in Fd /\ file'[copies[d][j]] = file[copies[d][j]]
  <2>1. \A d \in Caster : \A j \in DOMAIN copies[d] : copies[d][j] \in Fd
    BY ElementOfSeq, LenProperties DEF Types
  <2> QED
    BY <1>9, <2>1 DEF CopiesOwned
<1>15. CopiesOwned'
  <2> SUFFICES ASSUME NEW d \in Caster, NEW i \in DOMAIN copies'[d]
               PROVE  /\ file'[copies'[d][i]] \in Client
                      /\ copies'[d][i] # mfd
                      /\ \A c \in Client : copies'[d][i] # hfd[c]
                      /\ \A e \in Caster : \A j \in DOMAIN copies'[e] :
                            copies'[d][i] = copies'[e][j] => d = e /\ i = j
                      /\ \A j \in DOMAIN copies'[d] :
                            file'[copies'[d][i]] = file'[copies'[d][j]] => i = j
    BY <1>1 DEF CopiesOwned
  <2>1. CASE d = b
    <3>1. i \in 1..n /\ copies'[d][i] = cs[i]
      BY <1>5, <1>6, <2>1
    <3>2. ASSUME NEW e \in Caster, NEW j \in DOMAIN copies'[e], copies'[d][i] = copies'[e][j]
          PROVE  d = e /\ i = j
      BY <1>4, <1>5, <1>6, <1>13, <2>1, <3>1, <3>2
    <3> QED
      BY <1>5, <1>6, <1>7, <1>8, <1>13, <2>1, <3>1, <3>2
  <2>2. CASE d # b
    <3>1. i \in DOMAIN copies[d] /\ copies'[d] = copies[d]
      BY <1>6, <2>2
    <3>2. ASSUME NEW e \in Caster, NEW j \in DOMAIN copies'[e], copies'[d][i] = copies'[e][j]
          PROVE  d = e /\ i = j
      <4>1. CASE e = b
        BY <1>5, <1>6, <1>13, <3>1, <3>2, <4>1
      <4>2. CASE e # b
        BY <1>6, <3>1, <3>2, <4>2 DEF CopiesOwned
      <4> QED
        BY <4>1, <4>2
    <3> QED
      BY <1>14, <3>1, <3>2 DEF CopiesOwned
  <2> QED
    BY <2>1, <2>2
<1>16. CopiesBounded'
  <2>1. bpc'[b] = "idle" <=> copies'[b] = <<>>
    BY <1>6 DEF AfterCopy
  <2> QED
    BY <1>5, <1>6, <2>1 DEF CopiesBounded
<1>17. SlotsNameOpenClients' /\ CountMatches'
  <2>1. \A i \in Slot \ Empty : file'[slots[i]] = file[slots[i]]
    BY <1>9, SlotFacts
  <2>2. mfd \in Fd => file'[mfd] = file[mfd]
    BY <1>9 DEF MainOwnsFd
  <2> QED
    BY <1>1, <2>1, <2>2, SlotFacts DEF SlotsNameOpenClients, CountMatches, Empty
<1> QED
  BY <1>10, <1>11, <1>12, <1>15, <1>16, <1>17

LEMMA SendCopyStep ==
  ASSUME IInv, NEW b \in Caster, SendCopy(b)
  PROVE  IInv'
<1> USE DEF SendCopy, IInv, clientVars, tableVars, mainVars, handlerVars
<1>1. /\ bpc[b] = "send" /\ bpc' \in [Caster -> {"idle", "send", "close"}]
      /\ \A d \in Caster : bpc'[d] = IF d = b THEN "close" ELSE bpc[d]
      /\ UNCHANGED <<up, backlog, file, slots, nClients, mpc, mfd, hpc, hfd, copies>>
  BY DEF Types
<1>2. Types' /\ CountMatches' /\ SlotsNameOpenClients'
  BY <1>1 DEF Types, CountMatches, SlotsNameOpenClients, Empty
<1>3. BacklogNew' /\ MainOwnsFd' /\ HandlersOwnFd' /\ CopiesOwned' /\ CopiesBounded'
  BY <1>1 DEF BacklogNew, MainOwnsFd, HandlersOwnFd, CopiesOwned, CopiesBounded
<1> QED
  BY <1>2, <1>3

(* The first copy is closed; those that remain move up. *)
LEMMA CopyClosed ==
  ASSUME IInv, NEW b \in Caster, CloseCopy(b)
  PROVE  /\ copies[b][1] \in Fd /\ 1 \in DOMAIN copies[b]
         /\ file' \in [Fd -> Client \cup {NoClient}]
         /\ \A f \in Fd : file'[f] = IF f = copies[b][1] THEN NoClient ELSE file[f]
         /\ copies' \in [Caster -> Seq(Fd)] /\ Len(copies'[b]) = Len(copies[b]) - 1
         /\ \A i \in DOMAIN copies'[b] : /\ i + 1 \in DOMAIN copies[b] /\ i + 1 # 1
                                         /\ copies'[b][i] = copies[b][i + 1]
         /\ \A d \in Caster : d # b => copies'[d] = copies[d]
         /\ bpc'[b] = AfterCopy(copies'[b]) /\ bpc' \in [Caster -> {"idle", "send", "close"}]
         /\ \A d \in Caster : d # b => bpc'[d] = bpc[d]
<1> USE DEF CloseCopy, Close
<1> DEFINE s == copies[b]
<1>1. s \in Seq(Fd) /\ s # <<>>
  BY DEF IInv, Types, CopiesBounded
<1>2. /\ Head(s) = s[1] /\ s[1] \in Fd /\ Tail(s) \in Seq(Fd) /\ Len(Tail(s)) = Len(s) - 1
      /\ 1 \in DOMAIN s
      /\ \A i \in DOMAIN Tail(s) : i + 1 \in DOMAIN s /\ i + 1 # 1 /\ Tail(s)[i] = s[i + 1]
  BY <1>1, HeadTailProperties, LenProperties, EmptySeq
<1>3. /\ copies' = [copies EXCEPT ![b] = Tail(s)]
      /\ bpc' = [bpc EXCEPT ![b] = AfterCopy(Tail(s))]
      /\ file' = [file EXCEPT ![s[1]] = NoClient]
  BY <1>2
<1>4. AfterCopy(Tail(s)) \in {"idle", "send"}
  BY DEF AfterCopy
<1> HIDE DEF CloseCopy
<1>5. /\ copies' \in [Caster -> Seq(Fd)] /\ copies'[b] = Tail(s)
      /\ \A d \in Caster : d # b => copies'[d] = copies[d]
  BY <1>2, <1>3 DEF IInv, Types
<1>6. /\ bpc' \in [Caster -> {"idle", "send", "close"}] /\ bpc'[b] = AfterCopy(copies'[b])
      /\ \A d \in Caster : d # b => bpc'[d] = bpc[d]
  BY <1>3, <1>4, <1>5 DEF IInv, Types
<1>7. /\ file' \in [Fd -> Client \cup {NoClient}]
      /\ \A f \in Fd : file'[f] = IF f = s[1] THEN NoClient ELSE file[f]
  BY <1>2, <1>3 DEF IInv, Types
<1> QED
  BY <1>2, <1>5, <1>6, <1>7

LEMMA CloseCopyStep ==
  ASSUME IInv, NEW b \in Caster, CloseCopy(b)
  PROVE  IInv'
<1> USE DEF IInv
<1> DEFINE f == copies[b][1]
<1>1. /\ UNCHANGED <<up, backlog, slots, nClients, mpc, mfd, hpc, hfd>>
      /\ f \in Fd /\ 1 \in DOMAIN copies[b]
      /\ file' \in [Fd -> Client \cup {NoClient}]
      /\ \A g \in Fd : file'[g] = IF g = f THEN NoClient ELSE file[g]
      /\ copies' \in [Caster -> Seq(Fd)] /\ Len(copies'[b]) = Len(copies[b]) - 1
      /\ \A i \in DOMAIN copies'[b] : /\ i + 1 \in DOMAIN copies[b] /\ i + 1 # 1
                                      /\ copies'[b][i] = copies[b][i + 1]
      /\ \A d \in Caster : d # b => copies'[d] = copies[d]
      /\ bpc'[b] = AfterCopy(copies'[b]) /\ bpc' \in [Caster -> {"idle", "send", "close"}]
      /\ \A d \in Caster : d # b => bpc'[d] = bpc[d]
  BY CopyClosed DEF CloseCopy, clientVars, tableVars, mainVars, handlerVars
<1>2. f # mfd /\ \A c \in Client : f # hfd[c]
  BY <1>1 DEF CopiesOwned
<1>3. Types' /\ CountMatches'
  BY <1>1 DEF Types, CountMatches, Empty
<1>4. BacklogNew'
  <2>1. \A i \in DOMAIN backlog : backlog[i] # NoClient
    BY ElementOfSeq, LenProperties, RegistryAssumption DEF Types
  <2> QED
    BY <1>1, <2>1 DEF BacklogNew
<1>5. MainOwnsFd' /\ HandlersOwnFd'
  BY <1>1, <1>2 DEF MainOwnsFd, HandlersOwnFd
<1>6. SlotsNameOpenClients'
  <2>1. \A i \in Slot \ Empty : slots[i] # f /\ slots[i] \in Fd
    BY <1>1, SlotFacts
  <2>2. mfd \in Fd => file'[mfd] = file[mfd]
    BY <1>1, <1>2
  <2>3. Empty' = Empty /\ slots' = slots
    BY <1>1 DEF Empty
  <2>4. ASSUME NEW i \in Slot \ Empty
        PROVE  \/ mpc' \in {"create", "rollback"} /\ slots[i] = mfd' /\ file'[mfd'] # NoClient
               \/ \E c \in Client : /\ hpc'[c] \in {"recv", "reply", "clear"}
                                    /\ hfd'[c] = slots[i] /\ file'[slots[i]] = c
    <3>1. slots[i] \in Fd /\ file'[slots[i]] = file[slots[i]]
      BY <1>1, <2>1
    <3>2. \/ mpc \in {"create", "rollback"} /\ slots[i] = mfd /\ file[mfd] # NoClient
          \/ \E c \in Client : /\ hpc[c] \in {"recv", "reply", "clear"}
                               /\ hfd[c] = slots[i] /\ file[slots[i]] = c
      BY DEF SlotsNameOpenClients
    <3>3. mpc' = mpc /\ mfd' = mfd /\ hpc' = hpc /\ hfd' = hfd
      BY <1>1
    <3> QED
      BY <2>2, <3>1, <3>2, <3>3
  <2>5. \A i, j \in Slot \ Empty : slots[i] = slots[j] => i = j
    BY DEF SlotsNameOpenClients
  <2> QED
    BY <2>3, <2>4, <2>5 DEF SlotsNameOpenClients
<1>7. CopiesBounded'
  <2>1. bpc'[b] = "idle" <=> copies'[b] = <<>>
    BY <1>1 DEF AfterCopy
  <2>2. Len(copies'[b]) <= MaxClients
    BY <1>1, LenProperties, RegistryAssumption DEF CopiesBounded, Types
  <2> QED
    BY <1>1, <2>1, <2>2 DEF CopiesBounded
<1>8. CopiesOwned'
  <2>1. \A d \in Caster : \A i \in DOMAIN copies[d] :
           copies[d][i] \in Fd /\ (copies[d][i] = f => d = b /\ i = 1)
    BY <1>1, ElementOfSeq, LenProperties DEF CopiesOwned, Types
  <2> DEFINE old(d, i) == IF d = b THEN i + 1 ELSE i
  <2>2. \A d \in Caster : \A i \in DOMAIN copies'[d] :
           /\ old(d, i) \in DOMAIN copies[d] /\ copies'[d][i] = copies[d][old(d, i)]
           /\ i \in Int /\ (d = b => old(d, i) # 1)
    <3> TAKE d \in Caster
    <3>1. copies'[d] \in Seq(Fd)
      BY <1>1
    <3>2. DOMAIN copies'[d] = 1..Len(copies'[d]) /\ Len(copies'[d]) \in Nat
      BY <3>1, LenProperties
    <3> QED
      BY <1>1, <3>2
  <2>3. \A d \in Caster : \A i \in DOMAIN copies'[d] :
           file'[copies'[d][i]] = file[copies[d][old(d, i)]]
    BY <1>1, <2>1, <2>2
  <2>4. \A d \in Caster : \A i, j \in DOMAIN copies'[d] : old(d, i) = old(d, j) => i = j
    BY <2>2
  <2> HIDE DEF old
  <2> SUFFICES ASSUME NEW d \in Caster, NEW i \in DOMAIN copies'[d]
               PROVE  /\ file'[copies'[d][i]] \in Client
                      /\ copies'[d][i] # mfd
                      /\ \A c \in Client : copies'[d][i] # hfd[c]
                      /\ \A e \in Caster : \A j \in DOMAIN copies'[e] :
                            copies'[d][i] = copies'[e][j] => d = e /\ i = j
                      /\ \A j \in DOMAIN copies'[d] :
                            file'[copies'[d][i]] = file'[copies'[d][j]] => i = j
    BY <1>1 DEF CopiesOwned
  <2>5. /\ file'[copies'[d][i]] \in Client /\ copies'[d][i] # mfd
        /\ \A c \in Client : copies'[d][i] # hfd[c]
    BY <2>2, <2>3 DEF CopiesOwned
  <2>6. ASSUME NEW e \in Caster, NEW j \in DOMAIN copies'[e], copies'[d][i] = copies'[e][j]
        PROVE  d = e /\ i = j
    <3>1. d = e /\ old(d, i) = old(e, j)
      BY <2>2, <2>6 DEF CopiesOwned
    <3> QED
      BY <2>4, <3>1
  <2>7. ASSUME NEW j \in DOMAIN copies'[d], file'[copies'[d][i]] = file'[copies'[d][j]]
        PROVE  i = j
    <3>1. old(d, i) = old(d, j)
      BY <2>2, <2>3, <2>7 DEF CopiesOwned
    <3> QED
      BY <2>4, <3>1
  <2> QED
    BY <2>5, <2>6, <2>7
<1> QED
  BY <1>3, <1>4, <1>5, <1>6, <1>7, <1>8

LEMMA CancelCastStep ==
  ASSUME IInv, NEW b \in Caster, CancelCast(b)
  PROVE  IInv'
<1> USE DEF CancelCast, IInv, clientVars, tableVars, mainVars, handlerVars
<1>1. /\ UNCHANGED <<up, backlog, file, slots, nClients, mpc, mfd, hpc, hfd>>
      /\ copies' \in [Caster -> Seq(Fd)] /\ bpc' \in [Caster -> {"idle", "send", "close"}]
      /\ copies'[b] = <<>> /\ bpc'[b] = "idle"
      /\ \A d \in Caster : d # b => copies'[d] = copies[d] /\ bpc'[d] = bpc[d]
  BY EmptySeq DEF Types
<1>2. Types' /\ CountMatches' /\ SlotsNameOpenClients'
  BY <1>1 DEF Types, CountMatches, SlotsNameOpenClients, Empty
<1>3. BacklogNew' /\ MainOwnsFd' /\ HandlersOwnFd'
  BY <1>1 DEF BacklogNew, MainOwnsFd, HandlersOwnFd
<1>4. CopiesBounded'
  BY <1>1, RegistryAssumption DEF CopiesBounded
<1>5. CopiesOwned'
  <2>1. DOMAIN copies'[b] = {}
    BY <1>1
  <2> QED
    BY <1>1, <2>1 DEF CopiesOwned
<1> QED
  BY <1>2, <1>3, <1>4, <1>5

LEMMA StepInv == IInv /\ [Next]_vars => IInv'
<1> SUFFICES ASSUME IInv, [Next]_vars PROVE IInv'
  OBVIOUS
<1>1. CASE UNCHANGED vars
  <2>1. UNCHANGED <<up, backlog, file, slots, nClients, mpc, mfd, hpc, hfd, bpc, copies>>
    BY <1>1 DEF vars, clientVars, tableVars, mainVars, handlerVars, casterVars
  <2> QED
    BY <2>1 DEF IInv, Types, BacklogNew, MainOwnsFd, HandlersOwnFd, CopiesOwned,
                CopiesBounded, SlotsNameOpenClients, CountMatches, Empty
<1>2. ASSUME NEW c \in Client, Connect(c) \/ HangUp(c) \/ Handler(c) PROVE IInv'
  BY <1>2, ClientSteps, HandlerSteps, ClearStep, CloseOwnStep DEF Handler
<1>3. CASE Main
  BY <1>3, StartupSteps, AcceptStep, RegisterStep, CreateStep, RollbackStep, CloseNewStep DEF Main
<1>4. ASSUME NEW b \in Caster, Broadcast(b) \/ Cast(b) \/ CancelCast(b) PROVE IInv'
  BY <1>4, BroadcastStep, SendCopyStep, CloseCopyStep, CancelCastStep DEF Cast
<1> QED
  BY <1>1, <1>2, <1>3, <1>4 DEF Next, Exited

LEMMA Invariance == Spec => []IInv
BY InitInv, StepInv, PTL DEF Spec
-----------------------------------------------------------------------------
(* The theorems. *)

(* All variables keep their ranges; in particular the listen queue never   *)
(* holds a client twice, n_clients stays within the table, and broadcast   *)
(* never takes more copies than client_copies has room for.                *)
THEOREM TypeCorrect == Spec => []TypeOK
<1>1. IInv => TypeOK
  <2> SUFFICES ASSUME IInv PROVE TypeOK
    OBVIOUS
  <2>1. Types /\ BacklogNew /\ CopiesBounded /\ CountMatches
    BY DEF IInv
  <2>2. nClients \in 0..MaxClients
    BY <2>1, Finite DEF CountMatches
  <2>3. Len(backlog) <= Cardinality(Client)
    <3> DEFINE n == Len(backlog)
    <3>1. n \in Nat /\ backlog \in [1..n -> Client] /\ DOMAIN backlog = 1..n
      BY <2>1, LenProperties DEF Types
    <3>2. IsFiniteSet(1..n) /\ Cardinality(1..n) = n
      BY <3>1, FS_Interval, SMTT(30)
    <3>3. backlog \in Injection(1..n, Client)
      BY <2>1, <3>1 DEF BacklogNew, Injection, IsInjective
    <3> HIDE DEF n
    <3>4. Cardinality(1..n) <= Cardinality(Client)
      BY <3>3, FS_Injection, RegistryAssumption
    <3> QED
      BY <3>2, <3>4 DEF n
  <2> QED
    BY <2>1, <2>2, <2>3 DEF TypeOK, Types, CopiesBounded
<1> QED
  BY <1>1, Invariance, PTL

(* n_clients is the number of occupied slots, through refusals, failed     *)
(* thread creations and disconnects.                                       *)
THEOREM CountIsRight == Spec => []CountMatches
<1>1. IInv => CountMatches
  BY DEF IInv
<1> QED
  BY <1>1, Invariance, PTL

(* A slot never names a closed or reused descriptor, although the handler  *)
(* and main empty it before they close, and broadcasts dup it in between.  *)
THEOREM TableIsCurrent == Spec => []SlotsNameOpenClients
<1>1. IInv => SlotsNameOpenClients
  BY DEF IInv
<1> QED
  BY <1>1, Invariance, PTL

(* Nobody closes or reuses the descriptor of a living handler.             *)
THEOREM HandlerKeepsFd == Spec => []HandlerOwnsFd
<1>1. IInv => HandlerOwnsFd
  BY DEF IInv, HandlersOwnFd, HandlerOwnsFd
<1> QED
  BY <1>1, Invariance, PTL
-----------------------------------------------------------------------------
(* Leaks: when no broadcaster is cancelled, every open descriptor has      *)
(* somebody who will close it.                                             *)

LEMMA InitNoLeak == Init => NoFdLeak
BY DEF Init, NoFdLeak, Closed

LEMMA StepNoLeak ==
  ASSUME Cancellable = {}, IInv, NoFdLeak, [Next]_vars
  PROVE  NoFdLeak'
<1> USE DEF NoFdLeak, Closed, clientVars, tableVars, mainVars, handlerVars, casterVars
<1> DEFINE Same == UNCHANGED <<file, mfd, hfd, copies>>
<1>1. CASE Same
  BY <1>1
<1>2. CASE UNCHANGED vars
  BY <1>2 DEF vars
<1>3. CASE Startup \/ Register \/ Rollback
  BY <1>3 DEF Startup, LoadLibraries, SetupServer, Daemonize, InitializeHardware, StartWorkers,
              Stage, Register, Rollback
<1>4. CASE Accept
  BY <1>4 DEF Accept, IInv, Types, MainOwnsFd
<1>5. CASE Create
  <2>1. mfd \in Fd /\ file[mfd] \in Client /\ hfd[file[mfd]] = NoFd
    BY <1>5 DEF Create, IInv, Types, MainOwnsFd, HandlersOwnFd
  <2>2. CASE UNCHANGED <<mfd, hfd>>
    BY <1>5, <2>2 DEF Create
  <2>3. CASE mfd' = NoFd /\ hfd' = [hfd EXCEPT ![file[mfd]] = mfd]
    <3>1. /\ hfd'[file[mfd]] = mfd /\ UNCHANGED <<file, copies>>
          /\ \A d \in Client : d # file[mfd] => hfd'[d] = hfd[d]
      BY <1>5, <2>1, <2>3 DEF Create, IInv, Types
    <3> QED
      BY <2>1, <2>3, <3>1, RegistryAssumption
  <2> QED
    BY <1>5, <2>2, <2>3 DEF Create
<1>6. CASE CloseNew
  BY <1>6 DEF CloseNew, Close, IInv, Types, MainOwnsFd
<1>7. ASSUME NEW c \in Client, Connect(c) \/ HangUp(c) \/ Receive(c) \/ Reply(c) \/ Eof(c) \/ Clear(c)
      PROVE  NoFdLeak'
  BY <1>7 DEF Connect, HangUp, Receive, Reply, Eof, Clear
<1>8. ASSUME NEW c \in Client, CloseOwn(c)
      PROVE  NoFdLeak'
  BY <1>8 DEF CloseOwn, Close, IInv, Types, HandlersOwnFd
<1>9. ASSUME NEW b \in Caster, Broadcast(b)
      PROVE  NoFdLeak'
  <2> DEFINE Owed(f) == \E i \in DOMAIN copies'[b] : copies'[b][i] = f
  <2>1. copies[b] = <<>> /\ \A d \in Caster : d # b => copies'[d] = copies[d]
    BY <1>9 DEF Broadcast, IInv, Types, CopiesBounded
  <2>2. \A f \in Fd : file'[f] = file[f] \/ Owed(f)
    <3>1. PICK n \in 0..MaxClients : \E cs \in [1..n -> Closed] :
             /\ copies' = [copies EXCEPT ![b] = cs]
             /\ \A f \in Fd : (\A i \in 1..n : cs[i] # f) => file'[f] = file[f]
      BY <1>9, BroadcastCopies
    <3>2. PICK cs \in [1..n -> Closed] :
             /\ copies' = [copies EXCEPT ![b] = cs]
             /\ \A f \in Fd : (\A i \in 1..n : cs[i] # f) => file'[f] = file[f]
      BY <3>1
    <3>3. copies'[b] = cs /\ DOMAIN copies'[b] = 1..n
      BY <3>2 DEF IInv, Types
    <3> QED
      BY <3>2, <3>3
  <2>3. \A d \in Caster : \A i \in DOMAIN copies[d] : d # b
    BY <2>1
  <2>4. UNCHANGED <<mfd, hfd>>
    BY <1>9 DEF Broadcast
  <2> QED
    BY <2>1, <2>2, <2>3, <2>4
<1>10. ASSUME NEW b \in Caster, SendCopy(b)
      PROVE  NoFdLeak'
  BY <1>10 DEF SendCopy
<1>11. ASSUME NEW b \in Caster, CloseCopy(b)
      PROVE  NoFdLeak'
  <2>1. /\ \A f \in Fd : file'[f] = IF f = copies[b][1] THEN NoClient ELSE file[f]
        /\ \A d \in Caster : d # b => copies'[d] = copies[d]
    BY <1>11, CopyClosed
  <2>2. \A i \in DOMAIN copies[b] : i # 1 =>
           \E j \in DOMAIN copies'[b] : copies'[b][j] = copies[b][i]
    <3>1. copies[b] \in Seq(Fd) /\ copies'[b] = Tail(copies[b]) /\ copies[b] # <<>>
      BY <1>11 DEF CloseCopy, IInv, Types, CopiesBounded
    <3>2. ASSUME NEW i \in DOMAIN copies[b], i # 1
          PROVE  i - 1 \in DOMAIN copies'[b] /\ copies'[b][i - 1] = copies[b][i]
      <4>1. /\ DOMAIN copies[b] = 1..Len(copies[b]) /\ Len(copies[b]) \in Nat
            /\ DOMAIN copies'[b] = 1..(Len(copies[b]) - 1)
            /\ \A j \in 1..(Len(copies[b]) - 1) : copies'[b][j] = copies[b][j + 1]
        BY <3>1, HeadTailProperties, LenProperties
      <4>2. i \in Nat /\ i - 1 \in 1..(Len(copies[b]) - 1) /\ (i - 1) + 1 = i
        BY <3>2, <4>1
      <4> QED
        BY <4>1, <4>2
    <3> QED
      BY <3>2
  <2> QED
    BY <1>11, <2>1, <2>2 DEF CloseCopy
<1>12. ASSUME NEW b \in Caster, CancelCast(b)
      PROVE  NoFdLeak'
  BY <1>12 DEF CancelCast
<1> QED
  BY <1>2, <1>3, <1>4, <1>5, <1>6, <1>7, <1>8, <1>9, <1>10, <1>11, <1>12
     DEF Next, Main, Handler, Cast, Exited, vars

(* Without cancellation no descriptor is lost: the leak of a cancelled     *)
(* countdown is the only one there is.                                     *)
THEOREM NothingLeaks ==
  ASSUME Cancellable = {}
  PROVE  Spec => []NoFdLeak
<1>1. IInv /\ NoFdLeak /\ [Next]_vars => NoFdLeak'
  BY StepNoLeak
<1> QED
  BY <1>1, InitNoLeak, Invariance, PTL DEF Spec
-----------------------------------------------------------------------------
(* The refinement of EventBus. *)

(* A step that leaves the table, the descriptors in it and the copies      *)
(* alone is none of the bus.                                               *)
LEMMA Quiet ==
  ASSUME IInv, UNCHANGED <<slots, bpc, copies>>,
         \A i \in Slot \ Empty : file'[slots[i]] = file[slots[i]],
         \A b \in Caster : \A i \in DOMAIN copies[b] :
            file'[copies[b][i]] = file[copies[b][i]]
  PROVE  UNCHANGED <<membersBar, todoBar>>
<1>1. UNCHANGED membersBar
  BY DEF membersBar, Empty
<1>2. \A b \in Caster : Unsent(b) \in SUBSET (DOMAIN copies[b]) /\ UNCHANGED Unsent(b)
  BY LenProperties DEF Unsent, IInv, Types
<1>3. UNCHANGED todoBar
  <2>1. \A b \in Caster : {file'[copies'[b][i]] : i \in Unsent(b)'}
                            = {file[copies[b][i]] : i \in Unsent(b)}
    BY <1>2
  <2> QED
    BY <2>1 DEF todoBar
<1> QED
  BY <1>1, <1>3

LEMMA BusRegister ==
  ASSUME IInv, Register
  PROVE  Bus!Next \/ UNCHANGED <<membersBar, todoBar>>
<1> USE DEF Register, IInv, clientVars, mainVars, handlerVars, casterVars
<1>1. mfd \in Fd /\ file[mfd] \in Client /\ hpc[file[mfd]] = "none" /\ mpc = "register"
  BY DEF MainOwnsFd
<1>2. CASE UNCHANGED tableVars
  BY <1>2, Quiet DEF tableVars
<1>3. CASE Empty # {} /\ mpc' = "create"
  <2> DEFINE k == First(Empty)
             c == file[mfd]
  <2>1. /\ nClients < MaxClients /\ k \in Empty
        /\ (Slot \ Empty)' = (Slot \ Empty) \cup {k}
        /\ \A i \in Slot : slots'[i] = IF i = k THEN mfd ELSE slots[i]
    BY <1>1, <1>3, TakeSlot
  <2> HIDE DEF k
  <2>2. membersBar' = membersBar \cup {c}
    <3>1. Empty \in SUBSET Slot /\ UNCHANGED file
      BY Finite
    <3> QED
      BY <2>1, <3>1 DEF membersBar
  <2>3. c \notin membersBar
    <3>1. \A i \in Slot \ Empty : file[slots[i]] # c
      BY <1>1 DEF SlotsNameOpenClients
    <3> QED
      BY <3>1 DEF membersBar
  <2>4. Cardinality(membersBar) < MaxClients
    <3> DEFINE S == Slot \ Empty
               m == [i \in S |-> file[slots[i]]]
    <3>1. m \in Surjection(S, membersBar)
      BY DEF Surjection, membersBar
    <3>2. IsFiniteSet(S) /\ Cardinality(S) = nClients /\ Cardinality(S) \in Nat
      BY Finite DEF CountMatches
    <3> HIDE DEF m, S
    <3>3. IsFiniteSet(membersBar) /\ Cardinality(membersBar) <= Cardinality(S)
      BY <3>1, <3>2, FS_Surjection
    <3> QED
      BY <2>1, <3>2, <3>3, FS_CardinalityType, RegistryAssumption
  <2>5. UNCHANGED todoBar
    <3>1. UNCHANGED <<file, bpc, copies>>
      OBVIOUS
    <3> QED
      BY <3>1 DEF todoBar, Unsent
  <2>6. Bus!Join(c)
    <3>1. Bus!Cardinality(membersBar) = Cardinality(membersBar)
      BY DEF Bus!Cardinality, Cardinality
    <3> QED
      BY <2>2, <2>3, <2>4, <2>5, <3>1 DEF Bus!Join
  <2> QED
    BY <1>1, <2>6 DEF Bus!Next
<1> QED
  BY <1>2, <1>3

(* Rollback and Clear: a client with a slot leaves. *)
LEMMA BusUnregister ==
  ASSUME IInv, NEW f \in Fd, Unregister(f), UNCHANGED <<file, bpc, copies>>
  PROVE  Bus!Next \/ UNCHANGED <<membersBar, todoBar>>
<1> USE DEF IInv
<1>1. /\ (Slot \ Empty)' = {i \in Slot \ Empty : slots[i] # f}
      /\ \A i \in Slot : slots'[i] = IF slots[i] = f THEN NoFd ELSE slots[i]
  BY GiveSlotBack
<1>2. UNCHANGED todoBar
  BY DEF todoBar, Unsent
<1>3. CASE \A i \in Slot \ Empty : slots[i] # f
  <2>1. UNCHANGED membersBar
    BY <1>1, <1>3 DEF membersBar
  <2> QED
    BY <1>2, <2>1
<1>4. CASE \E i \in Slot \ Empty : slots[i] = f
  <2>1. file[f] \in Client /\ file[f] \in membersBar
    BY <1>4, SlotFacts DEF membersBar
  <2>2. \A i \in Slot \ Empty : file[slots[i]] = file[f] => slots[i] = f
    BY <1>4, SlotFacts
  <2>3. membersBar' = membersBar \ {file[f]}
    BY <1>1, <2>2 DEF membersBar
  <2>4. Bus!Leave(file[f])
    BY <1>2, <2>1, <2>3 DEF Bus!Leave
  <2> QED
    BY <2>1, <2>4 DEF Bus!Next
<1> QED
  BY <1>3, <1>4

LEMMA BusBroadcast ==
  ASSUME IInv, NEW b \in Caster, Broadcast(b)
  PROVE  Bus!Publish(b)
<1> USE DEF IInv
<1>1. PICK n \in 0..MaxClients : \E cs \in [1..n -> Closed] : \E us \in [1..n -> Slot \ Empty] :
            /\ \A i, j \in 1..n : cs[i] = cs[j] => i = j
            /\ \A i, j \in 1..n : us[i] = us[j] => i = j
            /\ copies' = [copies EXCEPT ![b] = cs]
            /\ bpc' = [bpc EXCEPT ![b] = AfterCopy(cs)]
            /\ file' \in [Fd -> Client \cup {NoClient}]
            /\ \A i \in 1..n : file'[cs[i]] = file[slots[us[i]]]
            /\ \A f \in Fd : (\A i \in 1..n : cs[i] # f) => file'[f] = file[f]
  BY BroadcastCopies
<1>2. PICK cs \in [1..n -> Closed] : \E us \in [1..n -> Slot \ Empty] :
            /\ \A i, j \in 1..n : cs[i] = cs[j] => i = j
            /\ \A i, j \in 1..n : us[i] = us[j] => i = j
            /\ copies' = [copies EXCEPT ![b] = cs]
            /\ bpc' = [bpc EXCEPT ![b] = AfterCopy(cs)]
            /\ file' \in [Fd -> Client \cup {NoClient}]
            /\ \A i \in 1..n : file'[cs[i]] = file[slots[us[i]]]
            /\ \A f \in Fd : (\A i \in 1..n : cs[i] # f) => file'[f] = file[f]
  BY <1>1
<1>3. PICK us \in [1..n -> Slot \ Empty] :
            /\ \A i, j \in 1..n : cs[i] = cs[j] => i = j
            /\ \A i, j \in 1..n : us[i] = us[j] => i = j
            /\ copies' = [copies EXCEPT ![b] = cs]
            /\ bpc' = [bpc EXCEPT ![b] = AfterCopy(cs)]
            /\ file' \in [Fd -> Client \cup {NoClient}]
            /\ \A i \in 1..n : file'[cs[i]] = file[slots[us[i]]]
            /\ \A f \in Fd : (\A i \in 1..n : cs[i] # f) => file'[f] = file[f]
  BY <1>2
<1>4. bpc[b] = "idle" /\ copies[b] = <<>> /\ UNCHANGED slots
  BY DEF Broadcast, CopiesBounded, tableVars
<1>5. \A f \in Fd : file[f] \in Client => file'[f] = file[f]
  BY <1>3, RegistryAssumption DEF Closed
<1>6. UNCHANGED membersBar
  BY <1>4, <1>5, SlotFacts DEF membersBar, Empty
<1>7. \A d \in Caster : \A j \in DOMAIN copies[d] :
         copies[d][j] \in Fd /\ file'[copies[d][j]] = file[copies[d][j]]
  <2>1. \A d \in Caster : \A j \in DOMAIN copies[d] : copies[d][j] \in Fd
    BY ElementOfSeq, LenProperties DEF Types
  <2> QED
    BY <1>5, <2>1 DEF CopiesOwned
<1>8. /\ copies'[b] = cs /\ DOMAIN cs = 1..n /\ bpc'[b] # "close"
      /\ \A d \in Caster : d # b => copies'[d] = copies[d] /\ bpc'[d] = bpc[d]
  BY <1>3 DEF Types, AfterCopy
<1> DEFINE s == {file'[cs[i]] : i \in 1..n}
<1>9. s \in SUBSET membersBar
  BY <1>3 DEF membersBar
<1>10. \A d \in Caster : {file'[copies'[d][i]] : i \in Unsent(d)'} = IF d = b THEN s ELSE todoBar[d]
  <2>1. Unsent(b)' = 1..n
    BY <1>8 DEF Unsent
  <2>2. \A d \in Caster : d # b => UNCHANGED Unsent(d) /\ Unsent(d) \in SUBSET (DOMAIN copies[d])
    BY <1>8, LenProperties DEF Unsent, Types
  <2> QED
    BY <1>7, <1>8, <2>1, <2>2 DEF todoBar
<1>11. todoBar' = [todoBar EXCEPT ![b] = s]
  BY <1>10 DEF todoBar
<1>12. todoBar[b] = {}
  BY <1>4 DEF todoBar, Unsent
<1> HIDE DEF s
<1> QED
  BY <1>6, <1>9, <1>11, <1>12 DEF Bus!Publish

LEMMA BusSendCopy ==
  ASSUME IInv, NEW b \in Caster, SendCopy(b)
  PROVE  Bus!Deliver(b)
<1> USE DEF SendCopy, IInv, tableVars
<1>1. /\ bpc[b] = "send" /\ bpc'[b] = "close" /\ UNCHANGED <<file, slots, copies>>
      /\ \A d \in Caster : d # b => bpc'[d] = bpc[d]
  BY DEF Types
<1>2. UNCHANGED membersBar
  BY <1>1 DEF membersBar, Empty
<1>3. /\ DOMAIN copies[b] = 1..Len(copies[b]) /\ Len(copies[b]) \in Nat \ {0}
      /\ Unsent(b) = 1..Len(copies[b]) /\ Unsent(b)' = 2..Len(copies[b])
  BY <1>1, LenProperties, EmptySeq DEF Unsent, Types, CopiesBounded
<1> DEFINE c == file[copies[b][1]]
<1>4. \A i \in 1..Len(copies[b]) : file[copies[b][i]] = c <=> i = 1
  BY <1>3 DEF CopiesOwned
<1>5. \A i \in 1..Len(copies[b]) : i \in 2..Len(copies[b]) <=> i # 1
  BY <1>3
<1>6. todoBar[b] = {file[copies[b][i]] : i \in 1..Len(copies[b])}
  BY <1>3 DEF todoBar
<1>7. {file[copies[b][i]] : i \in 2..Len(copies[b])} = todoBar[b] \ {c}
  BY <1>3, <1>4, <1>5, <1>6
<1>8. \A d \in Caster : d # b => UNCHANGED Unsent(d)
  BY <1>1 DEF Unsent
<1>9. todoBar' = [todoBar EXCEPT ![b] = @ \ {c}]
  <2>1. {file'[copies'[b][i]] : i \in Unsent(b)'} = todoBar[b] \ {c}
    <3>1. {file'[copies'[b][i]] : i \in Unsent(b)'} = {file[copies[b][i]] : i \in 2..Len(copies[b])}
      BY <1>1, <1>3
    <3> QED
      BY <1>7, <3>1
  <2>2. ASSUME NEW d \in Caster, d # b
        PROVE  {file'[copies'[d][i]] : i \in Unsent(d)'} = todoBar[d]
    <3>1. {file'[copies'[d][i]] : i \in Unsent(d)'} = {file[copies[d][i]] : i \in Unsent(d)}
      BY <1>1, <1>8, <2>2
    <3> QED
      BY <3>1 DEF todoBar
  <2> HIDE DEF c
  <2>3. \A d \in Caster : {file'[copies'[d][i]] : i \in Unsent(d)'}
                             = IF d = b THEN todoBar[b] \ {c} ELSE todoBar[d]
    BY <2>1, <2>2
  <2>4. /\ todoBar' = [d \in Caster |-> {file'[copies'[d][i]] : i \in Unsent(d)'}]
        /\ todoBar = [d \in Caster |-> todoBar[d]]
    BY DEF todoBar
  <2> QED
    BY <2>3, <2>4
<1>10. c \in todoBar[b]
  BY <1>3, <1>6
<1> HIDE DEF c
<1> QED
  BY <1>2, <1>9, <1>10 DEF Bus!Deliver

LEMMA BusCloseCopy ==
  ASSUME IInv, NEW b \in Caster, CloseCopy(b)
  PROVE  UNCHANGED <<membersBar, todoBar>>
<1> USE DEF IInv
<1> DEFINE f == copies[b][1]
<1>0. UNCHANGED slots /\ bpc[b] = "close"
  BY DEF CloseCopy, tableVars
<1>1. /\ f \in Fd /\ 1 \in DOMAIN copies[b]
      /\ \A g \in Fd : file'[g] = IF g = f THEN NoClient ELSE file[g]
      /\ copies' \in [Caster -> Seq(Fd)] /\ Len(copies'[b]) = Len(copies[b]) - 1
      /\ \A i \in DOMAIN copies'[b] : copies'[b][i] = copies[b][i + 1]
      /\ \A d \in Caster : d # b => copies'[d] = copies[d]
      /\ bpc'[b] = AfterCopy(copies'[b])
      /\ \A d \in Caster : d # b => bpc'[d] = bpc[d]
  BY CopyClosed
<1>10. bpc'[b] # "close"
  BY <1>1 DEF AfterCopy
<1>2. UNCHANGED membersBar
  <2>1. \A i \in Slot \ Empty : file'[slots[i]] = file[slots[i]]
    BY <1>1, SlotFacts
  <2> QED
    BY <1>0, <2>1 DEF membersBar, Empty
<1>3. \A d \in Caster : \A i \in DOMAIN copies[d] :
         copies[d][i] \in Fd /\ (copies[d][i] = f => d = b /\ i = 1)
  BY <1>0, <1>1, ElementOfSeq, LenProperties DEF CopiesOwned, Types
<1>4. \A d \in Caster : {file'[copies'[d][i]] : i \in Unsent(d)'} = {file[copies[d][i]] : i \in Unsent(d)}
  <2> TAKE d \in Caster
  <2>1. CASE d = b
    <3> DEFINE n == Len(copies[b])
    <3>1. /\ n \in Nat \ {0} /\ DOMAIN copies[b] = 1..n /\ DOMAIN copies'[b] = 1..(n - 1)
          /\ Unsent(b) = 2..n /\ Unsent(b)' = 1..(n - 1)
      BY <1>0, <1>1, <1>10, LenProperties, EmptySeq DEF Unsent, Types
    <3>2. \A i \in 1..(n - 1) : i + 1 \in 2..n /\ file'[copies'[b][i]] = file[copies[b][i + 1]]
      <4> TAKE i \in 1..(n - 1)
      <4>1. i + 1 \in 2..n /\ i + 1 \in DOMAIN copies[b] /\ i + 1 # 1 /\ i \in DOMAIN copies'[b]
        BY <3>1
      <4> QED
        BY <1>1, <1>3, <4>1
    <3> DEFINE new == {file'[copies'[b][i]] : i \in 1..(n - 1)}
               old == {file[copies[b][i]] : i \in 2..n}
    <3>3. \A i \in 1..(n - 1) : file'[copies'[b][i]] \in old
      BY <3>2
    <3>4. ASSUME NEW j \in 2..n
          PROVE  file[copies[b][j]] \in new
      <4>1. j - 1 \in 1..(n - 1) /\ (j - 1) + 1 = j
        BY <3>1
      <4>2. file'[copies'[b][j - 1]] = file[copies[b][(j - 1) + 1]]
        BY <3>2, <4>1
      <4>3. file'[copies'[b][j - 1]] \in new
        BY <4>1
      <4> QED
        BY <4>1, <4>2, <4>3
    <3>5. new = old
      BY <3>3, <3>4
    <3> QED
      <4> DEFINE before == {file[copies[b][i]] : i \in Unsent(b)}
                 after == {file'[copies'[b][i]] : i \in Unsent(b)'}
      <4>1. after = new
        BY <3>1
      <4>2. before = old
        BY <3>1
      <4> HIDE DEF new, old, before, after
      <4>3. after = before
        BY <3>5, <4>1, <4>2
      <4>4. after = {file'[copies'[d][i]] : i \in Unsent(d)'}
        BY <2>1 DEF after
      <4>5. before = {file[copies[d][i]] : i \in Unsent(d)}
        BY <2>1 DEF before
      <4> QED
        BY <4>3, <4>4, <4>5
  <2>2. CASE d # b
    <3>1. UNCHANGED Unsent(d) /\ Unsent(d) \in SUBSET (DOMAIN copies[d])
      BY <1>1, <2>2, LenProperties DEF Unsent, Types
    <3>2. \A i \in DOMAIN copies[d] : file'[copies'[d][i]] = file[copies[d][i]]
      BY <1>1, <1>3, <2>2
    <3> QED
      BY <3>1, <3>2
  <2> QED
    BY <2>1, <2>2
<1>5. UNCHANGED todoBar
  BY <1>4 DEF todoBar
<1> QED
  BY <1>2, <1>5

LEMMA BusCancelCast ==
  ASSUME IInv, NEW b \in Caster, CancelCast(b)
  PROVE  Bus!Abandon(b)
<1> USE DEF CancelCast, IInv, tableVars
<1>1. /\ UNCHANGED <<file, slots>> /\ copies'[b] = <<>> /\ bpc'[b] = "idle"
      /\ \A d \in Caster : d # b => copies'[d] = copies[d] /\ bpc'[d] = bpc[d]
  BY DEF Types
<1>2. UNCHANGED membersBar
  BY <1>1 DEF membersBar, Empty
<1>3. \A d \in Caster : {file'[copies'[d][i]] : i \in Unsent(d)'} = IF d = b THEN {} ELSE todoBar[d]
  <2>1. Unsent(b)' = {}
    BY <1>1 DEF Unsent
  <2>2. \A d \in Caster : d # b => UNCHANGED Unsent(d)
    BY <1>1 DEF Unsent
  <2> QED
    BY <1>1, <2>1, <2>2 DEF todoBar
<1>4. todoBar' = [todoBar EXCEPT ![b] = {}]
  BY <1>3 DEF todoBar
<1> QED
  BY <1>2, <1>4 DEF Bus!Abandon

(* The descriptors that accept, main and a handler open and close are in   *)
(* no slot at that moment, and never a copy.                               *)
LEMMA BusSilent ==
  ASSUME IInv, Accept \/ CloseNew \/ \E c \in Client : CloseOwn(c)
  PROVE  UNCHANGED <<membersBar, todoBar>>
<1> USE DEF IInv
<1>1. PICK f \in Fd : /\ \A g \in Fd : g # f => file'[g] = file[g]
                      /\ \A i \in Slot \ Empty : slots[i] # f
                      /\ \A b \in Caster : \A i \in DOMAIN copies[b] : copies[b][i] # f
  <2>1. CASE Accept
    <3> DEFINE f == NewFd(1)
    <3>1. f \in Fd /\ file[f] = NoClient
      <4>1. 1 \in 1..Cardinality(Closed)
        BY <2>1, Finite, FS_EmptySet DEF Accept
      <4> QED
        BY <4>1, NewFdClosed DEF Closed
    <3>2. file' = [file EXCEPT ![f] = Head(backlog)]
      BY <2>1 DEF Accept
    <3> HIDE DEF f
    <3>3. \A i \in Slot \ Empty : slots[i] # f
      BY <3>1, SlotFacts, RegistryAssumption
    <3>4. \A b \in Caster : \A i \in DOMAIN copies[b] : copies[b][i] # f
      BY <3>1, RegistryAssumption DEF CopiesOwned
    <3> QED
      BY <3>1, <3>2, <3>3, <3>4 DEF Types
  <2>2. CASE CloseNew
    <3>1. mfd \in Fd /\ file' = [file EXCEPT ![mfd] = NoClient] /\ mpc = "close"
      BY <2>2 DEF CloseNew, Close, MainOwnsFd
    <3>2. \A i \in Slot \ Empty : slots[i] # mfd
      BY <3>1 DEF SlotsNameOpenClients, MainOwnsFd
    <3> QED
      BY <3>1, <3>2 DEF CopiesOwned, Types
  <2>3. ASSUME NEW c \in Client, CloseOwn(c)
        PROVE  \E f \in Fd : /\ \A g \in Fd : g # f => file'[g] = file[g]
                             /\ \A i \in Slot \ Empty : slots[i] # f
                             /\ \A b \in Caster : \A i \in DOMAIN copies[b] : copies[b][i] # f
    <3>1. hfd[c] \in Fd /\ file[hfd[c]] = c /\ file' = [file EXCEPT ![hfd[c]] = NoClient]
          /\ hpc[c] = "close"
      BY <2>3 DEF CloseOwn, Close, HandlersOwnFd
    <3>2. \A i \in Slot \ Empty : slots[i] # hfd[c]
      BY <3>1 DEF SlotsNameOpenClients, MainOwnsFd
    <3> QED
      BY <3>1, <3>2 DEF CopiesOwned, Types
  <2> QED
    BY <2>1, <2>2, <2>3
<1>2. UNCHANGED <<slots, bpc, copies>>
  BY DEF Accept, CloseNew, CloseOwn, tableVars, casterVars
<1>3. \A b \in Caster : \A i \in DOMAIN copies[b] : copies[b][i] \in Fd
  BY ElementOfSeq, LenProperties DEF Types
<1> QED
  BY <1>1, <1>2, <1>3, SlotFacts, Quiet

LEMMA BusStep ==
  ASSUME IInv, [Next]_vars
  PROVE  [Bus!Next]_<<membersBar, todoBar>>
<1> DEFINE Still == UNCHANGED <<membersBar, todoBar>>
<1>1. ASSUME UNCHANGED <<file, slots, bpc, copies>>
      PROVE  Still
  BY <1>1, Quiet
<1>2. CASE UNCHANGED vars
  BY <1>1, <1>2 DEF vars, tableVars, casterVars
<1>3. ASSUME NEW c \in Client,
             Connect(c) \/ HangUp(c) \/ Receive(c) \/ Reply(c) \/ Eof(c)
      PROVE  Still
  BY <1>1, <1>3 DEF Connect, HangUp, Receive, Reply, Eof, tableVars, casterVars, Still
<1>4. CASE Startup \/ Create
  BY <1>1, <1>4 DEF Startup, LoadLibraries, SetupServer, Daemonize, InitializeHardware,
                    StartWorkers, Stage, Create, tableVars, casterVars
<1>5. CASE Register
  BY <1>5, BusRegister
<1>6. CASE Rollback
  BY <1>6, BusUnregister DEF Rollback, IInv, MainOwnsFd, casterVars
<1>7. ASSUME NEW c \in Client, Clear(c)
      PROVE  Bus!Next \/ Still
  BY <1>7, BusUnregister DEF Clear, IInv, HandlersOwnFd, casterVars
<1>8. CASE Accept \/ CloseNew \/ \E c \in Client : CloseOwn(c)
  BY <1>8, BusSilent
<1>9. ASSUME NEW b \in Caster, Broadcast(b) \/ SendCopy(b) \/ CancelCast(b)
      PROVE  Bus!Next
  BY <1>9, BusBroadcast, BusSendCopy, BusCancelCast DEF Bus!Next
<1>10. ASSUME NEW b \in Caster, CloseCopy(b)
      PROVE  Still
  BY <1>10, BusCloseCopy
<1> QED
  BY <1>2, <1>3, <1>4, <1>5, <1>6, <1>7, <1>8, <1>9, <1>10
     DEF Next, Main, Handler, Cast, Exited

(* Events reach only clients that were registered when they were           *)
(* broadcast, each at most once, whoever leaves and whoever arrives on a   *)
(* descriptor number meanwhile; and the table never holds more than        *)
(* MAX_CLIENTS: the table and broadcast_msg implement EventBus.            *)
THEOREM Refinement == Spec => ImplementsEventBus
<1>1. Init => Bus!Init
  <2> SUFFICES ASSUME Init PROVE Bus!Init
    OBVIOUS
  <2>1. membersBar = {}
    BY DEF Init, membersBar, Empty
  <2>2. \A b \in Caster : Unsent(b) = {}
    BY DEF Init, Unsent
  <2>3. todoBar = [b \in Caster |-> {}]
    BY <2>2 DEF todoBar
  <2> QED
    BY <2>1, <2>3 DEF Bus!Init
<1>2. IInv /\ [Next]_vars => [Bus!Next]_(Bus!busVars)
  BY BusStep DEF Bus!busVars
<1> QED
  BY <1>1, <1>2, Invariance, PTL DEF Spec, ImplementsEventBus, Bus!Spec

=============================================================================
