-------------------------- MODULE SandboxPoolProofs --------------------------
(***************************************************************************)
(* Proofs about SandboxPool, for any number of clients, health checks and  *)
(* containers and any limits: the queue and the set beside it agree, every *)
(* container has one owner unless Docker refused to remove it, grants are  *)
(* clean unless a script was overtaken by its cleanup, the maintenance     *)
(* lock is held by a task at work, and the limit is passed only by         *)
(* creations that began together.                                          *)
(***************************************************************************)
EXTENDS SandboxPool, FiniteSetTheorems, WellFoundedInduction, TLAPS

(* The types of the books and of the tasks' variables. *)
BooksTyped ==
  /\ objects \subseteq Containers /\ IsFiniteSet(objects)
  /\ pooled \subseteq Containers /\ pool \in Seq(Containers)
  /\ expired \subseteq objects /\ used \subseteq objects
  /\ stuck \subseteq objects /\ overtaken \subseteq objects

Places ==
  {"idle", "pinging", "allocating", "warm", "warming", "holding", "executing",
   "cleaning", "returning", "replacing", "reconciling"}

TasksTyped ==
  /\ lock \in Tasks \cup {None}
  /\ pc \in [Tasks -> Places]
  /\ at \in [Tasks -> Containers \cup {None}]
  /\ creating \subseteq Tasks
  /\ needed \in [Tasks -> 0..PoolMin]
  /\ todo \in [Checks -> SUBSET Containers]
  /\ script \in [Clients -> Containers \cup {None}]

(* What a task is about follows from where it is suspended. *)
Placed(t) ==
  /\ t \in Clients =>
       /\ pc[t] # "reconciling"
       /\ pc[t] \in {"idle", "allocating", "replacing"} <=> at[t] = None
  /\ t \in Checks =>
       /\ pc[t] \in {"idle", "reconciling", "warm", "warming"}
       /\ at[t] = None
  /\ pc[t] = "warming" => needed[t] > 0
  /\ t \in creating => AwaitsContainer(t)

TasksInv == \A t \in Tasks : Placed(t)

(* The queue holds an idle container once; other entries are of containers *)
(* that were removed.                                                      *)
QueueInv ==
  /\ pooled \subseteq objects
  /\ pooled \subseteq ToSet(pool)
  /\ \A i \in DOMAIN pool : pool[i] \in objects => pool[i] \in pooled
  /\ \A i, j \in DOMAIN pool :
       pool[i] = pool[j] /\ pool[i] \in objects => i = j

(* A container is idle, or was let go of because Docker refused to remove  *)
(* it, or one task is about it.                                            *)
Ownerless == pooled \cup stuck

OwnersInv ==
  /\ stuck \cap pooled = {}
  /\ \A t \in Tasks : at[t] \notin Ownerless
  /\ \A c \in objects \ Ownerless : \E t \in Tasks : at[t] = c
  /\ \A t, u \in Tasks : at[t] = at[u] /\ at[t] \in objects => t = u

(* Only a script that was overtaken by the cleanup of its container leaves *)
(* something in one that is idle, granted or about to be returned.         *)
Clean(c) == c \in objects /\ c \in Unclean => c \in overtaken

Quiet(c) == c \in objects /\ c \in AtWork => c \in overtaken

Handed == {"pinging", "warm", "warming", "returning"}

CleanInv ==
  /\ \A c \in pooled : Clean(c)
  /\ \A t \in Clients :
       /\ pc[t] \in Handed => Clean(at[t])
       /\ pc[t] = "cleaning" => Quiet(at[t])

Inv ==
  /\ BooksTyped /\ TasksTyped /\ TasksInv
  /\ QueueInv /\ OwnersInv /\ CleanInv /\ LockHeldAtWork

-----------------------------------------------------------------------------
(* The queue *)

(* A set of natural numbers has a least element.                           *)
LEMMA LeastElement ==
  ASSUME NEW S \in SUBSET Nat, S # {}
  PROVE  \E m \in S : \A n \in S : m <= n
<1>1. PICK m \in S : \A n \in S : <<n, m>> \notin OpToRel(<, Nat)
  BY NatLessThanWellFounded, WFMin
<1>2. \A n \in S : ~(n < m)
  BY <1>1 DEF OpToRel
<1>. QED BY <1>2

(* The entries among the first n that _compact_pool keeps. *)
KeptOf(n) == {pool[i] : i \in 1..n} \cap objects \cap pooled

CompactedOf(n, s) ==
  /\ s \in SetToSeqs(KeptOf(n)) /\ IsFiniteSet(KeptOf(n))
  /\ InOrder(s)

(* One entry more is either kept, after all others, or it is not. *)
LEMMA OneMoreEntry ==
  ASSUME BooksTyped, NEW n \in Nat, n + 1 <= Len(pool), NEW s, CompactedOf(n, s)
  PROVE  \E q : CompactedOf(n + 1, q)
<1>. DEFINE x == pool[n + 1]
            K == KeptOf(n)
            m == Cardinality(K)
<1>0. /\ Len(pool) \in Nat /\ DOMAIN pool = 1..Len(pool)
      /\ n + 1 \in DOMAIN pool
  BY DEF BooksTyped
<1>1. KeptOf(n + 1) = K \cup ({x} \cap objects \cap pooled)
  <2>1. 1..(n + 1) = (1..n) \cup {n + 1}
    OBVIOUS
  <2>. QED BY <2>1 DEF KeptOf
<1>2. CASE x \notin objects \cap pooled \/ x \in K
  <2>1. KeptOf(n + 1) = K
    BY <1>1, <1>2 DEF KeptOf
  <2>. QED BY <2>1 DEF CompactedOf
<1>3. CASE x \in objects \cap pooled /\ x \notin K
  <2>. DEFINE q == [i \in 1..m + 1 |-> IF i <= m THEN s[i] ELSE x]
  <2>1. KeptOf(n + 1) = K \cup {x} /\ IsFiniteSet(K) /\ m \in Nat
    BY <1>1, <1>3, FS_CardinalityType DEF CompactedOf
  <2>2. IsFiniteSet(K \cup {x}) /\ Cardinality(K \cup {x}) = m + 1
    BY <2>1, <1>3, FS_AddElement
  <2>3. /\ s \in [1..m -> K]
        /\ \A i, j \in 1..m : i # j => s[i] # s[j]
        /\ \A i, j \in 1..m : i < j => Before(s[i], s[j])
    BY DEF CompactedOf, SetToSeqs, InOrder
  <2>4. q \in [1..m + 1 -> K \cup {x}]
    BY <2>1, <2>3
  <2>5. \A i, j \in 1..m + 1 : i # j => q[i] # q[j]
    BY <2>1, <2>3, <1>3
  <2>6. q \in SetToSeqs(KeptOf(n + 1))
    BY <2>1, <2>2, <2>4, <2>5 DEF SetToSeqs
  <2>7. ASSUME NEW c \in K PROVE Before(c, x)
    <3>1. PICK i \in 1..n : pool[i] = c
      BY DEF KeptOf
    <3>2. \A j \in 1..i : j \in 1..n
      BY <3>1
    <3>3. \A j \in 1..i : pool[j] # x
      BY <3>2, <1>3 DEF KeptOf
    <3>. QED BY <1>0, <3>1, <3>3 DEF Before
  <2>8. InOrder(q)
    <3>. SUFFICES ASSUME NEW i \in 1..m + 1, NEW j \in 1..m + 1, i < j
                  PROVE  Before(q[i], q[j])
      BY DEF InOrder
    <3>1. i \in 1..m /\ q[i] = s[i]
      BY <2>1
    <3>2. CASE j <= m
      BY <3>1, <3>2, <2>1, <2>3
    <3>3. CASE j = m + 1
      BY <3>1, <3>3, <2>1, <2>3, <2>7
    <3>. QED BY <3>2, <3>3, <2>1
  <2>. QED BY <2>1, <2>2, <2>6, <2>8 DEF CompactedOf
<1>. QED BY <1>2, <1>3

(* Every queue can be compacted. *)
LEMMA CompactedExists ==
  ASSUME BooksTyped
  PROVE  \E s \in SetToSeqs(Kept) : InOrder(s) /\ IsFiniteSet(Kept)
<1>. DEFINE Bad == {n \in Nat : n <= Len(pool) /\ ~ \E s : CompactedOf(n, s)}
<1>0. Len(pool) \in Nat /\ DOMAIN pool = 1..Len(pool)
  BY DEF BooksTyped
<1>1. CompactedOf(0, <<>>)
  <2>1. KeptOf(0) = {} /\ IsFiniteSet({}) /\ Cardinality({}) = 0
    BY FS_EmptySet DEF KeptOf
  <2>2. <<>> \in [1..0 -> {}] /\ DOMAIN <<>> = {}
    OBVIOUS
  <2>. QED BY <2>1, <2>2 DEF CompactedOf, SetToSeqs, InOrder
<1>2. Bad = {}
  <2>. SUFFICES ASSUME Bad # {} PROVE FALSE
    OBVIOUS
  <2>1. PICK m \in Bad : \A n \in Bad : m <= n
    BY LeastElement
  <2>2. m # 0 /\ m \in Nat
    BY <1>1
  <2>3. m - 1 \in Nat /\ m - 1 \notin Bad /\ m <= Len(pool)
    BY <2>1, <2>2
  <2>4. PICK s : CompactedOf(m - 1, s)
    BY <1>0, <2>3
  <2>5. (m - 1) + 1 = m
    BY <2>2
  <2>6. \E q : CompactedOf(m, q)
    BY <2>3, <2>4, <2>5, OneMoreEntry
  <2>. QED BY <2>6
<1>3. PICK s : CompactedOf(Len(pool), s)
  BY <1>0, <1>2
<1>4. KeptOf(Len(pool)) = Kept
  BY <1>0 DEF KeptOf, Kept, ToSet
<1>. QED BY <1>3, <1>4 DEF CompactedOf

(* A sequence of containers without repetition *)
Distinct(s) == \A i, j \in DOMAIN s : s[i] = s[j] => i = j

(* Compacting leaves the idle containers and nothing else. *)
LEMMA CompactedIsIdle ==
  ASSUME BooksTyped, QueueInv
  PROVE  /\ Compacted \in Seq(Containers)
         /\ Distinct(Compacted)
         /\ ToSet(Compacted) = pooled
<1>. DEFINE m == Cardinality(Kept)
<1>1. Compacted \in SetToSeqs(Kept) /\ IsFiniteSet(Kept)
  BY CompactedExists DEF Compacted
<1>2. /\ Compacted \in [1..m -> Kept] /\ m \in Nat
      /\ \A i, j \in 1..m : i # j => Compacted[i] # Compacted[j]
  BY <1>1, FS_CardinalityType DEF SetToSeqs
<1>3. Kept = pooled
  BY DEF Kept, QueueInv
<1>4. Compacted \in Injection(1..m, Kept)
  BY <1>2 DEF Injection, IsInjective
<1>5. Compacted \in Surjection(1..m, Kept)
  <2>1. Cardinality(1..m) = m
    BY <1>2, FS_Interval
  <2>. QED BY <1>1, <1>2, <1>4, <2>1, FS_Injection
<1>6. ToSet(Compacted) = Kept
  BY <1>2, <1>5 DEF Surjection, ToSet
<1>7. Compacted \in Seq(Containers)
  <2>1. Compacted \in [1..m -> Containers]
    BY <1>2, <1>3 DEF BooksTyped
  <2>. QED BY <1>2, <2>1
<1>. QED BY <1>2, <1>3, <1>6, <1>7 DEF Distinct

(* Appending one container adds it and, if it is new, repeats nothing.      *)
LEMMA OneAppended ==
  ASSUME NEW s \in Seq(Containers), NEW c \in Containers
  PROVE  /\ Append(s, c) \in Seq(Containers)
         /\ ToSet(Append(s, c)) = ToSet(s) \cup {c}
         /\ Distinct(s) /\ c \notin ToSet(s) => Distinct(Append(s, c))
<1>. DEFINE q == Append(s, c)
            n == Len(s)
<1>1. n \in Nat /\ DOMAIN s = 1..n /\ DOMAIN q = 1..n + 1
  OBVIOUS
<1>2. q[n + 1] = c /\ \A i \in 1..n : q[i] = s[i]
  BY <1>1
<1>3. \A i \in DOMAIN q : i \in DOMAIN s \/ i = n + 1
  BY <1>1
<1>4. n + 1 \in DOMAIN q /\ \A i \in DOMAIN s : i \in DOMAIN q
  BY <1>1
<1>5. ToSet(q) = ToSet(s) \cup {c}
  BY <1>1, <1>2, <1>3, <1>4 DEF ToSet
<1>6. ASSUME Distinct(s), c \notin ToSet(s) PROVE Distinct(q)
  BY <1>1, <1>2, <1>3, <1>6 DEF Distinct, ToSet
<1>. QED BY <1>5, <1>6

(* The queue and the set are replaced together. *)
LEMMA IdleKeepsQueue ==
  ASSUME NEW q \in Seq(Containers), Distinct(q), ToSet(q) \subseteq objects',
         Idle(q)
  PROVE  QueueInv' /\ pool' \in Seq(Containers) /\ pooled' = ToSet(q)
<1>1. pool' = q /\ pooled' = ToSet(q)
  BY DEF Idle
<1>2. \A i \in DOMAIN pool' : pool'[i] \in pooled'
  BY <1>1 DEF ToSet
<1>. QED BY <1>1, <1>2 DEF QueueInv, Distinct

(* A new container becomes idle, is removed, or is left to nobody. *)
LEMMA NewIsIdle ==
  ASSUME BooksTyped, QueueInv, NEW c \in Forgotten, AddNew(c)
  PROVE  /\ pool' \in Seq(Containers) /\ QueueInv'
         /\ \E X, Y \in {{}, {c}} : /\ objects' = objects \cup X \cup Y
                                    /\ pooled' = pooled \cup X
                                    /\ stuck' = stuck \cup Y
                                    /\ X \cap Y = {}
         /\ UNCHANGED <<expired, used, overtaken>>
<1>1. c \in Containers \ objects /\ c \notin ToSet(pool)
  BY DEF Forgotten
<1>2. CASE /\ UNCHANGED <<objects, stuck, pool, pooled>>
           /\ UNCHANGED <<expired, used, overtaken>>
  BY <1>2 DEF BooksTyped, QueueInv
<1>3. CASE /\ objects' = objects \cup {c} /\ stuck' = stuck \cup {c}
           /\ UNCHANGED <<pool, pooled>> /\ UNCHANGED <<expired, used, overtaken>>
  <2>1. \A i \in DOMAIN pool : pool[i] # c
    BY <1>1 DEF ToSet
  <2>2. QueueInv'
    BY <1>3, <2>1 DEF QueueInv
  <2>3. /\ pooled' = pooled \cup {} /\ {} \cap {c} = {}
        /\ objects' = objects \cup {} \cup {c}
    BY <1>3
  <2>. QED BY <1>3, <2>2, <2>3 DEF BooksTyped
<1>4. CASE /\ objects' = objects \cup {c} /\ pool' = Append(pool, c)
           /\ pooled' = pooled \cup {c}
           /\ UNCHANGED <<stuck, expired, used, overtaken>>
  <2>1. pool \in Seq(Containers)
    BY DEF BooksTyped
  <2>2. pool' \in Seq(Containers) /\ ToSet(pool') = ToSet(pool) \cup {c}
    BY <1>1, <1>4, <2>1, OneAppended
  <2>. DEFINE n == Len(pool)
  <2>3. /\ n \in Nat /\ DOMAIN pool = 1..n /\ DOMAIN pool' = 1..n + 1
        /\ pool'[n + 1] = c /\ \A i \in 1..n : pool'[i] = pool[i]
    BY <1>4, <2>1
  <2>4. \A i \in DOMAIN pool' : i \in DOMAIN pool \/ i = n + 1
    BY <2>3
  <2>5. \A i \in DOMAIN pool : pool[i] # c
    BY <1>1 DEF ToSet
  <2>6. \A i \in DOMAIN pool' : pool'[i] \in objects' => pool'[i] \in pooled'
    BY <1>4, <2>3, <2>4 DEF QueueInv
  <2>7. \A i, j \in DOMAIN pool' :
          pool'[i] = pool'[j] /\ pool'[i] \in objects' => i = j
    BY <1>4, <2>3, <2>4, <2>5 DEF QueueInv
  <2>8. pooled' \subseteq objects' /\ pooled' \subseteq ToSet(pool')
    BY <1>4, <2>2 DEF QueueInv
  <2>9. QueueInv'
    BY <2>6, <2>7, <2>8 DEF QueueInv
  <2>10. /\ stuck' = stuck \cup {} /\ {c} \cap {} = {}
         /\ objects' = objects \cup {c} \cup {}
    BY <1>4
  <2>. QED BY <1>4, <2>2, <2>9, <2>10
<1>. QED BY <1>2, <1>3, <1>4 DEF AddNew

(* What is left of the queue once it is drained up to an entry. *)
LEMMA DrainedQueue ==
  ASSUME BooksTyped, QueueInv, NEW n \in 0..Len(pool),
         n = 0 => Len(pool) = 0, NEW R, NEW D,
         objects' = objects \ R,
         pool' = SubSeq(pool, n + 1, Len(pool)),
         pooled' = pooled \ D,
         \A i \in 1..Len(pool) : i <= n => pool[i] \in D,
         D \cap pooled \subseteq R \cup {pool[i] : i \in 1..Len(pool) \cap {n}},
         R \subseteq D
  PROVE  QueueInv' /\ pool' \in Seq(Containers)
<1>. DEFINE len == Len(pool)
<1>1. pool \in Seq(Containers) /\ len \in Nat /\ DOMAIN pool = 1..len
  BY DEF BooksTyped
<1>2. n + 1 \in Nat /\ n \in Nat
  BY <1>1
<1>3. pool' \in Seq(Containers)
  BY <1>1, <1>2
<1>4. CASE n >= len
  <2>1. pool' = <<>>
    BY <1>1, <1>2, <1>4
  <2>2. pooled' = {}
    <3>1. ASSUME NEW c \in pooled PROVE c \in D
      <4>1. PICK i \in 1..len : pool[i] = c
        BY <1>1, <3>1 DEF QueueInv, ToSet
      <4>. QED BY <1>1, <1>2, <1>4, <4>1
    <3>. QED BY <3>1
  <2>. QED BY <1>3, <2>1, <2>2 DEF QueueInv
<1>5. CASE n < len
  <2>1. /\ DOMAIN pool' = 1..(len - n)
        /\ \A i \in 1..(len - n) : pool'[i] = pool[n + i]
    BY <1>1, <1>2, <1>5
  <2>2. \A i \in 1..(len - n) : n + i \in 1..len /\ n + i > n
    BY <1>1, <1>2, <1>5
  <2>3. \A i \in DOMAIN pool' : pool'[i] \in objects' => pool'[i] \in pooled'
    <3>. SUFFICES ASSUME NEW i \in 1..(len - n), pool[n + i] \in objects \ R
                  PROVE  pool[n + i] \notin D
      BY <1>1, <2>1, <2>2 DEF QueueInv
    <3>1. pool[n + i] \in pooled
      BY <1>1, <2>2 DEF QueueInv
    <3>2. n \in 1..len
      BY <1>1, <1>2, <1>5
    <3>3. pool[n] # pool[n + i]
      BY <1>1, <1>2, <2>2, <3>2 DEF QueueInv
    <3>. QED BY <3>1, <3>3
  <2>4. \A i, j \in DOMAIN pool' :
          pool'[i] = pool'[j] /\ pool'[i] \in objects' => i = j
    <3>. SUFFICES ASSUME NEW i \in DOMAIN pool', NEW j \in DOMAIN pool',
                         pool'[i] = pool'[j], pool'[i] \in objects'
                  PROVE  i = j
      OBVIOUS
    <3>1. i \in 1..(len - n) /\ j \in 1..(len - n)
      BY <2>1
    <3>2. pool[n + i] = pool[n + j] /\ pool[n + i] \in objects
      BY <2>1, <3>1
    <3>3. n + i = n + j
      BY <1>1, <2>2, <3>1, <3>2 DEF QueueInv
    <3>. QED BY <1>2, <3>1, <3>3
  <2>5. pooled' \subseteq objects'
    BY DEF QueueInv
  <2>6. ASSUME NEW c \in pooled \ D PROVE c \in ToSet(pool')
    <3>1. PICK i \in 1..len : pool[i] = c
      BY <1>1, <2>6 DEF QueueInv, ToSet
    <3>2. i > n
      BY <1>2, <2>6, <3>1
    <3>3. i - n \in 1..(len - n) /\ n + (i - n) = i
      BY <1>1, <1>2, <3>2
    <3>. QED BY <2>1, <3>1, <3>3 DEF ToSet
  <2>. QED BY <1>3, <2>3, <2>4, <2>5, <2>6 DEF QueueInv
<1>. QED BY <1>1, <1>2, <1>4, <1>5

(* Whoever drains the queue gives up what it was about, takes what it has  *)
(* found and leaves what Docker refused to remove to nobody.               *)
LEMMA OwnersTaken ==
  ASSUME Inv, NEW t \in Tasks, NEW R, NEW D, NEW refused,
         NEW x \in Containers \cup {None},
         objects' = objects \ R, pooled' = pooled \ D,
         stuck' = (stuck \ R) \cup refused, at' = [at EXCEPT ![t] = x],
         (D \cap pooled) \ R = refused \cup ({x} \ {None}),
         x \notin refused, at[t] = None \/ at[t] \in R
  PROVE  OwnersInv' /\ stuck' \subseteq objects'
<1>. USE NoneAssumption DEF Inv
<1>1. /\ None \notin objects /\ stuck \subseteq objects /\ pooled \subseteq objects
      /\ stuck \cap pooled = {}
  BY DEF BooksTyped, QueueInv, OwnersInv
<1>2. /\ at'[t] = x /\ \A u \in Tasks : u # t => at'[u] = at[u]
  BY DEF TasksTyped
<1>3. stuck' \subseteq objects' /\ stuck' \cap pooled' = {}
  BY <1>1
<1>4. x \notin Ownerless'
  BY <1>1 DEF Ownerless
<1>5. ASSUME NEW u \in Tasks, u # t PROVE at[u] \notin Ownerless'
  BY DEF OwnersInv, Ownerless
<1>6. ASSUME NEW c \in objects' \ Ownerless' PROVE \E u \in Tasks : at'[u] = c
  <2>1. c \in objects /\ c \notin R /\ c \notin refused /\ c \notin stuck
    BY <1>6 DEF Ownerless
  <2>2. CASE c \in pooled
    <3>1. c \in D
      BY <1>6, <2>2 DEF Ownerless
    <3>2. c = x
      BY <2>1, <2>2, <3>1
    <3>. QED BY <1>2, <3>2
  <2>3. CASE c \notin pooled
    <3>1. PICK u \in Tasks : at[u] = c
      BY <2>1, <2>3 DEF OwnersInv, Ownerless
    <3>2. u # t
      BY <1>1, <2>1, <3>1
    <3>. QED BY <1>2, <3>1, <3>2
  <2>. QED BY <2>2, <2>3
<1>7. \A u \in Tasks : at[u] = x => x \notin objects
  BY <1>1 DEF OwnersInv, Ownerless
<1>8. ASSUME NEW u \in Tasks, NEW v \in Tasks, at'[u] = at'[v],
             at'[u] \in objects'
      PROVE  u = v
  BY <1>2, <1>7, <1>8 DEF OwnersInv
<1>. QED BY <1>2, <1>3, <1>4, <1>5, <1>6, <1>8 DEF OwnersInv

TakenIdle(t) ==
  /\ pool' \in Seq(Containers) /\ QueueInv' /\ OwnersInv'
  /\ objects' \subseteq objects /\ pooled' \subseteq pooled
  /\ expired' = expired \cap objects' /\ used' = used \cap objects'
  /\ overtaken' = overtaken \cap objects' /\ stuck' \subseteq objects'
  /\ \/ /\ pc' = [pc EXCEPT ![t] = "allocating"]
        /\ at' = [at EXCEPT ![t] = None]
     \/ /\ pc' = [pc EXCEPT ![t] = "idle"]
        /\ at' = [at EXCEPT ![t] = None]
     \/ /\ pc' = [pc EXCEPT ![t] = "pinging"]
        /\ \E c \in pooled : at' = [at EXCEPT ![t] = c]

(* A client takes the first usable container, if any, and those before it  *)
(* are removed or were; gone is what it was about.                         *)
LEMMA TakeIdleKeeps ==
  ASSUME Inv, NEW t \in Clients, NEW gone, gone \ {None} = {at[t]} \ {None},
         TakeIdle(t, gone)
  PROVE  TakenIdle(t)
<1>. USE NoneAssumption DEF Inv
<1>. DEFINE len == Len(pool)
            fit(i) == pool[i] \in objects \ (expired \cup gone)
<1>1. /\ pool \in Seq(Containers) /\ len \in Nat /\ DOMAIN pool = 1..len
      /\ t \in Tasks /\ None \notin objects /\ at[t] \notin pooled
      /\ \A i \in 1..len : pool[i] \in Containers
      /\ \A i \in 1..len : pool[i] \in objects => pool[i] \in pooled
  BY DEF BooksTyped, Tasks, OwnersInv, Ownerless, QueueInv
<1>2. PICK n \in 0..len, refused \in SUBSET pooled, x \in {None} \cup pooled,
           w \in {"allocating", "pinging", "idle"} :
        /\ Drain(n, gone, refused)
        /\ pc' = [pc EXCEPT ![t] = w] /\ at' = [at EXCEPT ![t] = x]
        /\ \A i \in 1..n - 1 : ~fit(i)
        /\ \/ n = len /\ refused = {} /\ x = None /\ w = "allocating"
              /\ \A i \in 1..len : ~fit(i)
           \/ n > 0 /\ fit(n) /\ refused = {} /\ x = pool[n] /\ w = "pinging"
           \/ n > 0 /\ pool[n] \in expired \ gone /\ refused = {pool[n]}
              /\ x = None /\ w = "idle"
  <2>. DEFINE P(n, refused, x, w) ==
        /\ Drain(n, gone, refused)
        /\ pc' = [pc EXCEPT ![t] = w] /\ at' = [at EXCEPT ![t] = x]
        /\ \A i \in 1..n - 1 : ~fit(i)
        /\ \/ n = len /\ refused = {} /\ x = None /\ w = "allocating"
              /\ \A i \in 1..len : ~fit(i)
           \/ n > 0 /\ fit(n) /\ refused = {} /\ x = pool[n] /\ w = "pinging"
           \/ n > 0 /\ pool[n] \in expired \ gone /\ refused = {pool[n]}
              /\ x = None /\ w = "idle"
  <2>1. ASSUME \A i \in DOMAIN pool : ~fit(i), Drain(len, gone, {}),
               Goto(t, "allocating"), Drop(t)
        PROVE  \E m \in 0..len, refused \in SUBSET pooled,
                  x \in {None} \cup pooled, w \in {"allocating", "pinging", "idle"} :
                  P(m, refused, x, w)
    <3>1. P(len, {}, None, "allocating")
      <4>1. \A i \in 1..len - 1 : i \in 1..len
        BY <1>1
      <4>. QED BY <1>1, <2>1, <4>1 DEF Goto, Drop
    <3>2. len \in 0..len
      BY <1>1
    <3>. QED BY <3>1, <3>2
  <2>2. ASSUME NEW n \in 1..len, \A i \in 1..n - 1 : ~fit(i), fit(n),
               Drain(n, gone, {}), Goto(t, "pinging"),
               at' = [at EXCEPT ![t] = pool[n]]
        PROVE  \E m \in 0..len, refused \in SUBSET pooled,
                  x \in {None} \cup pooled, w \in {"allocating", "pinging", "idle"} :
                  P(m, refused, x, w)
    <3>1. P(n, {}, pool[n], "pinging")
      BY <1>1, <2>2 DEF Goto
    <3>2. pool[n] \in pooled /\ n \in 0..len
      BY <1>1, <2>2
    <3>. QED BY <3>1, <3>2
  <2>3. ASSUME NEW n \in 1..len, \A i \in 1..n - 1 : ~fit(i),
               pool[n] \in expired \ gone,
               Drain(n, gone, {pool[n]}), Leave(t)
        PROVE  \E m \in 0..len, refused \in SUBSET pooled,
                  x \in {None} \cup pooled, w \in {"allocating", "pinging", "idle"} :
                  P(m, refused, x, w)
    <3>1. P(n, {pool[n]}, None, "idle")
      BY <1>1, <2>3 DEF Leave, Goto, Drop
    <3>2. pool[n] \in pooled /\ n \in 0..len
      BY <1>1, <2>3 DEF BooksTyped
    <3>. QED BY <3>1, <3>2
  <2>. HIDE DEF P
  <2>4. \E m \in 0..len, refused \in SUBSET pooled,
           x \in {None} \cup pooled, w \in {"allocating", "pinging", "idle"} :
           P(m, refused, x, w)
    <3>1. \/ /\ \A i \in DOMAIN pool : ~fit(i)
             /\ Drain(len, gone, {}) /\ Goto(t, "allocating") /\ Drop(t)
          \/ \E n \in 1..len :
               /\ \A i \in 1..n - 1 : ~fit(i)
               /\ \/ /\ fit(n) /\ Drain(n, gone, {}) /\ Goto(t, "pinging")
                     /\ at' = [at EXCEPT ![t] = pool[n]]
                  \/ /\ pool[n] \in expired \ gone
                     /\ Drain(n, gone, {pool[n]}) /\ Leave(t)
      BY <1>1 DEF TakeIdle
    <3>. HIDE DEF fit
    <3>. QED BY <2>1, <2>2, <2>3, <3>1
  <2>. QED BY <2>4 DEF P
<1>. DEFINE taken == {pool[i] : i \in 1..n}
            R == (gone \cup (taken \cap expired)) \ refused
            D == taken \cup gone
<1>3. /\ objects' = objects \ R /\ expired' = expired \ R /\ used' = used \ R
      /\ overtaken' = overtaken \ R /\ stuck' = (stuck \ R) \cup refused
      /\ pool' = SubSeq(pool, n + 1, len) /\ pooled' = pooled \ D
  BY <1>2 DEF Drain, Removal
<1>4. n = 0 => len = 0
  BY <1>1, <1>2
<1>5. \A i \in 1..len : i <= n => pool[i] \in D
  BY <1>1
<1>6. n > 0 => n \in 1..len
  BY <1>1
<1>7. ASSUME NEW c \in D \cap pooled, c \notin R
      PROVE  n > 0 /\ c = pool[n] /\ c \in refused \cup ({x} \ {None})
  <2>1. c \in taken /\ c \notin gone /\ c \in objects /\ c # None
    BY <1>1, <1>7 DEF QueueInv
  <2>2. PICK i \in 1..n : pool[i] = c
    BY <2>1
  <2>3. i \in 1..len /\ n \in 1..len
    BY <1>1, <2>2
  <2>4. CASE i = n
    <3>1. c \in expired => c \in refused
      BY <1>7, <2>1
    <3>2. fit(n) \/ c \in refused
      BY <2>1, <2>2, <2>4, <3>1
    <3>. QED BY <1>2, <2>1, <2>2, <2>3, <2>4, <3>2
  <2>5. CASE i # n
    <3>1. i \in 1..n - 1
      BY <2>2, <2>3, <2>5
    <3>2. c \in expired
      BY <1>2, <2>1, <2>2, <3>1
    <3>3. c \in refused
      BY <1>7, <2>1, <3>2
    <3>. QED BY <1>2, <2>3, <3>3
  <2>. QED BY <2>4, <2>5
<1>8. ASSUME NEW c \in refused \cup ({x} \ {None})
      PROVE  c \in D /\ c \in pooled /\ c \notin R
  <2>1. n > 0 /\ c = pool[n] /\ (fit(n) \/ c \in refused)
    BY <1>2, <1>8
  <2>2. c \in D /\ c \in pooled
    BY <1>2, <1>5, <1>6, <1>8, <2>1
  <2>3. c \notin R
    BY <1>2, <1>8, <2>1
  <2>. QED BY <2>2, <2>3
<1>9. (D \cap pooled) \ R = refused \cup ({x} \ {None})
  BY <1>7, <1>8
<1>10. x \notin refused /\ (at[t] = None \/ at[t] \in R)
  <2>1. x \notin refused
    BY <1>1, <1>2 DEF QueueInv
  <2>2. at[t] # None => at[t] \in gone /\ at[t] \notin refused
    BY <1>1
  <2>. QED BY <2>1, <2>2
<1>11. x \in Containers \cup {None}
  BY DEF BooksTyped
<1>12. QueueInv' /\ pool' \in Seq(Containers)
  <2>1. D \cap pooled \subseteq R \cup {pool[i] : i \in 1..len \cap {n}}
    BY <1>6, <1>7
  <2>2. R \subseteq D
    OBVIOUS
  <2>. HIDE DEF R, D
  <2>. QED BY <1>2, <1>3, <1>4, <1>5, <2>1, <2>2, DrainedQueue
<1>13. OwnersInv' /\ stuck' \subseteq objects'
  <2>. HIDE DEF R, D
  <2>. QED BY <1>1, <1>2, <1>3, <1>9, <1>10, <1>11, OwnersTaken
<1>14. /\ expired' = expired \cap objects' /\ used' = used \cap objects'
       /\ overtaken' = overtaken \cap objects'
       /\ objects' \subseteq objects /\ pooled' \subseteq pooled
  BY <1>3 DEF BooksTyped
<1>15. \/ w \in {"allocating", "idle"} /\ x = None
       \/ w = "pinging" /\ x \in pooled
  BY <1>1, <1>2 DEF QueueInv
<1>. QED BY <1>2, <1>12, <1>13, <1>14, <1>15 DEF TakenIdle

-----------------------------------------------------------------------------
(* One task moves *)

Moves(t) ==
  /\ pc' \in [Tasks -> Places] /\ \A u \in Tasks \ {t} : pc'[u] = pc[u]
  /\ at' \in [Tasks -> Containers \cup {None}]
  /\ \A u \in Tasks \ {t} : at'[u] = at[u]
  /\ needed' \in [Tasks -> 0..PoolMin]
  /\ \A u \in Tasks \ {t} : needed'[u] = needed[u]

(* A step of one task leaves the others where they are.                    *)
LEMMA TasksKept ==
  ASSUME Inv, NEW t \in Tasks, Moves(t), Placed(t)',
         creating' \subseteq creating \cup {t},
         todo' \in [Checks -> SUBSET Containers],
         script' \in [Clients -> Containers \cup {None}],
         lock' \in {lock, None, t},
         lock' = t => pc'[t] \in {"warming", "reconciling"}
  PROVE  TasksTyped' /\ TasksInv' /\ LockHeldAtWork'
<1>. USE DEF Inv
<1>1. TasksTyped'
  BY DEF TasksTyped, Moves
<1>2. ASSUME NEW u \in Tasks PROVE Placed(u)'
  <2>1. CASE u = t
    BY <2>1
  <2>2. CASE u # t
    BY <2>2 DEF TasksInv, Placed, Moves, AwaitsContainer
  <2>. QED BY <2>1, <2>2
<1>3. LockHeldAtWork'
  <2>. SUFFICES ASSUME lock' # None
                PROVE  pc'[lock'] \in {"warming", "reconciling"}
    BY DEF LockHeldAtWork
  <2>1. CASE lock' = t
    BY <2>1
  <2>2. CASE lock' # t
    <3>1. lock' = lock /\ lock \in Tasks \ {t}
      BY <2>2 DEF TasksTyped
    <3>. QED BY <3>1 DEF LockHeldAtWork, Moves
  <2>. QED BY <2>1, <2>2
<1>. QED BY <1>1, <1>2, <1>3 DEF TasksInv

(* A client that neither waits for a container to be created nor warms the *)
(* pool keeps its container or lets it go, and touches nobody's lock.      *)
LEMMA ClientMoves ==
  ASSUME Inv, NEW t \in Clients,
         pc[t] \in {"pinging", "holding", "executing", "cleaning", "returning"},
         NEW w \in {"idle", "replacing", "warm", "holding", "executing",
                    "cleaning", "returning"},
         NEW c \in {at[t], None}, c = None <=> w \in {"idle", "replacing"},
         pc' = [pc EXCEPT ![t] = w], at' = [at EXCEPT ![t] = c],
         UNCHANGED <<lock, creating, needed, todo>>,
         script' \in [Clients -> Containers \cup {None}]
  PROVE  /\ TasksTyped' /\ TasksInv' /\ LockHeldAtWork'
         /\ Moves(t) /\ pc'[t] = w /\ at'[t] = c
<1>. USE NoneAssumption, TasksAssumption DEF Inv
<1>1. /\ t \in Tasks /\ t \notin Checks /\ t \notin creating /\ lock # t
  BY DEF Tasks, TasksInv, Placed, AwaitsContainer, LockHeldAtWork
<1>2. Moves(t) /\ pc'[t] = w /\ at'[t] = c
  BY <1>1 DEF Moves, TasksTyped, Places
<1>3. Placed(t)'
  BY <1>1, <1>2 DEF Placed
<1>. QED BY <1>1, <1>2, <1>3, TasksKept DEF TasksTyped

(* A client that has a container is about one that is neither idle nor     *)
(* without owner.                                                          *)
LEMMA ClientIsAbout ==
  ASSUME Inv, NEW t \in Clients,
         pc[t] \in {"pinging", "holding", "executing", "cleaning", "returning"}
  PROVE  /\ t \in Tasks /\ at[t] \in Containers
         /\ at[t] \notin pooled /\ at[t] \notin stuck
         /\ at = [at EXCEPT ![t] = at[t]]
BY NoneAssumption DEF Inv, Tasks, TasksInv, Placed, TasksTyped, OwnersInv, Ownerless

(* A step that leaves the books alone keeps what is said of them.          *)
LEMMA BooksKept ==
  ASSUME Inv, UNCHANGED books
  PROVE  BooksTyped' /\ QueueInv'
BY DEF Inv, books, BooksTyped, QueueInv

(* So does one that changes only what is known of the containers.          *)
LEMMA WorkKept ==
  ASSUME Inv, UNCHANGED <<objects, pool, pooled, stuck, at>>,
         expired' \subseteq objects, used' \subseteq objects,
         overtaken' \subseteq objects
  PROVE  BooksTyped' /\ QueueInv' /\ OwnersInv'
BY DEF Inv, BooksTyped, QueueInv, OwnersInv, Ownerless

(* What Docker removes and what it refuses to remove.                      *)
LEMMA RemovalShrinks ==
  ASSUME Inv, NEW S, NEW refused \in SUBSET objects, S \cap refused = {},
         Removal(S, refused)
  PROVE  /\ objects' = objects \ S /\ stuck' = (stuck \ S) \cup refused
         /\ expired' = expired \cap objects' /\ used' = used \cap objects'
         /\ overtaken' = overtaken \cap objects' /\ stuck' \subseteq objects'
BY DEF Inv, BooksTyped, Removal

(* Removing a container takes it from the set beside the queue, or it was  *)
(* not there.                                                              *)
LEMMA RemovalKeepsQueue ==
  ASSUME Inv, objects' \subseteq objects, pooled' = pooled \cap objects',
         expired' = expired \cap objects', used' = used \cap objects',
         overtaken' = overtaken \cap objects', stuck' \subseteq objects',
         UNCHANGED pool
  PROVE  BooksTyped' /\ QueueInv'
<1>1. IsFiniteSet(objects')
  BY FS_Subset DEF Inv, BooksTyped
<1>. QED BY <1>1 DEF Inv, BooksTyped, QueueInv

(* A task keeps its container, or lets it go when it is removed, becomes   *)
(* idle or is left to nobody.                                              *)
LEMMA OwnersKept ==
  ASSUME Inv, NEW t \in Tasks, Moves(t), at'[t] \in {at[t], None},
         objects' \subseteq objects, Ownerless' \subseteq objects',
         stuck' \cap pooled' = {},
         \A c \in objects' :
           c \in Ownerless' <=> c \in Ownerless \/ (c = at[t] /\ at'[t] = None)
  PROVE  OwnersInv'
<1>. USE NoneAssumption DEF Inv
<1>1. None \notin objects
  BY DEF BooksTyped
<1>2. \A u \in Tasks : at'[u] \in {at[u], None}
  BY DEF Moves
<1>3. ASSUME NEW u \in Tasks, at'[u] \in Ownerless' PROVE FALSE
  <2>1. at'[u] = at[u] /\ at[u] \in objects
    BY <1>1, <1>2, <1>3
  <2>2. at[u] \notin Ownerless
    BY DEF OwnersInv
  <2>3. at[u] = at[t] /\ at'[t] = None
    BY <1>3, <2>1, <2>2
  <2>4. u = t
    BY <2>1, <2>3 DEF OwnersInv
  <2>. QED BY <1>1, <2>1, <2>3, <2>4
<1>4. ASSUME NEW c \in objects' \ Ownerless' PROVE \E u \in Tasks : at'[u] = c
  <2>1. PICK u \in Tasks : at[u] = c
    BY <1>4 DEF OwnersInv
  <2>. QED BY <1>4, <2>1 DEF Moves
<1>5. ASSUME NEW u \in Tasks, NEW v \in Tasks, at'[u] = at'[v],
             at'[u] \in objects'
      PROVE  u = v
  BY <1>1, <1>2, <1>5 DEF OwnersInv
<1>. QED BY <1>3, <1>4, <1>5 DEF OwnersInv

(* A step of one task keeps the other containers clean, or quiet, as they  *)
(* were.                                                                   *)
LEMMA CleanKept ==
  ASSUME Inv, NEW t \in Tasks, Moves(t),
         \A u \in Tasks \ {t} : at[u] \in objects' => at[u] \in objects,
         \A c \in objects \ {at[t]} :
           (Clean(c) => Clean(c)') /\ (Quiet(c) => Quiet(c)'),
         \A c \in pooled' : c \in pooled \/ Clean(c)',
         t \in Clients /\ pc'[t] \in Handed => Clean(at[t])',
         t \in Clients /\ pc'[t] = "cleaning" => Quiet(at[t])'
  PROVE  CleanInv'
<1>. USE DEF Inv
<1>1. ASSUME NEW c \in pooled' PROVE Clean(c)'
  <2>1. CASE c \in pooled
    <3>1. c \in objects /\ c # at[t] /\ Clean(c)
      BY <2>1 DEF QueueInv, OwnersInv, Ownerless, CleanInv
    <3>. QED BY <3>1
  <2>. QED BY <2>1
<1>2. ASSUME NEW u \in Clients, u # t
      PROVE  /\ pc'[u] \in Handed => Clean(at[u])'
             /\ pc'[u] = "cleaning" => Quiet(at[u])'
  <2>1. u \in Tasks /\ at'[u] = at[u] /\ pc'[u] = pc[u]
    BY <1>2 DEF Tasks, Moves
  <2>2. CASE at[u] \notin objects
    BY <1>2, <2>1, <2>2 DEF Clean, Quiet
  <2>3. CASE at[u] \in objects
    <3>1. at[u] # at[t]
      BY <1>2, <2>1, <2>3 DEF OwnersInv
    <3>2. /\ pc[u] \in Handed => Clean(at[u])
          /\ pc[u] = "cleaning" => Quiet(at[u])
      BY DEF CleanInv
    <3>. QED BY <2>1, <2>3, <3>1, <3>2 DEF Clean, Quiet
  <2>. QED BY <2>2, <2>3
<1>. QED BY <1>1, <1>2 DEF CleanInv

(* A step in which no script writes or begins keeps every container clean, *)
(* and one quiet, that was.                                                *)
LEMMA StaysCalm ==
  ASSUME UNCHANGED script, objects' \subseteq objects, used' \subseteq used
  PROVE  \A c : (c \in overtaken /\ c \in objects' => c \in overtaken') =>
                (Clean(c) => Clean(c)') /\ (Quiet(c) => Quiet(c)')
<1>1. AtWork' = AtWork /\ Unclean' \subseteq Unclean
  BY DEF AtWork, Unclean
<1>. QED BY <1>1 DEF Clean, Quiet

LEMMA CalmKept ==
  ASSUME Inv, NEW t \in Tasks, Moves(t), UNCHANGED script,
         objects' \subseteq objects, used' \subseteq used,
         overtaken' = overtaken \cap objects',
         \A c \in pooled' : c \in pooled \/ Clean(c),
         t \in Clients /\ pc'[t] \in Handed => Clean(at'[t]),
         t \in Clients => pc'[t] # "cleaning"
  PROVE  CleanInv'
<1>1. \A c : (Clean(c) => Clean(c)') /\ (Quiet(c) => Quiet(c)')
  BY StaysCalm
<1>2. t \in Clients /\ pc'[t] \in Handed => Clean(at[t])'
  BY <1>1 DEF Clean
<1>. QED BY <1>1, <1>2, CleanKept

(* A client that has drained the queue keeps the invariant.                *)
LEMMA TakingKeeps ==
  ASSUME Inv, NEW t \in Clients, TakenIdle(t), pc[t] \in {"idle", "pinging"},
         UNCHANGED <<lock, creating, needed, todo, script>>
  PROVE  Inv'
<1>. USE NoneAssumption DEF Inv, TakenIdle
<1>1. /\ t \in Tasks /\ t \notin Checks /\ t \notin creating
      /\ None \notin Containers /\ pooled \subseteq Containers
      /\ lock # t
  BY TasksAssumption DEF Tasks, TasksInv, Placed, AwaitsContainer, BooksTyped,
                         LockHeldAtWork
<1>2. IsFiniteSet(objects') /\ BooksTyped'
  <2>1. IsFiniteSet(objects')
    BY FS_Subset DEF BooksTyped
  <2>. QED BY <2>1 DEF BooksTyped
<1>3. /\ Moves(t)
      /\ \/ pc'[t] \in {"allocating", "idle"} /\ at'[t] = None
         \/ pc'[t] = "pinging" /\ at'[t] \in pooled
  <2>. USE DEF TasksTyped
  <2>. DEFINE Shape(w, c) ==
                /\ pc' = [pc EXCEPT ![t] = w] /\ at' = [at EXCEPT ![t] = c]
                /\ \/ w \in {"allocating", "idle"} /\ c = None
                   \/ w = "pinging" /\ c \in pooled
  <2>1. PICK w \in {"allocating", "idle", "pinging"}, c \in Containers \cup {None} :
          Shape(w, c)
    <3>1. \/ Shape("allocating", None) \/ Shape("idle", None)
          \/ \E c \in pooled : Shape("pinging", c)
      OBVIOUS
    <3>. HIDE DEF Shape
    <3>. QED BY <1>1, <3>1
  <2>2. Moves(t)
    BY <1>1, <2>1 DEF Moves, Places
  <2>. QED BY <1>1, <2>1, <2>2
<1>4. Placed(t)'
  BY <1>1, <1>3 DEF Placed
<1>5. TasksTyped' /\ TasksInv' /\ LockHeldAtWork'
  BY <1>1, <1>3, <1>4, TasksKept DEF TasksTyped
<1>6. CleanInv'
  <2>1. pc'[t] \in Handed => Clean(at'[t])
    BY <1>3 DEF CleanInv, Handed
  <2>2. used' \subseteq used
    OBVIOUS
  <2>. QED BY <1>1, <1>3, <2>1, <2>2, CalmKept
<1>. QED BY <1>2, <1>5, <1>6

(* A client whose container is refused lets go of it, and fails.           *)
LEMMA RefusedKeeps ==
  ASSUME Inv, NEW t \in Clients, pc[t] \in {"pinging", "holding", "cleaning"},
         Refused(at[t]), Leave(t),
         UNCHANGED <<pool, pooled, lock, creating, needed, todo, script>>
  PROVE  Inv'
<1>. USE NoneAssumption DEF Inv
<1>1. /\ t \in Tasks /\ at[t] \in objects
      /\ at[t] \notin pooled /\ at[t] \notin stuck
      /\ Removal({}, {at[t]})
  BY ClientIsAbout DEF Refused
<1>2. /\ TasksTyped' /\ TasksInv' /\ LockHeldAtWork'
      /\ Moves(t) /\ pc'[t] = "idle" /\ at'[t] = None
  BY ClientMoves DEF Leave, Goto, Drop, TasksTyped
<1>3. /\ objects' = objects /\ stuck' = stuck \cup {at[t]}
      /\ expired' = expired \cap objects' /\ used' = used \cap objects'
      /\ overtaken' = overtaken \cap objects' /\ stuck' \subseteq objects'
  BY <1>1 DEF Removal, BooksTyped
<1>4. BooksTyped' /\ QueueInv'
  <2>1. pooled' = pooled \cap objects'
    BY <1>3 DEF QueueInv
  <2>. QED BY <1>3, <2>1, RemovalKeepsQueue
<1>5. OwnersInv'
  <2>1. Ownerless' = Ownerless \cup {at[t]}
    BY <1>3 DEF Ownerless
  <2>2. Ownerless' \subseteq objects' /\ stuck' \cap pooled' = {}
    BY <1>1, <1>3 DEF Ownerless, QueueInv, OwnersInv
  <2>. QED BY <1>1, <1>2, <1>3, <2>1, <2>2, OwnersKept
<1>6. CleanInv'
  BY <1>1, <1>2, <1>3, CalmKept DEF Handed
<1>. QED BY <1>2, <1>4, <1>5, <1>6

(* A client whose container is removed waits for another one in the pool.  *)
LEMMA ReplacingKeeps ==
  ASSUME Inv, NEW t \in Clients, pc[t] \in {"holding", "cleaning"},
         Forget({at[t]}), Goto(t, "replacing"), Drop(t),
         UNCHANGED <<pool, pooled, lock, creating, needed, todo, script>>
  PROVE  Inv'
<1>. USE NoneAssumption DEF Inv
<1>1. /\ t \in Tasks /\ at[t] \notin pooled /\ at[t] \notin stuck
      /\ Removal({at[t]}, {})
  BY ClientIsAbout DEF Forget
<1>2. /\ TasksTyped' /\ TasksInv' /\ LockHeldAtWork'
      /\ Moves(t) /\ pc'[t] = "replacing" /\ at'[t] = None
  BY ClientMoves DEF Goto, Drop, TasksTyped
<1>3. /\ objects' = objects \ {at[t]} /\ stuck' = stuck
      /\ expired' = expired \cap objects' /\ used' = used \cap objects'
      /\ overtaken' = overtaken \cap objects' /\ stuck' \subseteq objects'
  <2>1. {at[t]} \cap {} = {} /\ {} \in SUBSET objects
    OBVIOUS
  <2>. QED BY <1>1, <2>1, RemovalShrinks
<1>4. BooksTyped' /\ QueueInv'
  <2>1. pooled' = pooled \cap objects'
    BY <1>1, <1>3 DEF QueueInv
  <2>. QED BY <1>3, <2>1, RemovalKeepsQueue
<1>5. OwnersInv'
  <2>1. Ownerless' = Ownerless
    BY <1>3 DEF Ownerless
  <2>2. Ownerless' \subseteq objects' /\ stuck' \cap pooled' = {}
    BY <1>1, <1>3 DEF Ownerless, QueueInv, OwnersInv
  <2>. QED BY <1>1, <1>2, <1>3, <2>1, <2>2, OwnersKept
<1>6. CleanInv'
  BY <1>1, <1>2, <1>3, CalmKept DEF Handed
<1>. QED BY <1>2, <1>4, <1>5, <1>6

-----------------------------------------------------------------------------
(* Every action keeps the invariant *)

(* A client asks for a container. *)
LEMMA AllocateKeeps ==
  ASSUME Inv, NEW t \in Clients, Allocate(t)
  PROVE  Inv'
<1>. USE NoneAssumption DEF Inv
<1>1. /\ t \in Tasks /\ at[t] = None
      /\ TakeIdle(t, {}) /\ UNCHANGED <<lock, creating, needed, todo, script>>
      /\ pc[t] = "idle"
  BY DEF Allocate, Tasks, TasksInv, Placed
<1>2. {} \ {None} = {at[t]} \ {None}
  BY <1>1
<1>3. TakenIdle(t)
  BY <1>1, <1>2, TakeIdleKeeps
<1>. QED BY <1>1, <1>3, TakingKeeps

(* The container does not answer: the next one is tried, or the handler    *)
(* fails.                                                                  *)
LEMMA PingFailsKeeps ==
  ASSUME Inv, NEW t \in Tasks, PingFails(t)
  PROVE  Inv'
<1>. USE DEF Inv
<1>1. /\ t \in Clients /\ pc[t] = "pinging"
      /\ UNCHANGED <<lock, creating, needed, todo, script>>
  BY DEF PingFails, Tasks, TasksInv, Placed
<1>2. CASE TakeIdle(t, {at[t]})
  <2>1. TakenIdle(t)
    BY <1>1, <1>2, TakeIdleKeeps
  <2>. QED BY <1>1, <2>1, TakingKeeps
<1>3. CASE Refused(at[t]) /\ Leave(t) /\ UNCHANGED <<pool, pooled>>
  BY <1>1, <1>3, RefusedKeeps
<1>. QED BY <1>2, <1>3 DEF PingFails

(* The container of an allocation answers. *)
LEMMA PingSucceedsKeeps ==
  ASSUME Inv, NEW t \in Tasks, PingSucceeds(t)
  PROVE  Inv'
<1>. USE NoneAssumption DEF Inv
<1>1. /\ t \in Clients /\ pc[t] = "pinging" /\ UNCHANGED books
      /\ UNCHANGED <<lock, creating, needed, todo, script>>
      /\ script' \in [Clients -> Containers \cup {None}]
  BY DEF PingSucceeds, Tasks, TasksInv, Placed, TasksTyped
<1>2. PICK w \in {"warm", "idle"}, c \in {at[t], None} :
        /\ pc' = [pc EXCEPT ![t] = w] /\ at' = [at EXCEPT ![t] = c]
        /\ \/ w = "warm" /\ c = at[t]
           \/ w = "idle" /\ c = None /\ at[t] \notin objects
  BY <1>1, ClientIsAbout DEF PingSucceeds, Goto, Leave, Drop
<1>3. at[t] # None
  BY <1>1, ClientIsAbout
<1>4. /\ TasksTyped' /\ TasksInv' /\ LockHeldAtWork'
      /\ Moves(t) /\ pc'[t] = w /\ at'[t] = c
  BY <1>1, <1>2, <1>3, ClientMoves
<1>5. BooksTyped' /\ QueueInv'
  BY <1>1, BooksKept
<1>6. OwnersInv'
  <2>1. at'[t] \in {at[t], None} /\ (at'[t] = None => at[t] \notin objects)
    BY <1>2, <1>3, <1>4
  <2>2. /\ objects' = objects /\ Ownerless' = Ownerless
        /\ Ownerless \subseteq objects /\ stuck' \cap pooled' = {}
    BY <1>1 DEF books, QueueInv, BooksTyped, Ownerless, OwnersInv
  <2>. QED BY <1>1, <1>4, <2>1, <2>2, OwnersKept DEF Tasks
<1>7. CleanInv'
  <2>1. pc'[t] \in Handed => Clean(at'[t])
    BY <1>1, <1>2, <1>4 DEF CleanInv, Handed
  <2>2. overtaken' = overtaken \cap objects' /\ t \in Tasks
    BY <1>1 DEF books, BooksTyped, Tasks
  <2>. QED BY <1>1, <1>2, <1>4, <2>1, <2>2, CalmKept DEF books
<1>. QED BY <1>4, <1>5, <1>6, <1>7

(* A creation passes the limit. *)
LEMMA CreateStartsKeeps ==
  ASSUME Inv, NEW t \in Tasks, CreateStarts(t)
  PROVE  Inv'
<1>. USE DEF Inv, CreateStarts
<1>1. BooksTyped' /\ QueueInv'
  BY BooksKept
<1>2. Placed(t)'
  BY DEF TasksInv, Placed, AwaitsContainer
<1>3. Moves(t)
  BY DEF Moves, TasksTyped
<1>4. TasksTyped' /\ TasksInv' /\ LockHeldAtWork'
  <2>1. lock' = t => pc'[t] \in {"warming", "reconciling"}
    BY NoneAssumption DEF LockHeldAtWork, Tasks
  <2>. QED BY <1>2, <1>3, <2>1, TasksKept DEF TasksTyped
<1>5. OwnersInv' /\ CleanInv'
  BY DEF books, OwnersInv, Ownerless, CleanInv, Clean, Quiet, Unclean, AtWork
<1>. QED BY <1>1, <1>4, <1>5

(* A script is started in the container of a client: it is nobody else's,  *)
(* and not handed on before the container is cleaned.                      *)
LEMMA ExecuteKeeps ==
  ASSUME Inv, NEW t \in Clients, Execute(t)
  PROVE  Inv'
<1>. USE NoneAssumption DEF Inv, Execute, Goto
<1>1. /\ t \in Tasks /\ at[t] \in Containers /\ at[t] \notin pooled
      /\ at = [at EXCEPT ![t] = at[t]]
  BY ClientIsAbout
<1>2. /\ TasksTyped' /\ TasksInv' /\ LockHeldAtWork'
      /\ Moves(t) /\ pc'[t] = "executing"
  <2>1. script' \in [Clients -> Containers \cup {None}]
    BY <1>1 DEF TasksTyped
  <2>. QED BY <1>1, <2>1, ClientMoves
<1>3. BooksTyped' /\ QueueInv' /\ OwnersInv'
  BY WorkKept DEF BooksTyped
<1>4. CleanInv'
  <2>1. AtWork' \subseteq AtWork \cup {at[t]}
    BY <1>1 DEF AtWork, TasksTyped
  <2>2. Unclean' \subseteq Unclean \cup {at[t]}
    BY <2>1 DEF Unclean
  <2>3. ASSUME NEW c \in objects \ {at[t]}
        PROVE  (Clean(c) => Clean(c)') /\ (Quiet(c) => Quiet(c)')
    BY <2>1, <2>2, <2>3 DEF Clean, Quiet
  <2>. QED BY <1>1, <1>2, <2>3, CleanKept DEF Handed
<1>. QED BY <1>2, <1>3, <1>4

(* A script writes, or is written, where it was already at work.           *)
LEMMA ScriptWorksKeeps ==
  ASSUME Inv, NEW t \in Clients, ScriptWorks(t)
  PROVE  Inv'
<1>. USE DEF Inv, ScriptWorks, Leaves, tasks
<1>1. BooksTyped' /\ QueueInv' /\ OwnersInv'
  <2>1. used' \subseteq objects
    BY DEF BooksTyped
  <2>. QED BY <2>1, WorkKept DEF BooksTyped
<1>2. TasksTyped' /\ LockHeldAtWork' /\ TasksInv'
  BY DEF TasksTyped, LockHeldAtWork, TasksInv, Placed, AwaitsContainer
<1>3. AtWork' = AtWork /\ script[t] \in AtWork
  BY DEF AtWork
<1>4. Unclean' \subseteq Unclean
  BY <1>3 DEF Unclean
<1>5. CleanInv'
  BY <1>3, <1>4 DEF CleanInv, Clean, Quiet
<1>. QED BY <1>1, <1>2, <1>5

(* A script is through: its client, if it is still there, has an answer.   *)
LEMMA ScriptEndsKeeps ==
  ASSUME Inv, NEW t \in Clients, ScriptEnds(t)
  PROVE  Inv'
<1>. USE DEF Inv, ScriptEnds, Goto
<1>1. script' \in [Clients -> Containers \cup {None}] /\ AtWork' \subseteq AtWork
  BY DEF TasksTyped, AtWork
<1>2. Unclean' \subseteq Unclean
  BY <1>1 DEF Unclean, books
<1>3. BooksTyped' /\ QueueInv' /\ OwnersInv'
  BY WorkKept DEF BooksTyped, books
<1>4. \A c : (Clean(c) => Clean(c)') /\ (Quiet(c) => Quiet(c)')
  BY <1>1, <1>2 DEF Clean, Quiet, books
<1>5. CASE pc[t] = "executing"
  <2>1. /\ t \in Tasks /\ at = [at EXCEPT ![t] = at[t]] /\ at[t] # None
    BY <1>5, ClientIsAbout, NoneAssumption
  <2>2. /\ TasksTyped' /\ TasksInv' /\ LockHeldAtWork'
        /\ Moves(t) /\ pc'[t] = "holding"
    BY <1>1, <1>5, <2>1, ClientMoves
  <2>3. CleanInv'
    BY <1>4, <2>1, <2>2, CleanKept DEF Handed, books
  <2>. QED BY <1>3, <2>2, <2>3
<1>6. CASE pc[t] # "executing"
  <2>1. TasksTyped' /\ LockHeldAtWork' /\ TasksInv'
    BY <1>1, <1>6 DEF TasksTyped, LockHeldAtWork, TasksInv, Placed, AwaitsContainer
  <2>2. CleanInv'
    BY <1>4, <1>6 DEF CleanInv, Clean, Quiet, books
  <2>. QED BY <1>3, <2>1, <2>2
<1>. QED BY <1>5, <1>6

(* A client stops waiting for its script, which goes on.                   *)
LEMMA AbandonsKeeps ==
  ASSUME Inv, NEW t \in Clients,
         pc[t] = "executing", Goto(t, "holding"), expired' \subseteq objects,
         UNCHANGED <<objects, pool, pooled, used, stuck, overtaken,
                     lock, at, creating, needed, todo, script>>
  PROVE  Inv'
<1>. USE DEF Inv
<1>1. /\ t \in Tasks /\ at = [at EXCEPT ![t] = at[t]] /\ at[t] # None
  BY ClientIsAbout, NoneAssumption
<1>2. /\ TasksTyped' /\ TasksInv' /\ LockHeldAtWork'
      /\ Moves(t) /\ pc'[t] = "holding"
  BY <1>1, ClientMoves DEF Goto, TasksTyped
<1>3. BooksTyped' /\ QueueInv' /\ OwnersInv'
  BY WorkKept DEF BooksTyped
<1>4. CleanInv'
  <2>1. overtaken' = overtaken \cap objects'
    BY DEF BooksTyped
  <2>. QED BY <1>1, <1>2, <2>1, CalmKept DEF Handed
<1>. QED BY <1>2, <1>3, <1>4

(* A container expires. *)
LEMMA ExpiresKeeps ==
  ASSUME Inv, NEW c \in Containers, Expires(c)
  PROVE  Inv'
<1>. USE DEF Inv, Expires, tasks
<1>1. BooksTyped' /\ QueueInv' /\ OwnersInv'
  BY WorkKept DEF BooksTyped
<1>2. TasksTyped' /\ LockHeldAtWork' /\ TasksInv'
  BY DEF TasksTyped, LockHeldAtWork, TasksInv, Placed, AwaitsContainer
<1>3. CleanInv'
  BY DEF CleanInv, Clean, Quiet, Unclean, AtWork
<1>. QED BY <1>1, <1>2, <1>3

(* A client recycles its container. *)
LEMMA RecycleKeeps ==
  ASSUME Inv, NEW t \in Clients, Recycle(t)
  PROVE  Inv'
<1>. USE NoneAssumption DEF Inv
<1>. DEFINE c == at[t]
<1>1. /\ t \in Tasks /\ at[t] \in Containers /\ at[t] \notin pooled
      /\ at = [at EXCEPT ![t] = at[t]] /\ pc[t] = "holding"
      /\ UNCHANGED <<lock, creating, needed, todo, script>>
      /\ script' \in [Clients -> Containers \cup {None}]
  BY ClientIsAbout DEF Recycle, TasksTyped
<1>2. CASE c \notin objects /\ Leave(t) /\ UNCHANGED books
  <2>1. /\ TasksTyped' /\ TasksInv' /\ LockHeldAtWork'
        /\ Moves(t) /\ pc'[t] = "idle" /\ at'[t] = None
    BY <1>1, <1>2, ClientMoves DEF Leave, Goto, Drop
  <2>2. BooksTyped' /\ QueueInv'
    BY <1>2, BooksKept
  <2>3. OwnersInv'
    <3>1. /\ objects' = objects /\ Ownerless' = Ownerless
          /\ Ownerless \subseteq objects /\ stuck' \cap pooled' = {}
      BY <1>2 DEF books, QueueInv, BooksTyped, Ownerless, OwnersInv
    <3>. QED BY <1>1, <1>2, <2>1, <3>1, OwnersKept
  <2>4. CleanInv'
    <3>1. overtaken' = overtaken \cap objects'
      BY <1>2 DEF books, BooksTyped
    <3>. QED BY <1>1, <1>2, <2>1, <3>1, CalmKept DEF books, Handed
  <2>. QED BY <2>1, <2>2, <2>3, <2>4
<1>3. CASE Forget({c}) /\ Goto(t, "replacing") /\ Drop(t) /\ UNCHANGED <<pool, pooled>>
  BY <1>1, <1>3, ReplacingKeeps
<1>4. CASE Refused(c) /\ Leave(t) /\ UNCHANGED <<pool, pooled>>
  BY <1>1, <1>4, RefusedKeeps
<1>5. CASE /\ c \in objects /\ Goto(t, "cleaning")
           /\ overtaken' = (overtaken \ {c}) \cup ({c} \cap AtWork)
           /\ UNCHANGED <<objects, pool, pooled, expired, used, stuck, at>>
  <2>1. /\ TasksTyped' /\ TasksInv' /\ LockHeldAtWork'
        /\ Moves(t) /\ pc'[t] = "cleaning" /\ at'[t] = c
    BY <1>1, <1>5, ClientMoves DEF Goto
  <2>2. BooksTyped' /\ QueueInv' /\ OwnersInv'
    BY <1>5, WorkKept DEF BooksTyped
  <2>3. CleanInv'
    <3>1. AtWork' = AtWork
      BY <1>1 DEF AtWork
    <3>2. Quiet(at[t])'
      BY <1>5, <2>1, <3>1 DEF Quiet
    <3>3. \A x \in objects \ {at[t]} :
            (Clean(x) => Clean(x)') /\ (Quiet(x) => Quiet(x)')
      BY <1>1, <1>5, StaysCalm
    <3>. QED BY <1>1, <1>5, <2>1, <3>2, <3>3, CleanKept DEF Handed
  <2>. QED BY <2>1, <2>2, <2>3
<1>. QED BY <1>1, <1>2, <1>3, <1>4, <1>5 DEF Recycle

(* Its cleanup fails. *)
LEMMA CleanFailsKeeps ==
  ASSUME Inv, NEW t \in Tasks, CleanFails(t)
  PROVE  Inv'
<1>1. /\ t \in Clients /\ pc[t] = "cleaning"
      /\ UNCHANGED <<pool, pooled, lock, creating, needed, todo, script>>
  BY DEF CleanFails, Inv, Tasks, TasksInv, Placed
<1>. QED BY <1>1, ReplacingKeeps, RefusedKeeps DEF CleanFails

(* Its cleanup succeeds. *)
LEMMA CleanSucceedsKeeps ==
  ASSUME Inv, NEW t \in Tasks, CleanSucceeds(t)
  PROVE  Inv'
<1>. USE NoneAssumption DEF Inv
<1>1. /\ t \in Clients /\ pc[t] = "cleaning" /\ used' = used \ {at[t]}
      /\ UNCHANGED <<objects, pool, pooled, expired, stuck, overtaken,
                     lock, creating, needed, todo, script>>
      /\ script' \in [Clients -> Containers \cup {None}]
  BY DEF CleanSucceeds, Tasks, TasksInv, Placed, TasksTyped
<1>2. PICK w \in {"returning", "idle"}, c \in {at[t], None} :
        /\ pc' = [pc EXCEPT ![t] = w] /\ at' = [at EXCEPT ![t] = c]
        /\ \/ w = "returning" /\ c = at[t]
           \/ w = "idle" /\ c = None /\ at[t] \notin objects
  BY <1>1, ClientIsAbout DEF CleanSucceeds, Goto, Leave, Drop
<1>3. at[t] # None
  BY <1>1, ClientIsAbout
<1>4. /\ TasksTyped' /\ TasksInv' /\ LockHeldAtWork'
      /\ Moves(t) /\ pc'[t] = w /\ at'[t] = c
  BY <1>1, <1>2, <1>3, ClientMoves
<1>5. BooksTyped' /\ QueueInv'
  BY <1>1 DEF BooksTyped, QueueInv
<1>6. OwnersInv'
  <2>1. at'[t] \in {at[t], None} /\ (at'[t] = None => at[t] \notin objects)
    BY <1>2, <1>3, <1>4
  <2>2. /\ objects' = objects /\ Ownerless' = Ownerless
        /\ Ownerless \subseteq objects /\ stuck' \cap pooled' = {}
    BY <1>1 DEF QueueInv, BooksTyped, Ownerless, OwnersInv
  <2>. QED BY <1>1, <1>4, <2>1, <2>2, OwnersKept DEF Tasks
<1>7. CleanInv'
  <2>1. AtWork' = AtWork /\ Quiet(at[t])
    BY <1>1 DEF AtWork, CleanInv
  <2>2. at'[t] = at[t] => Clean(at[t])'
    BY <1>1, <2>1 DEF Clean, Quiet, Unclean
  <2>3. pc'[t] \in Handed => Clean(at[t])'
    BY <1>2, <1>4, <2>2 DEF Handed
  <2>4. \A x : (Clean(x) => Clean(x)') /\ (Quiet(x) => Quiet(x)')
    BY <1>1, StaysCalm
  <2>. QED BY <1>1, <1>2, <1>4, <2>3, <2>4, CleanKept DEF Tasks
<1>. QED BY <1>4, <1>5, <1>6, <1>7

(* A container returns to the pool, is surplus, or Docker refuses to       *)
(* remove it.                                                              *)
LEMMA ReturnKeeps ==
  ASSUME Inv, NEW t \in Clients, Return(t)
  PROVE  Inv'
<1>. USE NoneAssumption DEF Inv
<1>. DEFINE c == at[t]
<1>1. /\ t \in Tasks /\ c \in Containers /\ c \notin pooled /\ c \notin stuck
      /\ c # None /\ pc[t] = "returning" /\ Leave(t)
      /\ UNCHANGED <<lock, creating, needed, todo, script>>
      /\ script' \in [Clients -> Containers \cup {None}]
  BY ClientIsAbout DEF Return, TasksTyped
<1>2. Clean(c)
  BY <1>1 DEF CleanInv, Handed
<1>3. /\ TasksTyped' /\ TasksInv' /\ LockHeldAtWork'
      /\ Moves(t) /\ pc'[t] = "idle" /\ at'[t] = None
  BY <1>1, ClientMoves DEF Leave, Goto, Drop
<1>5. /\ Compacted \in Seq(Containers) /\ Distinct(Compacted)
      /\ ToSet(Compacted) = pooled
  BY CompactedIsIdle
<1>6. PICK q \in {Compacted, Append(Compacted, c)}, R \in {{}, {c}},
           refused \in {{}, {c}} :
        /\ Idle(q) /\ objects' = objects \ R
        /\ expired' = expired \cap objects' /\ used' = used \cap objects'
        /\ overtaken' = overtaken \cap objects'
        /\ stuck' = stuck \cup refused /\ stuck' \subseteq objects'
        /\ \/ q = Compacted /\ R = {c} /\ refused = {}
           \/ q = Compacted /\ c \in objects /\ R = {} /\ refused = {c}
           \/ q = Compacted /\ c \notin objects /\ R = {} /\ refused = {}
           \/ q = Append(Compacted, c) /\ c \in objects /\ R = {} /\ refused = {}
  <2>1. CASE Forget({c}) /\ Idle(Compacted)
    BY <1>1, <2>1 DEF Forget, Removal, BooksTyped
  <2>2. CASE Refused(c) /\ Idle(Compacted)
    BY <1>1, <2>2 DEF Refused, Removal, BooksTyped
  <2>3. CASE /\ UNCHANGED <<objects, expired, used, stuck, overtaken>>
             /\ Idle(IF c \in objects \ ToSet(Compacted)
                       THEN Append(Compacted, c) ELSE Compacted)
    <3>1. c \notin ToSet(Compacted)
      BY <1>1, <1>5
    <3>. QED BY <1>1, <2>3, <3>1 DEF BooksTyped
  <2>. QED BY <2>1, <2>2, <2>3 DEF Return
<1>7. /\ q \in Seq(Containers) /\ Distinct(q)
      /\ ToSet(q) = pooled \cup (({c} \cap objects') \ refused)
  <2>1. CASE q = Append(Compacted, c) /\ c \in objects /\ R = {} /\ refused = {}
    BY <1>1, <1>5, <1>6, <2>1, OneAppended
  <2>2. CASE q = Compacted /\ (c \notin objects' \/ refused = {c})
    BY <1>5, <2>2
  <2>. QED BY <1>6, <2>1, <2>2
<1>8. objects' \subseteq objects /\ pooled \subseteq objects'
  BY <1>1, <1>6 DEF QueueInv
<1>9. QueueInv' /\ pool' \in Seq(Containers) /\ pooled' = ToSet(q)
  BY <1>6, <1>7, <1>8, IdleKeepsQueue
<1>10. BooksTyped'
  <2>1. IsFiniteSet(objects')
    BY <1>8, FS_Subset DEF BooksTyped
  <2>. QED BY <1>6, <1>7, <1>8, <1>9, <2>1 DEF BooksTyped
<1>11. OwnersInv'
  <2>1. stuck \cap pooled = {}
    BY DEF OwnersInv
  <2>2. /\ Ownerless' \subseteq objects' /\ stuck' \cap pooled' = {}
        /\ Ownerless' = Ownerless \cup ({c} \cap objects')
    BY <1>1, <1>6, <1>7, <1>8, <1>9, <2>1 DEF Ownerless
  <2>. QED BY <1>1, <1>3, <1>8, <2>2, OwnersKept
<1>12. CleanInv'
  <2>1. \A x \in pooled' : x \in pooled \/ Clean(x)
    BY <1>2, <1>7, <1>9
  <2>. QED BY <1>1, <1>3, <1>6, <1>8, <2>1, CalmKept DEF Handed
<1>. QED BY <1>3, <1>9, <1>10, <1>11, <1>12

(* The queue is compacted, by a task that keeps its container. *)
LEMMA CompactionKeeps ==
  ASSUME Inv, NEW t \in Tasks, Idle(Compacted),
         UNCHANGED <<objects, expired, used, stuck, overtaken, script>>,
         Moves(t), at'[t] = at[t],
         t \in Clients => pc'[t] # "cleaning",
         t \in Clients /\ pc'[t] \in Handed => pc[t] = "warm"
  PROVE  BooksTyped' /\ QueueInv' /\ OwnersInv' /\ CleanInv'
<1>. USE DEF Inv
<1>1. /\ Compacted \in Seq(Containers) /\ Distinct(Compacted)
      /\ ToSet(Compacted) = pooled /\ pooled \subseteq objects
  BY CompactedIsIdle DEF QueueInv
<1>2. QueueInv' /\ pool' \in Seq(Containers) /\ pooled' = pooled
  BY <1>1, IdleKeepsQueue
<1>3. BooksTyped'
  BY <1>2 DEF BooksTyped
<1>4. OwnersInv'
  <2>1. \A u \in Tasks : at'[u] = at[u]
    BY DEF Moves
  <2>. QED BY <1>2, <2>1 DEF OwnersInv, Ownerless
<1>5. CleanInv'
  <2>1. t \in Clients /\ pc[t] = "warm" => Clean(at'[t])
    BY DEF CleanInv, Handed
  <2>2. overtaken' = overtaken \cap objects'
    BY DEF BooksTyped
  <2>. QED BY <1>2, <2>1, <2>2, CalmKept
<1>. QED BY <1>2, <1>3, <1>4, <1>5

(* The pool is warmed. *)
LEMMA WarmKeeps ==
  ASSUME Inv, NEW t \in Tasks, Warm(t)
  PROVE  Inv'
<1>. USE NoneAssumption, TasksAssumption DEF Inv
<1>. DEFINE missing == PoolMin - Cardinality(objects)
<1>1. /\ pc[t] = "warm" /\ lock = None /\ t # None /\ t \notin creating
      /\ Idle(Compacted)
      /\ UNCHANGED <<objects, expired, used, stuck, overtaken, at, creating, todo,
                     script>>
      /\ PoolMin \in Nat
      /\ IF missing > 0
           THEN /\ lock' = t /\ needed' = [needed EXCEPT ![t] = missing]
                /\ pc' = [pc EXCEPT ![t] = "warming"]
           ELSE /\ lock' = None /\ needed' = [needed EXCEPT ![t] = 0]
                /\ pc' = [pc EXCEPT ![t] = IF t \in Clients THEN "holding" ELSE "idle"]
  BY LimitAssumption DEF Warm, Warmed, Goto, Tasks, TasksInv, Placed, AwaitsContainer
<1>2. PICK n \in 0..PoolMin, w \in {"warming", "holding", "idle"} :
        /\ needed' = [needed EXCEPT ![t] = n] /\ pc' = [pc EXCEPT ![t] = w]
        /\ \/ w = "warming" /\ n > 0 /\ lock' = t
           \/ w = (IF t \in Clients THEN "holding" ELSE "idle") /\ n = 0 /\ lock' = None
  <2>1. Cardinality(objects) \in Nat
    BY FS_CardinalityType DEF BooksTyped
  <2>. DEFINE P(n, w) ==
                /\ needed' = [needed EXCEPT ![t] = n] /\ pc' = [pc EXCEPT ![t] = w]
                /\ \/ w = "warming" /\ n > 0 /\ lock' = t
                   \/ /\ w = (IF t \in Clients THEN "holding" ELSE "idle")
                      /\ n = 0 /\ lock' = None
  <2>2. CASE missing > 0
    <3>1. missing \in 0..PoolMin /\ P(missing, "warming")
      BY <1>1, <2>1, <2>2
    <3>. QED BY <3>1
  <2>3. CASE ~(missing > 0)
    <3>1. 0 \in 0..PoolMin /\ P(0, IF t \in Clients THEN "holding" ELSE "idle")
      BY <1>1, <2>3
    <3>. QED BY <3>1
  <2>. QED BY <2>2, <2>3
<1>3. Moves(t) /\ pc'[t] = w /\ needed'[t] = n /\ at'[t] = at[t]
  BY <1>1, <1>2 DEF Moves, TasksTyped, Places
<1>4. Placed(t)'
  BY <1>1, <1>2, <1>3 DEF TasksInv, Placed
<1>5. TasksTyped' /\ TasksInv' /\ LockHeldAtWork'
  BY <1>1, <1>2, <1>3, <1>4, TasksKept DEF TasksTyped
<1>6. BooksTyped' /\ QueueInv' /\ OwnersInv' /\ CleanInv'
  BY <1>1, <1>2, <1>3, CompactionKeeps DEF Handed
<1>. QED BY <1>5, <1>6

(* A health check takes the lock. *)
LEMMA CheckKeeps ==
  ASSUME Inv, NEW k \in Checks, Check(k)
  PROVE  Inv'
<1>. USE TasksAssumption, NoneAssumption DEF Inv
<1>1. /\ k \in Tasks /\ k \notin Clients /\ k \notin creating
      /\ pc' = [pc EXCEPT ![k] = "reconciling"] /\ lock' = k
      /\ todo' = [todo EXCEPT ![k] = objects] /\ Idle(Compacted)
      /\ UNCHANGED <<objects, expired, used, stuck, overtaken, at, creating,
                     needed, script>>
  BY DEF Check, Goto, Tasks, TasksInv, Placed, AwaitsContainer
<1>2. Moves(k) /\ pc'[k] = "reconciling" /\ at'[k] = at[k]
  BY <1>1 DEF Moves, TasksTyped, Places
<1>3. Placed(k)'
  BY <1>1, <1>2 DEF TasksInv, Placed
<1>4. TasksTyped' /\ TasksInv' /\ LockHeldAtWork'
  <2>1. todo' \in [Checks -> SUBSET Containers]
    BY <1>1 DEF TasksTyped, BooksTyped
  <2>. QED BY <1>1, <1>2, <1>3, <2>1, TasksKept DEF TasksTyped
<1>5. BooksTyped' /\ QueueInv' /\ OwnersInv' /\ CleanInv'
  BY <1>1, <1>2, CompactionKeeps
<1>. QED BY <1>4, <1>5

(* It reconciles a container. *)
LEMMA ReconcileOneKeeps ==
  ASSUME Inv, NEW k \in Checks, NEW c \in Containers, ReconcileOne(k, c)
  PROVE  Inv'
<1>. USE NoneAssumption DEF Inv
<1>1. /\ k \in Tasks /\ UNCHANGED <<lock, pc, at, creating, needed, script>>
      /\ todo' \in [Checks -> SUBSET Containers]
      /\ \/ UNCHANGED books
         \/ Forget({c}) /\ pooled' = pooled \ {c} /\ UNCHANGED pool
  <2>1. \A S : todo' = [todo EXCEPT ![k] = todo[k] \ S] =>
          todo' \in [Checks -> SUBSET Containers]
    BY DEF TasksTyped
  <2>. QED BY <2>1 DEF ReconcileOne, Tasks
<1>2. TasksTyped' /\ TasksInv' /\ LockHeldAtWork'
  BY <1>1 DEF TasksTyped, TasksInv, Placed, AwaitsContainer, LockHeldAtWork
<1>3. /\ objects' \subseteq objects /\ pooled' = pooled \cap objects'
      /\ expired' = expired \cap objects' /\ used' = used \cap objects'
      /\ overtaken' = overtaken \cap objects' /\ stuck' = stuck \cap objects'
      /\ UNCHANGED pool
  BY <1>1 DEF books, Forget, Removal, QueueInv, BooksTyped
<1>4. BooksTyped' /\ QueueInv'
  BY <1>3, RemovalKeepsQueue
<1>5. OwnersInv'
  <2>1. None \notin objects
    BY DEF BooksTyped
  <2>. QED BY <1>1, <1>3, <2>1 DEF OwnersInv, Ownerless
<1>6. CleanInv'
  <2>1. \A x : (Clean(x) => Clean(x)') /\ (Quiet(x) => Quiet(x)')
    BY <1>1, <1>3, StaysCalm
  <2>. QED BY <1>1, <1>3, <2>1 DEF CleanInv, Clean, Quiet
<1>. QED BY <1>2, <1>4, <1>5, <1>6

(* Docker does not answer, and the lock is released. *)
LEMMA ReconcileFailsKeeps ==
  ASSUME Inv, NEW k \in Tasks, ReconcileFails(k), k \in Checks
  PROVE  Inv'
<1>. USE TasksAssumption, NoneAssumption DEF Inv
<1>1. /\ k \notin Clients /\ k \notin creating
      /\ pc' = [pc EXCEPT ![k] = "idle"] /\ lock' = None
      /\ todo' = [todo EXCEPT ![k] = {}]
      /\ UNCHANGED <<books, at, creating, needed, script>>
  BY DEF ReconcileFails, Goto, TasksInv, Placed, AwaitsContainer
<1>2. Moves(k) /\ pc'[k] = "idle" /\ at'[k] = at[k]
  BY <1>1 DEF Moves, TasksTyped, Places
<1>3. Placed(k)'
  BY <1>1, <1>2 DEF TasksInv, Placed
<1>4. TasksTyped' /\ TasksInv' /\ LockHeldAtWork'
  <2>1. todo' \in [Checks -> SUBSET Containers] /\ lock' # k
    BY <1>1 DEF TasksTyped, Tasks
  <2>. QED BY <1>1, <1>2, <1>3, <2>1, TasksKept DEF TasksTyped
<1>5. BooksTyped' /\ QueueInv' /\ OwnersInv'
  BY <1>1, WorkKept DEF books, BooksTyped
<1>6. CleanInv'
  <2>1. overtaken' = overtaken \cap objects'
    BY <1>1 DEF books, BooksTyped
  <2>. QED BY <1>1, <1>2, <2>1, CalmKept DEF books
<1>. QED BY <1>4, <1>5, <1>6

(* Surplus idle containers are removed, and the lock is released. *)
LEMMA ReconcileEndsKeeps ==
  ASSUME Inv, NEW k \in Checks, ReconcileEnds(k)
  PROVE  Inv'
<1>. USE TasksAssumption, NoneAssumption DEF Inv
<1>. DEFINE idle == Compacted
            len == Len(idle)
            surplus == IF len > Target THEN len - Target ELSE 0
            gone == SubSeq(idle, 1, surplus)
            rest == SubSeq(idle, surplus + 1, len)
<1>1. /\ k \in Tasks /\ k \notin Clients /\ k \notin creating
      /\ pc' = [pc EXCEPT ![k] = "warm"] /\ lock' = None
      /\ \E refused \in SUBSET ToSet(gone) : Removal(ToSet(gone) \ refused, refused)
      /\ Idle(rest)
      /\ UNCHANGED <<at, creating, needed, todo, script>>
  BY DEF ReconcileEnds, Goto, Tasks, TasksInv, Placed, AwaitsContainer
<1>2. Moves(k) /\ pc'[k] = "warm" /\ at'[k] = at[k]
  BY <1>1 DEF Moves, TasksTyped, Places
<1>3. Placed(k)'
  BY <1>1, <1>2 DEF TasksInv, Placed
<1>4. TasksTyped' /\ TasksInv' /\ LockHeldAtWork'
  BY <1>1, <1>2, <1>3, TasksKept DEF TasksTyped
<1>5. /\ idle \in Seq(Containers) /\ Distinct(idle) /\ ToSet(idle) = pooled
  BY CompactedIsIdle
<1>6. /\ len \in Nat /\ DOMAIN idle = 1..len /\ surplus \in 0..len
      /\ \A i, j \in 1..len : idle[i] = idle[j] => i = j
  BY <1>5, LimitAssumption DEF Target, Distinct
<1>. HIDE DEF idle, surplus
<1>7. /\ gone \in Seq(Containers) /\ rest \in Seq(Containers)
      /\ DOMAIN gone = 1..surplus /\ DOMAIN rest = 1..(len - surplus)
      /\ \A i \in 1..surplus : gone[i] = idle[i]
      /\ \A i \in 1..(len - surplus) : rest[i] = idle[surplus + i]
  BY <1>5, <1>6
<1>8. Distinct(rest)
  <2>1. \A i, j \in 1..(len - surplus) : rest[i] = rest[j] => surplus + i = surplus + j
    BY <1>6, <1>7
  <2>. QED BY <1>6, <1>7, <2>1 DEF Distinct
<1>9. ToSet(rest) = pooled \ ToSet(gone)
  <2>1. ASSUME NEW i \in 1..(len - surplus)
        PROVE  rest[i] \in pooled /\ rest[i] \notin ToSet(gone)
    <3>1. surplus + i \in 1..len /\ surplus + i > surplus
      BY <1>6
    <3>2. \A j \in 1..surplus : j \in 1..len /\ j # surplus + i
      BY <1>6, <3>1
    <3>. QED BY <1>5, <1>6, <1>7, <3>1, <3>2 DEF ToSet
  <2>2. ASSUME NEW c \in pooled, c \notin ToSet(gone)
        PROVE  c \in ToSet(rest)
    <3>1. PICK i \in 1..len : idle[i] = c
      BY <1>5, <1>6 DEF ToSet
    <3>2. i > surplus
      <4>. SUFFICES ASSUME i <= surplus PROVE FALSE
        BY <1>6
      <4>1. i \in DOMAIN gone /\ gone[i] = c
        BY <1>6, <1>7, <3>1
      <4>. QED BY <2>2, <4>1 DEF ToSet
    <3>3. i - surplus \in 1..(len - surplus) /\ surplus + (i - surplus) = i
      BY <1>6, <3>2
    <3>. QED BY <1>7, <3>1, <3>3 DEF ToSet
  <2>. QED BY <1>7, <2>1, <2>2, SMTT(30) DEF ToSet
<1>. HIDE DEF gone, rest
<1>10. PICK refused \in SUBSET ToSet(gone) :
         Removal(ToSet(gone) \ refused, refused)
  BY <1>1
<1>11. /\ objects' = objects \ (ToSet(gone) \ refused)
       /\ stuck' = (stuck \ (ToSet(gone) \ refused)) \cup refused
       /\ expired' = expired \cap objects' /\ used' = used \cap objects'
       /\ overtaken' = overtaken \cap objects'
  BY <1>10 DEF Removal, BooksTyped
<1>12. /\ objects' \subseteq objects /\ ToSet(rest) \subseteq objects'
       /\ stuck' = stuck \cup refused /\ ToSet(gone) \subseteq pooled
       /\ refused \subseteq objects' /\ stuck' \subseteq objects'
  <2>1. ToSet(gone) \subseteq pooled
    BY <1>5, <1>6, <1>7 DEF ToSet
  <2>2. pooled \subseteq objects /\ stuck \cap pooled = {} /\ stuck \subseteq objects
    BY DEF QueueInv, OwnersInv, BooksTyped
  <2>. QED BY <1>9, <1>11, <2>1, <2>2
<1>13. QueueInv' /\ pool' \in Seq(Containers) /\ pooled' = ToSet(rest)
  BY <1>1, <1>7, <1>8, <1>12, IdleKeepsQueue
<1>14. BooksTyped'
  <2>1. IsFiniteSet(objects')
    BY <1>12, FS_Subset DEF BooksTyped
  <2>. QED BY <1>11, <1>12, <1>13, <2>1 DEF BooksTyped
<1>15. OwnersInv'
  <2>1. None \notin objects /\ at[k] = None
    BY <1>1 DEF BooksTyped, TasksInv, Placed
  <2>2. stuck \cap pooled = {} /\ stuck \subseteq objects
    BY DEF OwnersInv, BooksTyped
  <2>3. /\ Ownerless' \subseteq objects' /\ stuck' \cap pooled' = {}
        /\ Ownerless' = Ownerless \cap objects'
    BY <1>9, <1>11, <1>12, <1>13, <2>2 DEF Ownerless
  <2>. QED BY <1>1, <1>2, <1>12, <2>1, <2>3, OwnersKept
<1>16. CleanInv'
  <2>1. pooled' \subseteq pooled
    BY <1>9, <1>13
  <2>. QED BY <1>1, <1>2, <1>11, <1>12, <2>1, CalmKept
<1>. QED BY <1>4, <1>13, <1>14, <1>15, <1>16

(* A task that warms the pool is a creation nearer to the end. *)
LEMMA WarmingMoves ==
  ASSUME Inv, NEW t \in Tasks, pc[t] = "warming", OneLess(t),
         UNCHANGED <<at, todo, script>>, creating' = creating \ {t}
  PROVE  /\ TasksTyped' /\ TasksInv' /\ LockHeldAtWork' /\ Moves(t)
         /\ pc'[t] \in {"warming", "holding", "idle"}
<1>. USE NoneAssumption, TasksAssumption, LimitAssumption DEF Inv
<1>1. needed[t] \in 1..PoolMin /\ t # None
  BY DEF TasksTyped, TasksInv, Placed, Tasks
<1>2. PICK n \in 0..PoolMin, w \in {"warming", "holding", "idle"} :
        /\ needed' = [needed EXCEPT ![t] = n] /\ pc' = [pc EXCEPT ![t] = w]
        /\ \/ w = "warming" /\ n > 0 /\ lock' = lock
           \/ w = (IF t \in Clients THEN "holding" ELSE "idle") /\ lock' = None
  <2>. DEFINE Shape(n, w) ==
                /\ needed' = [needed EXCEPT ![t] = n] /\ pc' = [pc EXCEPT ![t] = w]
                /\ \/ w = "warming" /\ n > 0 /\ lock' = lock
                   \/ w = (IF t \in Clients THEN "holding" ELSE "idle") /\ lock' = None
  <2>1. CASE needed[t] = 1
    <3>1. Shape(0, IF t \in Clients THEN "holding" ELSE "idle") /\ 0 \in 0..PoolMin
      BY <2>1 DEF OneLess, Warmed, Goto
    <3>. QED BY <3>1
  <2>2. CASE needed[t] # 1
    <3>1. pc = [pc EXCEPT ![t] = "warming"]
      BY DEF TasksTyped
    <3>2. needed[t] - 1 \in 0..PoolMin /\ needed[t] - 1 > 0
      BY <1>1, <2>2
    <3>3. Shape(needed[t] - 1, "warming")
      BY <2>2, <3>1, <3>2 DEF OneLess
    <3>. QED BY <3>2, <3>3
  <2>. QED BY <2>1, <2>2
<1>3. Moves(t) /\ pc'[t] = w /\ needed'[t] = n /\ at'[t] = at[t]
  BY <1>2 DEF Moves, TasksTyped, Places
<1>4. Placed(t)'
  BY <1>2, <1>3 DEF TasksInv, Placed, Tasks
<1>5. lock' = t => pc'[t] \in {"warming", "reconciling"}
  BY <1>1, <1>2, <1>3
<1>6. lock' \in {lock, None, t} /\ creating' \subseteq creating \cup {t}
  BY <1>2
<1>. QED BY <1>2, <1>3, <1>4, <1>5, <1>6, TasksKept DEF TasksTyped

(* An allocation or a replacement is over without a container. *)
LEMMA LeavingMoves ==
  ASSUME Inv, NEW t \in Tasks, pc[t] \in {"allocating", "replacing"}, Leave(t),
         UNCHANGED <<lock, needed, todo, script>>, creating' = creating \ {t}
  PROVE  /\ TasksTyped' /\ TasksInv' /\ LockHeldAtWork' /\ Moves(t)
         /\ pc'[t] = "idle" /\ at' = at
<1>. USE NoneAssumption, TasksAssumption DEF Inv
<1>1. /\ t \in Clients /\ t \notin Checks /\ lock # t /\ at[t] = None
      /\ pc' = [pc EXCEPT ![t] = "idle"] /\ at' = at
  BY DEF Leave, Goto, Drop, Tasks, TasksInv, Placed, LockHeldAtWork, TasksTyped
<1>2. Moves(t) /\ pc'[t] = "idle" /\ at'[t] = None
  BY <1>1 DEF Moves, TasksTyped, Places
<1>3. Placed(t)'
  BY <1>1, <1>2 DEF Placed
<1>4. creating' \subseteq creating \cup {t}
  OBVIOUS
<1>. QED BY <1>1, <1>2, <1>3, <1>4, TasksKept DEF TasksTyped

(* A creation fails. *)
LEMMA CreateFailsKeeps ==
  ASSUME Inv, NEW t \in Tasks, CreateFails(t)
  PROVE  Inv'
<1>. USE DEF Inv
<1>1. /\ UNCHANGED books /\ UNCHANGED <<todo, script>> /\ creating' = creating \ {t}
      /\ pc[t] \in {"allocating", "warming", "replacing"}
  BY DEF CreateFails, AwaitsContainer
<1>2. /\ TasksTyped' /\ TasksInv' /\ LockHeldAtWork' /\ Moves(t) /\ at' = at
      /\ pc'[t] \in {"warming", "holding", "idle"}
      /\ pc'[t] = "warming" => pc[t] = "warming"
  <2>1. CASE pc[t] = "warming"
    <3>1. OneLess(t) /\ UNCHANGED at
      BY <2>1 DEF CreateFails
    <3>. QED BY <1>1, <2>1, <3>1, WarmingMoves
  <2>2. CASE pc[t] # "warming"
    <3>1. Leave(t) /\ UNCHANGED <<lock, needed>>
      BY <2>2 DEF CreateFails
    <3>. QED BY <1>1, <2>2, <3>1, LeavingMoves
  <2>. QED BY <2>1, <2>2
<1>3. BooksTyped' /\ QueueInv'
  BY <1>1, BooksKept
<1>4. OwnersInv'
  BY <1>1, <1>2 DEF books, OwnersInv, Ownerless
<1>5. CleanInv'
  <2>1. t \in Clients /\ pc'[t] \in Handed => Clean(at'[t])
    BY <1>2 DEF CleanInv, Handed
  <2>2. overtaken' = overtaken \cap objects'
    BY <1>1 DEF books, BooksTyped
  <2>. QED BY <1>1, <1>2, <2>1, <2>2, CalmKept DEF books
<1>. QED BY <1>2, <1>3, <1>4, <1>5

(* What was forgotten is clean when it is created.                         *)
LEMMA NewIsClean ==
  ASSUME Inv, NEW c \in Forgotten, UNCHANGED <<script, used>>,
         overtaken' = overtaken, objects' \subseteq objects \cup {c}
  PROVE  /\ \A x \in objects : (Clean(x) => Clean(x)') /\ (Quiet(x) => Quiet(x)')
         /\ Clean(c)'
<1>1. AtWork' = AtWork /\ Unclean' = Unclean
  BY DEF AtWork, Unclean
<1>2. c \notin Unclean
  BY DEF Forgotten, Unclean, AtWork, Inv, BooksTyped
<1>. QED BY <1>1, <1>2 DEF Clean, Quiet

(* A container that was created for the pool is idle, or nobody's.         *)
LEMMA NewKeeps ==
  ASSUME Inv, NEW t \in Tasks, NEW c \in Forgotten, AddNew(c), Moves(t),
         UNCHANGED <<at, script>>,
         t \in Clients => pc'[t] # "cleaning",
         pc'[t] \in Handed => pc[t] = "warming"
  PROVE  BooksTyped' /\ QueueInv' /\ OwnersInv' /\ CleanInv'
<1>. USE DEF Inv
<1>1. /\ pool' \in Seq(Containers) /\ QueueInv'
      /\ UNCHANGED <<expired, used, overtaken>>
  BY NewIsIdle
<1>2. /\ c \in Containers \ objects /\ \A u \in Tasks : at[u] # c
      /\ c \notin pooled /\ c \notin stuck
  BY DEF Forgotten, QueueInv, BooksTyped
<1>3. PICK X \in {{}, {c}}, Y \in {{}, {c}} :
        /\ objects' = objects \cup X \cup Y /\ pooled' = pooled \cup X
        /\ stuck' = stuck \cup Y /\ X \cap Y = {}
  BY NewIsIdle
<1>4. BooksTyped'
  <2>1. IsFiniteSet(objects \cup {c})
    BY FS_AddElement DEF BooksTyped
  <2>2. IsFiniteSet(objects')
    BY <1>3, <2>1, FS_Subset DEF BooksTyped
  <2>. QED BY <1>1, <1>2, <1>3, <2>2 DEF BooksTyped
<1>5. OwnersInv'
  <2>1. Ownerless' = Ownerless \cup X \cup Y /\ objects' = objects \cup X \cup Y
    BY <1>3 DEF Ownerless
  <2>2. stuck' \cap pooled' = {}
    BY <1>2, <1>3 DEF OwnersInv
  <2>. QED BY <1>2, <2>1, <2>2 DEF OwnersInv
<1>6. CleanInv'
  <2>1. /\ \A x \in objects : (Clean(x) => Clean(x)') /\ (Quiet(x) => Quiet(x)')
        /\ Clean(c)'
    BY <1>1, <1>3, NewIsClean
  <2>2. \A u \in Tasks : at[u] \in objects' => at[u] \in objects
    BY <1>2, <1>3
  <2>3. t \in Clients /\ pc'[t] \in Handed => Clean(at[t])'
    <3>1. t \in Clients /\ pc'[t] \in Handed => Clean(at[t])
      BY DEF CleanInv, Handed
    <3>. QED BY <2>1, <2>2, <3>1 DEF Clean
  <2>. QED BY <1>3, <2>1, <2>2, <2>3, CleanKept
<1>. QED BY <1>1, <1>4, <1>5, <1>6

(* A creation succeeds. *)
LEMMA CreateSucceedsKeeps ==
  ASSUME Inv, NEW t \in Tasks, CreateSucceeds(t)
  PROVE  Inv'
<1>. USE NoneAssumption, TasksAssumption DEF Inv
<1>1. /\ creating' = creating \ {t} /\ UNCHANGED <<todo, script>>
      /\ pc[t] \in {"allocating", "warming", "replacing"}
  BY DEF CreateSucceeds, TasksInv, Placed, AwaitsContainer
<1>2. PICK c \in Forgotten :
        /\ pc[t] = "warming" => AddNew(c) /\ OneLess(t) /\ UNCHANGED at
        /\ pc[t] = "replacing" =>
             AddNew(c) /\ Leave(t) /\ UNCHANGED <<lock, needed>>
        /\ pc[t] = "allocating" =>
             /\ objects' = objects \cup {c}
             /\ at' = [at EXCEPT ![t] = c] /\ Goto(t, "warm")
             /\ UNCHANGED <<pool, pooled, expired, used, stuck, overtaken,
                            lock, needed>>
  BY DEF CreateSucceeds
<1>3. CASE pc[t] = "warming"
  <2>1. AddNew(c) /\ OneLess(t) /\ UNCHANGED at
    BY <1>2, <1>3
  <2>2. /\ TasksTyped' /\ TasksInv' /\ LockHeldAtWork' /\ Moves(t)
        /\ pc'[t] \in {"warming", "holding", "idle"}
    BY <1>1, <1>3, <2>1, WarmingMoves
  <2>3. BooksTyped' /\ QueueInv' /\ OwnersInv' /\ CleanInv'
    BY <1>1, <1>2, <1>3, <2>1, <2>2, NewKeeps
  <2>. QED BY <2>2, <2>3
<1>4. CASE pc[t] = "replacing"
  <2>1. AddNew(c) /\ Leave(t) /\ UNCHANGED <<lock, needed>>
    BY <1>2, <1>4
  <2>2. /\ TasksTyped' /\ TasksInv' /\ LockHeldAtWork' /\ Moves(t)
        /\ pc'[t] = "idle" /\ at' = at
    BY <1>1, <1>4, <2>1, LeavingMoves
  <2>3. BooksTyped' /\ QueueInv' /\ OwnersInv' /\ CleanInv'
    BY <1>1, <1>2, <2>1, <2>2, NewKeeps DEF Handed
  <2>. QED BY <2>2, <2>3
<1>5. CASE pc[t] = "allocating"
  <2>1. /\ objects' = objects \cup {c} /\ at' = [at EXCEPT ![t] = c]
        /\ pc' = [pc EXCEPT ![t] = "warm"]
        /\ UNCHANGED <<pool, pooled, expired, used, stuck, overtaken, lock,
                       needed, script>>
    BY <1>1, <1>2, <1>5 DEF Goto
  <2>2. /\ t \in Clients /\ t \notin Checks /\ at[t] = None /\ lock # t
        /\ c \in Containers /\ c \notin objects /\ c \notin ToSet(pool)
        /\ \A u \in Tasks : at[u] # c
    BY <1>2, <1>5 DEF Tasks, TasksInv, Placed, LockHeldAtWork, Forgotten
  <2>3. Moves(t) /\ pc'[t] = "warm" /\ at'[t] = c
    BY <2>1, <2>2 DEF Moves, TasksTyped, Places
  <2>4. Placed(t)'
    BY <1>1, <2>2, <2>3 DEF Placed
  <2>5. TasksTyped' /\ TasksInv' /\ LockHeldAtWork'
    BY <1>1, <2>1, <2>2, <2>3, <2>4, TasksKept DEF TasksTyped
  <2>6. BooksTyped'
    <3>1. IsFiniteSet(objects')
      BY <2>1, FS_AddElement DEF BooksTyped
    <3>. QED BY <2>1, <2>2, <3>1 DEF BooksTyped
  <2>7. QueueInv'
    <3>1. \A i \in DOMAIN pool : pool[i] # c
      BY <2>2 DEF ToSet
    <3>. QED BY <2>1, <3>1 DEF QueueInv
  <2>8. OwnersInv'
    <3>1. /\ pooled \subseteq objects /\ None \notin objects
          /\ Ownerless' = Ownerless /\ Ownerless \subseteq objects
          /\ stuck' \cap pooled' = {}
      BY <2>1 DEF QueueInv, BooksTyped, Ownerless, OwnersInv
    <3>2. \A u \in Tasks : u # t => at'[u] = at[u] /\ at[u] # c
      BY <2>2, <2>3 DEF Moves
    <3>3. \A u \in Tasks : at'[u] \notin Ownerless'
      BY <2>1, <2>2, <2>3, <3>1, <3>2 DEF OwnersInv
    <3>4. ASSUME NEW x \in objects' \ Ownerless'
          PROVE  \E u \in Tasks : at'[u] = x
      <4>1. CASE x = c
        BY <2>3, <4>1
      <4>2. CASE x # c
        <5>1. PICK u \in Tasks : at[u] = x
          BY <2>1, <3>1, <3>4, <4>2 DEF OwnersInv
        <5>2. u # t
          BY <2>1, <2>2, <3>1, <3>4, <4>2, <5>1
        <5>. QED BY <3>2, <5>1, <5>2
      <4>. QED BY <4>1, <4>2
    <3>5. ASSUME NEW u \in Tasks, NEW v \in Tasks, at'[u] = at'[v],
                 at'[u] \in objects'
          PROVE  u = v
      BY <2>1, <2>3, <3>2, <3>5 DEF OwnersInv
    <3>. QED BY <3>1, <3>3, <3>4, <3>5 DEF OwnersInv
  <2>9. CleanInv'
    <3>1. /\ \A x \in objects : (Clean(x) => Clean(x)') /\ (Quiet(x) => Quiet(x)')
          /\ Clean(c)'
      BY <1>2, <2>1, NewIsClean
    <3>2. \A u \in Tasks \ {t} : at[u] \in objects' => at[u] \in objects
      BY <2>1, <2>2
    <3>3. Clean(at[t])'
      BY <2>3, <3>1 DEF Clean
    <3>. QED BY <2>1, <2>3, <3>1, <3>2, <3>3, CleanKept
  <2>. QED BY <2>5, <2>6, <2>7, <2>8, <2>9
<1>. QED BY <1>1, <1>3, <1>4, <1>5

(* The start warms finitely many containers, no more than it should.       *)
LEMMA WarmedIsBounded ==
  ASSUME WarmStart
  PROVE  IsFiniteSet(ToSet(pool)) /\ Cardinality(ToSet(pool)) <= PoolMin
<1>1. PICK n \in 0..PoolMin : pool \in [1..n -> Containers]
  BY DEF WarmStart
<1>2. pool \in Surjection(1..n, ToSet(pool))
  BY <1>1 DEF Surjection, ToSet
<1>3. n \in Nat /\ IsFiniteSet(1..n) /\ Cardinality(1..n) = n
  BY FS_Interval, LimitAssumption
<1>4. IsFiniteSet(ToSet(pool)) /\ Cardinality(ToSet(pool)) <= n
  BY <1>2, <1>3, FS_Surjection
<1>. QED BY <1>3, <1>4, FS_CardinalityType, LimitAssumption

(* The pool as the start leaves it: what was warmed is idle.               *)
LEMMA InvInit == Init => Inv
<1>. SUFFICES ASSUME Init PROVE Inv
  OBVIOUS
<1>. USE NoneAssumption, LimitAssumption DEF Init, WarmStart
<1>1. PICK n \in 0..PoolMin : pool \in [1..n -> Containers]
  OBVIOUS
<1>2. BooksTyped
  <2>1. pool \in Seq(Containers)
    BY <1>1
  <2>2. ToSet(pool) \subseteq Containers
    BY <1>1 DEF ToSet
  <2>. QED BY <2>1, <2>2, WarmedIsBounded DEF BooksTyped
<1>3. QueueInv
  BY <1>1 DEF QueueInv, ToSet
<1>4. OwnersInv
  BY <1>2 DEF OwnersInv, Ownerless, BooksTyped
<1>5. TasksTyped /\ TasksInv /\ LockHeldAtWork
  BY DEF TasksTyped, Places, TasksInv, Placed, LockHeldAtWork, Tasks
<1>6. CleanInv
  <2>1. Unclean = {}
    BY DEF Unclean, AtWork
  <2>. QED BY <2>1 DEF CleanInv, Clean, Handed, Tasks
<1>. QED BY <1>2, <1>3, <1>4, <1>5, <1>6 DEF Inv

(* Every step keeps the invariant.                                         *)
LEMMA InvStep == Inv /\ [Next]_vars => Inv'
<1>. SUFFICES ASSUME Inv, [Next]_vars PROVE Inv'
  OBVIOUS
<1>1. ASSUME NEW t \in Tasks, Requests(t) PROVE Inv'
  <2>1. ASSUME t \in Clients, Abandons(t) PROVE Inv'
    BY <2>1, AbandonsKeeps DEF Abandons, Inv, BooksTyped, books
  <2>. QED BY <1>1, <2>1, AllocateKeeps, ExecuteKeeps, RecycleKeeps, CheckKeeps
           DEF Requests
<1>2. ASSUME NEW t \in Tasks, Resumes(t) PROVE Inv'
  <2>1. ASSUME t \in Clients, TimesOut(t) PROVE Inv'
    BY <2>1, AbandonsKeeps DEF TimesOut, Inv, BooksTyped
  <2>. QED BY <1>2, <2>1, CreateStartsKeeps, CreateSucceedsKeeps,
              CreateFailsKeeps, PingSucceedsKeeps, PingFailsKeeps,
              CleanSucceedsKeeps, CleanFailsKeeps, WarmKeeps, ScriptWorksKeeps,
              ScriptEndsKeeps, ReturnKeeps, ReconcileOneKeeps,
              ReconcileFailsKeeps, ReconcileEndsKeeps
           DEF Resumes
<1>3. ASSUME NEW c \in Containers, Expires(c) PROVE Inv'
  BY <1>3, ExpiresKeeps
<1>4. CASE UNCHANGED vars
  <2>1. UNCHANGED books /\ UNCHANGED tasks /\ UNCHANGED script
    BY <1>4 DEF vars
  <2>2. BooksTyped' /\ QueueInv'
    BY <2>1, BooksKept
  <2>3. OwnersInv' /\ CleanInv' /\ LockHeldAtWork'
    BY <2>1 DEF Inv, books, tasks, OwnersInv, Ownerless, CleanInv, Clean, Quiet,
                Unclean, AtWork, LockHeldAtWork
  <2>4. TasksTyped' /\ TasksInv'
    BY <2>1 DEF Inv, tasks, TasksTyped, TasksInv, Placed, AwaitsContainer
  <2>. QED BY <2>2, <2>3, <2>4 DEF Inv
<1>. QED BY <1>1, <1>2, <1>3, <1>4 DEF Next

(* The invariant holds in every state.                                    *)
LEMMA InvHolds == Spec => []Inv
<1>. QED BY InvInit, InvStep, PTL DEF Spec

-----------------------------------------------------------------------------

(* The variables keep their types. *)
THEOREM Typed == Spec => []TypeOK
<1>1. Inv => TypeOK
  BY DEF Inv, BooksTyped, TasksTyped, Places, TasksInv, Placed, TypeOK
<1>. QED BY <1>1, InvHolds, PTL

(* The queue and the set beside it agree, though neither is changed under  *)
(* the lock only: what is idle is queued once, and what allocate takes     *)
(* from the queue is idle.                                                 *)
THEOREM QueueHoldsIdle == Spec => []QueueIsIdle
<1>1. ASSUME Inv PROVE QueueIsIdle
  <2>. USE <1>1 DEF Inv, QueueInv
  <2>. DEFINE entries(c) == {i \in DOMAIN pool : pool[i] = c}
  <2>1. ASSUME NEW c \in pooled PROVE Cardinality(entries(c)) = 1
    <3>1. PICK i \in DOMAIN pool : pool[i] = c
      BY <2>1 DEF ToSet
    <3>2. entries(c) = {i}
      BY <2>1, <3>1
    <3>. QED BY <3>2, FS_Singleton
  <2>2. ASSUME NEW c \in objects \ pooled PROVE Cardinality(entries(c)) = 0
    <3>1. entries(c) = {}
      BY <2>2
    <3>. QED BY <3>1, FS_EmptySet
  <2>. QED BY <2>1, <2>2 DEF QueueIsIdle
<1>. QED BY <1>1, InvHolds, PTL

(* However allocations, recycling, removals that fail and health checks    *)
(* overlap, a container is idle or one request's, unless Docker refused to *)
(* remove it: then it is nobody's, and never idle again.                   *)
THEOREM ContainersAreOwned == Spec => []OwnedOnce
<1>1. ASSUME Inv PROVE OwnedOnce
  <2>. USE <1>1 DEF Inv, OwnersInv, Ownerless
  <2>. DEFINE owners(c) == {t \in Tasks : at[t] = c}
  <2>1. ASSUME NEW c \in objects \ Ownerless PROVE Cardinality(owners(c)) = 1
    <3>1. PICK t \in Tasks : at[t] = c
      BY <2>1
    <3>2. owners(c) = {t}
      BY <2>1, <3>1
    <3>. QED BY <3>2, FS_Singleton
  <2>2. ASSUME NEW c \in Ownerless PROVE owners(c) = {}
    BY <2>2
  <2>. QED BY <2>1, <2>2 DEF OwnedOnce
<1>. QED BY <1>1, InvHolds, PTL

(* A client gets nothing another one left behind and no script still at    *)
(* work, unless the container was recycled under its script.               *)
THEOREM GrantsAreClean == Spec => []GrantedClean
<1>1. ASSUME Inv PROVE GrantedClean
  <2>. USE <1>1 DEF Inv, CleanInv, Clean, Handed
  <2>1. pooled \cap Unclean \subseteq overtaken
    BY DEF QueueInv
  <2>. QED BY <2>1 DEF GrantedClean, Granted
<1>. QED BY <1>1, InvHolds, PTL

(* The maintenance lock is held by a task that will release it.            *)
THEOREM LockIsAtWork == Spec => []LockHeldAtWork
<1>1. Inv => LockHeldAtWork
  BY DEF Inv
<1>. QED BY <1>1, InvHolds, PTL

(* What is known, and what may yet become known, is finitely much.         *)
LEMMA CountsTyped ==
  ASSUME Inv
  PROVE  /\ IsFiniteSet(objects) /\ Cardinality(objects) \in Nat
         /\ IsFiniteSet(creating) /\ Cardinality(creating) \in Nat
         /\ IsFiniteSet(Tasks) /\ Cardinality(Tasks) \in Nat
BY TasksAssumption, FS_Subset, FS_CardinalityType
   DEF Inv, BooksTyped, TasksTyped

(* Only CreateStarts adds a creation, and only CreateSucceeds turns one    *)
(* into a container.                                                       *)
LEMMA CountsShrink ==
  ASSUME Inv, [Next]_vars,
         \A t \in Tasks : ~CreateStarts(t) /\ ~CreateSucceeds(t)
  PROVE  objects' \subseteq objects /\ creating' \subseteq creating
<1>1. ASSUME NEW t \in Tasks, Requests(t)
      PROVE  objects' \subseteq objects /\ UNCHANGED creating
  <2>1. ASSUME Allocate(t) PROVE objects' \subseteq objects /\ UNCHANGED creating
    BY <2>1 DEF Allocate, TakeIdle, Drain, Removal
  <2>2. ASSUME Execute(t) \/ Abandons(t) \/ Check(t)
        PROVE  objects' \subseteq objects /\ UNCHANGED creating
    BY <2>2 DEF Execute, Abandons, Check, books
  <2>3. ASSUME Recycle(t) PROVE objects' \subseteq objects /\ UNCHANGED creating
    BY <2>3 DEF Recycle, Forget, Refused, Removal, books
  <2>. QED BY <1>1, <2>1, <2>2, <2>3 DEF Requests
<1>2. ASSUME NEW t \in Tasks, Resumes(t)
      PROVE  objects' \subseteq objects /\ creating' \subseteq creating
  <2>1. ASSUME CreateFails(t) \/ PingSucceeds(t) \/ CleanSucceeds(t) \/ Warm(t)
        PROVE  UNCHANGED objects /\ creating' \subseteq creating
    BY <2>1 DEF CreateFails, PingSucceeds, CleanSucceeds, Warm, books
  <2>2. ASSUME PingFails(t) \/ CleanFails(t) \/ Return(t)
        PROVE  objects' \subseteq objects /\ UNCHANGED creating
    BY <2>2 DEF PingFails, TakeIdle, Drain, CleanFails, Return, Forget, Refused,
                Removal
  <2>3. ASSUME \/ ReconcileFails(t) \/ ReconcileEnds(t)
               \/ \E c \in Containers : ReconcileOne(t, c)
        PROVE  objects' \subseteq objects /\ UNCHANGED creating
    BY <2>3 DEF ReconcileFails, ReconcileEnds, ReconcileOne, Forget, Removal, books
  <2>4. ASSUME ScriptWorks(t) \/ ScriptEnds(t) \/ TimesOut(t)
        PROVE  objects' \subseteq objects /\ UNCHANGED creating
    BY <2>4 DEF ScriptWorks, ScriptEnds, TimesOut, books, tasks
  <2>. QED BY <1>2, <2>1, <2>2, <2>3, <2>4 DEF Resumes
<1>3. ASSUME NEW c \in Containers, Expires(c)
      PROVE  UNCHANGED <<objects, creating>>
  BY <1>3 DEF Expires, tasks
<1>4. CASE UNCHANGED vars
  BY <1>4 DEF vars, books, tasks
<1>. QED BY <1>1, <1>2, <1>3, <1>4 DEF Next

(* A creation begins below the limit, beside one for each other task at    *)
(* most.                                                                   *)
LEMMA LimitStep ==
  ASSUME Inv, Inv', [Next]_vars, LimitPassedTogether
  PROVE  LimitPassedTogether'
<1>. USE LimitAssumption DEF LimitPassedTogether
<1>1. ASSUME NEW t \in Tasks, CreateStarts(t)
      PROVE  LimitPassedTogether'
  <2>1. UNCHANGED objects /\ Cardinality(objects) < PoolMax
    BY <1>1 DEF CreateStarts, WithinLimit, books
  <2>2. Cardinality(creating') <= Cardinality(Tasks)
    BY CountsTyped, FS_Subset DEF Inv, TasksTyped
  <2>3. Cardinality(creating') \in Nat
    BY <2>2, CountsTyped, FS_Subset, FS_CardinalityType DEF Inv, TasksTyped
  <2>. QED BY <2>1, <2>2, <2>3, CountsTyped
<1>2. ASSUME NEW t \in Tasks, CreateSucceeds(t)
      PROVE  LimitPassedTogether'
  <2>1. t \in creating /\ creating' = creating \ {t}
    BY <1>2 DEF CreateSucceeds
  <2>2. Cardinality(creating') = Cardinality(creating) - 1
    BY <2>1, CountsTyped, FS_RemoveElement
  <2>3. \E c : objects' \subseteq objects \cup {c}
    <3>1. AwaitsContainer(t)
      BY <2>1 DEF Inv, TasksInv, Placed
    <3>. QED BY <1>2, <3>1 DEF CreateSucceeds, AwaitsContainer, AddNew, books
  <2>. PICK c : objects' \subseteq objects \cup {c}
    BY <2>3
  <2>4. /\ IsFiniteSet(objects \cup {c})
        /\ Cardinality(objects \cup {c}) <= Cardinality(objects) + 1
    <3>1. IsFiniteSet(objects) /\ Cardinality(objects) \in Nat
      BY CountsTyped
    <3>2. CASE c \in objects
      <4>1. objects \cup {c} = objects
        BY <3>2
      <4>. QED BY <3>1, <4>1
    <3>3. CASE c \notin objects
      <4>1. IsFiniteSet({c}) /\ IsFiniteSet(objects \cup {c})
        BY <3>1, FS_Singleton, FS_Union
      <4>2. Cardinality((objects \cup {c}) \ {c}) =
              Cardinality(objects \cup {c}) - 1
        BY <4>1, FS_RemoveElement
      <4>3. (objects \cup {c}) \ {c} = objects
        BY <3>3
      <4>4. Cardinality(objects \cup {c}) \in Nat
        BY <4>1, FS_CardinalityType
      <4>5. Cardinality(objects) = Cardinality(objects \cup {c}) - 1
        BY <4>2, <4>3
      <4>. QED BY <3>1, <4>1, <4>4, <4>5
    <3>. QED BY <3>2, <3>3
  <2>5. /\ Cardinality(objects \cup {c}) \in Nat
        /\ Cardinality(objects') <= Cardinality(objects \cup {c})
        /\ Cardinality(objects') \in Nat
    BY <2>4, FS_Subset, FS_CardinalityType
  <2>. QED BY <2>2, <2>4, <2>5, CountsTyped
<1>3. CASE \A t \in Tasks : ~CreateStarts(t) /\ ~CreateSucceeds(t)
  <2>1. objects' \subseteq objects /\ creating' \subseteq creating
    BY <1>3, CountsShrink
  <2>2. /\ Cardinality(objects') <= Cardinality(objects)
        /\ Cardinality(creating') <= Cardinality(creating)
        /\ Cardinality(objects') \in Nat /\ Cardinality(creating') \in Nat
    BY <2>1, CountsTyped, FS_Subset, FS_CardinalityType
  <2>. QED BY <2>2, CountsTyped
<1>. QED BY <1>1, <1>2, <1>3

(* The containers pass POOL_MAX only together: one that began below it for *)
(* each task at work (_create_container's check and its late count).       *)
THEOREM LimitIsPassedTogether == Spec => []LimitPassedTogether
<1>1. ASSUME Init PROVE LimitPassedTogether
  <2>1. Inv /\ creating = {} /\ objects = ToSet(pool)
    BY <1>1, InvInit DEF Init, WarmStart
  <2>2. Cardinality(objects) <= PoolMin
    BY <1>1, <2>1, WarmedIsBounded DEF Init
  <2>3. Cardinality(Tasks) \in Nat /\ Cardinality(Tasks) # 0
    BY TasksAssumption, FS_CardinalityType, FS_EmptySet DEF Tasks
  <2>. QED BY <2>1, <2>2, <2>3, CountsTyped, FS_EmptySet, LimitAssumption
           DEF LimitPassedTogether
<1>. QED BY <1>1, InvInit, InvStep, LimitStep, InvHolds, PTL DEF Spec
=============================================================================
