-------------------------- MODULE ScreenPartsProofs -------------------------
(***************************************************************************)
(* What holds of the components of ScreenParts, for every value of the     *)
(* constants.  Each has a strengthening, its name with the two letters of  *)
(* the component before it, that is shown to hold at the start and to be   *)
(* kept by every step; PartsProofs puts them together.                     *)
(***************************************************************************)
EXTENDS ScreenParts, ListingProofs, FiniteSetTheorems, TLAPS

-----------------------------------------------------------------------------
(* What the instances make of the lists, and of the bounds.                *)

LEMMA ScreenBounds ==
  /\ PageSize \in Nat /\ MaxNotices \in Nat /\ MaxSaves \in Nat /\ MaxPics \in Nat
  /\ MaxWrites \in Nat /\ MaxUnread \in Nat /\ MaxUnread # 0
  BY BoundsAssumption

\* Each instance has operators of its own for the lists.
LEMMA SameScreen ==
  /\ \A S : Rx!Cardinality(S) = Cardinality(S)
  /\ \A S : Nt!InOrder(S) = InOrder(S) /\ Iq!InOrder(S) = InOrder(S)
  /\ \A list, id : Nt!Without(list, id) = Without(list, id) /\ Iq!Without(list, id) = Without(list, id)
  /\ \A s : Iq!IsInjective(s) <=> IsInjective(s)
  <1>1. \A S : Nt!Cardinality(S) = Cardinality(S)
    BY DEF Nt!Cardinality, Cardinality
  <1>2. \A S : Iq!Cardinality(S) = Cardinality(S)
    BY DEF Iq!Cardinality, Cardinality
  <1>3. \A S : Nt!InOrder(S) = InOrder(S)
    BY <1>1 DEF Nt!InOrder, InOrder
  <1>4. \A S : Iq!InOrder(S) = InOrder(S)
    BY <1>2 DEF Iq!InOrder, InOrder
  <1>5. \A list, id : Nt!Without(list, id) = Without(list, id)
    BY <1>3 DEF Nt!Without, Without
  <1>6. \A list, id : Iq!Without(list, id) = Without(list, id)
    BY <1>4 DEF Iq!Without, Without
  <1>7. \A s : Iq!IsInjective(s) <=> IsInjective(s)
    BY DEF Iq!IsInjective, IsInjective
  <1>8. \A S : Rx!Cardinality(S) = Cardinality(S)
    BY DEF Rx!Cardinality, Cardinality
  <1> QED
    BY <1>3, <1>4, <1>5, <1>6, <1>7, <1>8

LEMMA NtOrdered ==
  ASSUME NEW S \in SUBSET Nat, IsFiniteSet(S)
  PROVE  /\ Nt!InOrder(S) \in [1..Cardinality(S) -> S]
         /\ \A i, j \in DOMAIN Nt!InOrder(S) : i < j => Nt!InOrder(S)[i] < Nt!InOrder(S)[j]
         /\ \A m \in S : \E i \in DOMAIN Nt!InOrder(S) : Nt!InOrder(S)[i] = m
  BY Ordered, SameScreen

LEMMA NtLacking ==
  ASSUME NEW M, NEW list \in Seq(M), NEW id
  PROVE  LET rest == Nt!Without(list, id) IN
         /\ rest \in Seq(M)
         /\ \A i \in DOMAIN rest : \E j \in DOMAIN list : list[j] # id /\ rest[i] = list[j]
         /\ \A j \in DOMAIN list : list[j] # id => \E i \in DOMAIN rest : rest[i] = list[j]
         /\ IsInjective(list) => IsInjective(rest)
  BY Lacking, SameScreen

LEMMA IqLacking ==
  ASSUME NEW M, NEW list \in Seq(M), NEW id
  PROVE  LET rest == Iq!Without(list, id) IN
         /\ rest \in Seq(M)
         /\ \A i \in DOMAIN rest : \E j \in DOMAIN list : list[j] # id /\ rest[i] = list[j]
         /\ \A j \in DOMAIN list : list[j] # id => \E i \in DOMAIN rest : rest[i] = list[j]
         /\ Iq!IsInjective(list) => Iq!IsInjective(rest)
  BY Lacking, SameScreen

\* The users of Reactions.
LEMMA RxFinite == IsFiniteSet({"me", "other"})
  <1>1. {"me", "other"} = ({} \cup {"me"}) \cup {"other"}
    OBVIOUS
  <1>2. IsFiniteSet({}) /\ "me" \notin {}
    BY FS_EmptySet
  <1>3. IsFiniteSet({} \cup {"me"})
    BY <1>2, FS_AddElement
  <1>4. IsFiniteSet(({} \cup {"me"}) \cup {"other"})
    BY <1>3, FS_AddElement
  <1> QED
    BY <1>1, <1>4

-----------------------------------------------------------------------------
(* Notices: a list that nothing has crossed is what is stored.             *)

NtItems == [id : Nt!Notice, read : BOOLEAN]
NtPage == [pc : {"asked"}, page : Nat \ {0}]
          \cup [pc : {"answered"}, page : Nat \ {0}, part : Seq(NtItems), has : BOOLEAN]
NtChanges == [op : {"read", "readAll", "remove"}, pc : {"asked", "done"}, n : Nt!Notice, prev : Seq(NtItems)]
NtTypes ==
  /\ s1 \in [Nt!Notice -> {"none", "unread", "read", "gone"}] /\ s2 \in SUBSET Nt!Notice
  /\ s3 \in Seq(NtItems) /\ s4 \in {Nt!NoLoad} \cup NtPage
  /\ s5 \in [page : Nat \ {0}, has : BOOLEAN]
  /\ s6 \in [Req -> {Nt!Idle} \cup NtChanges] /\ s7 \in BOOLEAN /\ s8 \in BOOLEAN

\* What a list shows as not read and as read,
NtFresh(list) == {n \in Nt!Notice : \E i \in DOMAIN list : list[i].id = n /\ ~list[i].read}
NtOld(list) == {n \in Nt!Notice : \E i \in DOMAIN list : list[i].id = n /\ list[i].read}
NtIds(list) == NtFresh(list) \cup NtOld(list)
\* each of it once.
NtOnce(list) == \A i, j \in DOMAIN list : list[i].id = list[j].id => i = j

NtExist == {n \in Nt!Notice : s1[n] \in {"unread", "read"}}
\* All of the rows from the newest to some row.
NtNewest(ids) == \A n \in ids : \A m \in NtExist : m > n => m \in ids

\* Changes that the server may yet make, and the rows one took from what is shown as
\* not read.
NtAsked(t) == s6[t] # Nt!Idle /\ s6[t].pc = "asked"
NtTakes(t) == IF s6[t].op = "readAll" THEN NtFresh(s6[t].prev) ELSE NtFresh(s6[t].prev) \cap {s6[t].n}
NtRemoved == {n \in Nt!Notice : \E t \in Req : NtAsked(t) /\ s6[t].op = "remove" /\ s6[t].n = n}
NtWarranted(n) ==
  s1[n] = "read" \/ \E t \in Req : NtAsked(t) /\ s6[t].op # "remove" /\ n \in NtTakes(t)

\* What there is to be seen once all that is told has come and no removal is done.
NtSeen == NtIds(s3) \cup NtRemoved \cup s2

\* A change that is asked can be taken back,
NtChanging(t) ==
  /\ NtOnce(s6[t].prev)
  /\ \A n \in NtTakes(t) : s1[n] \in {"unread", "gone"} /\ n \notin s2 /\ n \notin NtFresh(s3)
  /\ \A s \in Req : NtAsked(s) /\ s # t => NtTakes(s) \cap NtTakes(t) = {}
  /\ s6[t].op = "read" => s6[t].n \in NtTakes(t)
  /\ s6[t].op = "remove" =>
       /\ s6[t].n \in NtIds(s6[t].prev) /\ s6[t].n \notin s2 /\ s6[t].n \notin NtIds(s3)
       /\ s6[t].n \in NtExist
       /\ \A m \in NtOld(s6[t].prev) \cap {s6[t].n} : NtWarranted(m)
       /\ \A s \in Req : NtAsked(s) /\ s # t /\ s6[s].op = "remove" => s6[s].n # s6[t].n

\* the list is what is stored but for those,
NtListed ==
  /\ NtOnce(s3)
  /\ NtIds(s3) \subseteq NtExist /\ NtIds(s3) \cap s2 = {}
  /\ \A n \in NtFresh(s3) : s1[n] = "unread"
  /\ \A n \in NtOld(s3) : NtWarranted(n)
  /\ NtNewest(NtSeen)
  /\ ~s5.has => NtExist \subseteq NtSeen
  /\ s5.has /\ ~s7 => Cardinality(NtIds(s3) \cup NtRemoved) = s5.page * PageSize
  /\ \A t \in Req : NtAsked(t) => NtChanging(t)

\* and an answer is what is to follow it.
NtFirst == s4 # Nt!NoLoad /\ s4.page = 1
NtBefore == IF NtFirst THEN {} ELSE NtIds(s3)
NtAnswered ==
  /\ \A t \in Req : s6[t] = Nt!Idle
  /\ NtOnce(s4.part)
  /\ NtIds(s4.part) \subseteq NtExist /\ NtIds(s4.part) \cap (s2 \cup NtBefore) = {}
  /\ \A n \in NtFresh(s4.part) : s1[n] = "unread"
  /\ \A n \in NtOld(s4.part) : s1[n] = "read"
  /\ NtNewest(NtBefore \cup NtIds(s4.part) \cup s2)
  /\ ~s4.has => NtExist \subseteq NtBefore \cup NtIds(s4.part) \cup s2
  /\ s4.has /\ ~s7 => Cardinality(NtBefore \cup NtIds(s4.part)) = s4.page * PageSize

\* Only what has come is met, and it comes in the order of its number.
NtKnown == {n \in Nt!Notice : s1[n] # "none"}
NtMet ==
  /\ s2 \subseteq NtKnown /\ NtIds(s3) \subseteq NtKnown
  /\ s4.pc = "answered" => NtIds(s4.part) \subseteq NtKnown
  /\ \A t \in Req : s6[t] # Nt!Idle =>
       NtIds(s6[t].prev) \subseteq NtKnown /\ (s6[t].op # "readAll" => s6[t].n \in NtKnown)
  /\ \A m, n \in Nt!Notice : m < n /\ n \in NtKnown => m \in NtKnown

NtGood ==
  /\ s2 # {} => s7
  /\ s4 # Nt!NoLoad /\ s4.page # 1 => s5.has /\ s4.page = s5.page + 1
  /\ ~NtFirst => NtListed
  /\ s4.pc = "answered" => NtAnswered

NtInv == NtTypes /\ NtMet /\ (~s8 => NtGood)

-----------------------------------------------------------------------------
LEMMA NtFlags ==
  ASSUME NEW list \in Seq(NtItems)
  PROVE  /\ DOMAIN list = 1..Len(list) /\ Len(list) \in Nat
         /\ \A i \in DOMAIN list : /\ list[i] \in NtItems /\ list[i].id \in Nt!Notice /\ list[i].read \in BOOLEAN
                                   /\ list[i] = Nt!Item(list[i].id, list[i].read)
                                   /\ list[i].id \in NtIds(list)
         /\ NtIds(list) \subseteq Nt!Notice
         /\ \A n \in NtIds(list) : \E i \in DOMAIN list : list[i].id = n
         /\ NtOnce(list) => NtFresh(list) \cap NtOld(list) = {}
  <1>1. DOMAIN list = 1..Len(list) /\ Len(list) \in Nat
    OBVIOUS
  <1>2. \A i \in DOMAIN list : list[i] \in NtItems
    BY Within
  <1>3. \A x \in NtItems : x.id \in Nt!Notice /\ x.read \in BOOLEAN /\ x = Nt!Item(x.id, x.read)
    BY DEF NtItems, Nt!Item
  <1>4. \A i \in DOMAIN list : list[i].id \in NtIds(list)
    BY <1>2, <1>3 DEF NtIds, NtFresh, NtOld
  <1>5. NtOnce(list) => NtFresh(list) \cap NtOld(list) = {}
    BY DEF NtOnce, NtFresh, NtOld
  <1>6. /\ NtIds(list) \subseteq Nt!Notice
        /\ \A n \in NtIds(list) : \E i \in DOMAIN list : list[i].id = n
    BY DEF NtIds, NtFresh, NtOld
  <1> QED
    BY <1>1, <1>2, <1>3, <1>4, <1>5, <1>6

\* A list that shows each notice once has as many places as notices.
LEMMA NtSized ==
  ASSUME NEW list \in Seq(NtItems), NtOnce(list)
  PROVE  IsFiniteSet(NtIds(list)) /\ Cardinality(NtIds(list)) = Len(list)
  <1> DEFINE f == [i \in 1..Len(list) |-> list[i].id]
  <1>1. /\ DOMAIN list = 1..Len(list) /\ Len(list) \in Nat
        /\ \A i \in DOMAIN list : list[i].id \in NtIds(list)
        /\ \A n \in NtIds(list) : \E i \in DOMAIN list : list[i].id = n
    BY NtFlags
  <1>2. f \in Bijection(1..Len(list), NtIds(list))
    <2>1. f \in [1..Len(list) -> NtIds(list)] /\ \A i, j \in 1..Len(list) : f[i] = f[j] => i = j
      BY <1>1 DEF NtOnce
    <2>2. \A n \in NtIds(list) : \E i \in 1..Len(list) : f[i] = n
      BY <1>1
    <2> HIDE DEF f
    <2> QED
      BY <2>1, <2>2 DEF Bijection, Injection, IsInjective, Surjection
  <1>3. IsFiniteSet(1..Len(list)) /\ Cardinality(1..Len(list)) = Len(list)
    <2>1. Len(list) \in Nat
      BY <1>1
    <2> HIDE DEF f
    <2> QED
      BY <2>1, FS_Interval
  <1> QED
    BY <1>2, <1>3, FS_Bijection, FS_SameCardinalityBij DEF ExistsBijection

LEMMA NtShownRead ==
  ASSUME NEW list \in Seq(NtItems), NEW n \in Nt!Notice
  PROVE  /\ Nt!Shown(list, "read", n) \in Seq(NtItems)
         /\ NtIds(Nt!Shown(list, "read", n)) = NtIds(list)
         /\ NtFresh(Nt!Shown(list, "read", n)) = NtFresh(list) \ {n}
         /\ NtOld(Nt!Shown(list, "read", n)) = NtOld(list) \cup (NtIds(list) \cap {n})
         /\ NtOnce(Nt!Shown(list, "read", n)) <=> NtOnce(list)
  <1> DEFINE s == Nt!Shown(list, "read", n)
  <1>1. /\ s = [i \in DOMAIN list |-> IF list[i].id = n THEN Nt!Item(n, TRUE) ELSE list[i]]
    BY DEF Nt!Shown
  <1>2. /\ DOMAIN list = 1..Len(list) /\ Len(list) \in Nat
        /\ \A i \in DOMAIN list : list[i] \in NtItems /\ list[i].id \in Nt!Notice
    BY NtFlags
  <1>3. Nt!Item(n, TRUE) \in NtItems /\ Nt!Item(n, TRUE).id = n /\ Nt!Item(n, TRUE).read = TRUE
    BY DEF NtItems, Nt!Item
  <1>4. /\ s \in Seq(NtItems) /\ DOMAIN s = DOMAIN list
        /\ \A i \in DOMAIN list : s[i].id = list[i].id /\ (s[i].read <=> list[i].read \/ list[i].id = n)
    <2>1. /\ s \in [1..Len(list) -> NtItems]
      BY <1>1, <1>2, <1>3
    <2>2. \A i \in DOMAIN list : s[i].id = list[i].id /\ (s[i].read <=> list[i].read \/ list[i].id = n)
      BY <1>1, <1>3
    <2> QED
      BY <1>1, <1>2, <2>1, <2>2
  <1> HIDE DEF s
  <1>5. NtFresh(s) = NtFresh(list) \ {n}
    BY <1>4 DEF NtFresh
  <1>6. NtOld(s) = NtOld(list) \cup ((NtFresh(list) \cup NtOld(list)) \cap {n})
    BY <1>2, <1>4 DEF NtOld, NtFresh
  <1>7. NtOnce(s) <=> NtOnce(list)
    BY <1>4 DEF NtOnce
  <1> QED
    BY <1>4, <1>5, <1>6, <1>7 DEF NtIds, s

LEMMA NtShownReadAll ==
  ASSUME NEW list \in Seq(NtItems), NEW n
  PROVE  /\ Nt!Shown(list, "readAll", n) \in Seq(NtItems)
         /\ NtIds(Nt!Shown(list, "readAll", n)) = NtIds(list)
         /\ NtFresh(Nt!Shown(list, "readAll", n)) = {}
         /\ NtOnce(Nt!Shown(list, "readAll", n)) <=> NtOnce(list)
  <1> DEFINE s == Nt!Shown(list, "readAll", n)
  <1>1. s = [i \in DOMAIN list |-> Nt!Item(list[i].id, TRUE)]
    BY DEF Nt!Shown
  <1>2. /\ DOMAIN list = 1..Len(list) /\ Len(list) \in Nat
        /\ \A i \in DOMAIN list : list[i] \in NtItems /\ list[i].id \in Nt!Notice
    BY NtFlags
  <1>3. \A m \in Nt!Notice : Nt!Item(m, TRUE) \in NtItems /\ Nt!Item(m, TRUE).id = m /\ Nt!Item(m, TRUE).read = TRUE
    BY DEF NtItems, Nt!Item
  <1>4. /\ s \in Seq(NtItems) /\ DOMAIN s = DOMAIN list
        /\ \A i \in DOMAIN list : s[i].id = list[i].id /\ s[i].read
    <2>1. s \in [1..Len(list) -> NtItems]
      BY <1>1, <1>2, <1>3
    <2>2. \A i \in DOMAIN list : s[i].id = list[i].id /\ s[i].read = TRUE
      BY <1>1, <1>2, <1>3
    <2> QED
      BY <1>1, <1>2, <2>1, <2>2
  <1> HIDE DEF s
  <1>5. NtFresh(s) = {} /\ NtOld(s) = NtFresh(list) \cup NtOld(list)
    BY <1>2, <1>4 DEF NtOld, NtFresh
  <1>7. NtOnce(s) <=> NtOnce(list)
    BY <1>4 DEF NtOnce
  <1> QED
    BY <1>4, <1>5, <1>7 DEF NtIds, s

LEMMA NtShownRemove ==
  ASSUME NEW list \in Seq(NtItems), NEW n \in Nt!Notice
  PROVE  /\ Nt!Shown(list, "remove", n) \in Seq(NtItems)
         /\ NtFresh(Nt!Shown(list, "remove", n)) = NtFresh(list) \ {n}
         /\ NtOld(Nt!Shown(list, "remove", n)) = NtOld(list) \ {n}
         /\ NtOnce(list) => NtOnce(Nt!Shown(list, "remove", n))
  <1> DEFINE l1 == Nt!Without(list, Nt!Item(n, TRUE))
             s == Nt!Without(l1, Nt!Item(n, FALSE))
  <1>0. Nt!Shown(list, "remove", n) = s
    BY DEF Nt!Shown
  <1>1. /\ l1 \in Seq(NtItems)
        /\ \A i \in DOMAIN l1 : \E j \in DOMAIN list : list[j] # Nt!Item(n, TRUE) /\ l1[i] = list[j]
        /\ \A j \in DOMAIN list : list[j] # Nt!Item(n, TRUE) => \E i \in DOMAIN l1 : l1[i] = list[j]
        /\ IsInjective(list) => IsInjective(l1)
    BY NtLacking
  <1> HIDE DEF l1
  <1>2. /\ s \in Seq(NtItems)
        /\ \A i \in DOMAIN s : \E j \in DOMAIN l1 : l1[j] # Nt!Item(n, FALSE) /\ s[i] = l1[j]
        /\ \A j \in DOMAIN l1 : l1[j] # Nt!Item(n, FALSE) => \E i \in DOMAIN s : s[i] = l1[j]
        /\ IsInjective(l1) => IsInjective(s)
    BY <1>1, NtLacking
  <1> HIDE DEF s
  <1>3. \A x \in NtItems : (x = Nt!Item(n, TRUE) \/ x = Nt!Item(n, FALSE)) <=> x.id = n
    BY DEF NtItems, Nt!Item
  <1>4. /\ \A i \in DOMAIN list : list[i] \in NtItems
        /\ \A i \in DOMAIN s : s[i] \in NtItems
    BY <1>2, Within
  <1>5. /\ \A i \in DOMAIN s : \E j \in DOMAIN list : list[j].id # n /\ s[i] = list[j]
        /\ \A j \in DOMAIN list : list[j].id # n => \E i \in DOMAIN s : s[i] = list[j]
        /\ IsInjective(list) => IsInjective(s)
    <2>1. \A i \in DOMAIN l1 : l1[i] \in NtItems
      BY <1>1, Within
    <2>2. ASSUME NEW i \in DOMAIN s PROVE \E j \in DOMAIN list : list[j].id # n /\ s[i] = list[j]
      <3>1. PICK k \in DOMAIN l1 : l1[k] # Nt!Item(n, FALSE) /\ s[i] = l1[k]
        BY <1>2
      <3>2. PICK j \in DOMAIN list : list[j] # Nt!Item(n, TRUE) /\ l1[k] = list[j]
        BY <1>1
      <3>3. list[j].id # n
        BY <1>3, <1>4, <3>1, <3>2
      <3> QED
        BY <3>1, <3>2, <3>3
    <2>3. ASSUME NEW j \in DOMAIN list, list[j].id # n PROVE \E i \in DOMAIN s : s[i] = list[j]
      <3>1. list[j] # Nt!Item(n, TRUE) /\ list[j] # Nt!Item(n, FALSE)
        BY <1>3, <1>4, <2>3
      <3>2. PICK k \in DOMAIN l1 : l1[k] = list[j]
        BY <1>1, <3>1
      <3> QED
        BY <1>2, <3>1, <3>2
    <2> QED
      BY <1>1, <1>2, <2>2, <2>3
  <1>6. NtFresh(s) = NtFresh(list) \ {n}
    BY <1>5 DEF NtFresh
  <1>7. NtOld(s) = NtOld(list) \ {n}
    BY <1>5 DEF NtOld
  <1>8. ASSUME NtOnce(list) PROVE NtOnce(s)
    <2>1. IsInjective(list)
      BY <1>8 DEF NtOnce, IsInjective
    <2>2. \A i, j \in DOMAIN s : s[i].id = s[j].id => s[i] = s[j]
      BY <1>5, <1>8 DEF NtOnce
    <2> QED
      BY <1>5, <2>1, <2>2 DEF NtOnce, IsInjective
  <1> QED
    BY <1>0, <1>2, <1>6, <1>7, <1>8

LEMMA NtFollowed2 ==
  ASSUME NEW p \in Seq(NtItems), NEW q \in Seq(NtItems)
  PROVE  /\ p \o q \in Seq(NtItems)
         /\ NtFresh(p \o q) = NtFresh(p) \cup NtFresh(q)
         /\ NtOld(p \o q) = NtOld(p) \cup NtOld(q)
         /\ NtOnce(p) /\ NtOnce(q) /\ NtIds(p) \cap NtIds(q) = {} => NtOnce(p \o q)
  <1> DEFINE s == p \o q
  <1>1. /\ s \in Seq(NtItems) /\ Len(p) \in Nat
        /\ \A i \in DOMAIN p : i \in DOMAIN s /\ s[i] = p[i]
        /\ \A i \in DOMAIN q : Len(p) + i \in DOMAIN s /\ s[Len(p) + i] = q[i]
        /\ \A i \in DOMAIN s : i \in DOMAIN p \/ (i - Len(p) \in DOMAIN q /\ i > Len(p))
    BY Concatenated
  <1> HIDE DEF s
  <1>2. DOMAIN s \subseteq Nat /\ DOMAIN p = 1..Len(p)
    BY <1>1, NtFlags
  <1>3. \A i \in DOMAIN s : \/ i \in DOMAIN p /\ s[i] = p[i]
                            \/ i - Len(p) \in DOMAIN q /\ s[i] = q[i - Len(p)] /\ i = Len(p) + (i - Len(p))
    <2> TAKE i \in DOMAIN s
    <2>1. CASE i \in DOMAIN p
      BY <1>1, <2>1
    <2>2. CASE i \notin DOMAIN p
      <3>1. i - Len(p) \in DOMAIN q /\ i = Len(p) + (i - Len(p))
        BY <1>1, <1>2, <2>2
      <3> QED
        BY <1>1, <3>1
    <2> QED
      BY <2>1, <2>2
  <1>4. NtFresh(s) = NtFresh(p) \cup NtFresh(q)
    BY <1>1, <1>3 DEF NtFresh
  <1>5. NtOld(s) = NtOld(p) \cup NtOld(q)
    BY <1>1, <1>3 DEF NtOld
  <1>6. ASSUME NtOnce(p), NtOnce(q), NtIds(p) \cap NtIds(q) = {} PROVE NtOnce(s)
    <2> SUFFICES ASSUME NEW i \in DOMAIN s, NEW j \in DOMAIN s, s[i].id = s[j].id PROVE i = j
      BY DEF NtOnce
    <2>1. /\ \A k \in DOMAIN p : p[k].id \in NtIds(p)
          /\ \A k \in DOMAIN q : q[k].id \in NtIds(q)
      BY NtFlags
    <2>2. CASE i \in DOMAIN p /\ s[i] = p[i] /\ j \in DOMAIN p /\ s[j] = p[j]
      BY <1>6, <2>2 DEF NtOnce
    <2>3. CASE /\ i - Len(p) \in DOMAIN q /\ s[i] = q[i - Len(p)] /\ i = Len(p) + (i - Len(p))
               /\ j - Len(p) \in DOMAIN q /\ s[j] = q[j - Len(p)] /\ j = Len(p) + (j - Len(p))
      <3>1. i - Len(p) = j - Len(p)
        BY <1>6, <2>3 DEF NtOnce
      <3> QED
        BY <2>3, <3>1
    <2> QED
      BY <1>3, <1>6, <2>1, <2>2, <2>3
  <1> QED
    BY <1>1, <1>4, <1>5, <1>6 DEF s

-----------------------------------------------------------------------------
\* The rows are those there are, each once, the newest first.
LEMMA NtRowsOrdered ==
  /\ IsFiniteSet(NtExist) /\ Cardinality(NtExist) = Len(Nt!Rows) /\ Len(Nt!Rows) \in Nat
  /\ DOMAIN Nt!Rows = 1..Len(Nt!Rows) /\ Nt!Rows \in Seq(NtExist)
  /\ \A n \in NtExist : \E i \in 1..Len(Nt!Rows) : Nt!Rows[i] = n
  /\ \A i, j \in 1..Len(Nt!Rows) : i < j => Nt!Rows[i] > Nt!Rows[j]
  <1> DEFINE C == Cardinality(NtExist)
             r == Nt!InOrder(NtExist)
  <1>1. NtExist \in SUBSET Nat /\ IsFiniteSet(NtExist)
    <2>1. IsFiniteSet(Nt!Notice)
      BY ScreenBounds, FS_Interval DEF Nt!Notice
    <2>2. NtExist \subseteq Nt!Notice /\ Nt!Notice \subseteq Nat
      BY DEF NtExist, Nt!Notice
    <2> QED
      BY <2>1, <2>2, FS_Subset
  <1>2. C \in Nat
    BY <1>1, FS_CardinalityType
  <1>3. r \in [1..C -> NtExist] /\ \A i, j \in DOMAIN r : i < j => r[i] < r[j]
    BY <1>1, NtOrdered
  <1>4. \A n \in NtExist : \E i \in 1..C : r[i] = n
    <2>1. \A m \in NtExist : \E i \in DOMAIN Nt!InOrder(NtExist) : Nt!InOrder(NtExist)[i] = m
      BY <1>1, NtOrdered
    <2> QED
      BY <1>3, <2>1
  <1>5. Nt!Rows = [i \in 1..Len(r) |-> r[(Len(r) - i) + 1]]
    BY DEF Nt!Rows, NtExist, Nt!Reverse
  <1> HIDE DEF r, C
  <1>6. Len(r) = C /\ r \in Seq(NtExist)
    BY <1>2, <1>3
  <1>7. \A i \in 1..C : (C - i) + 1 \in 1..C /\ (C - ((C - i) + 1)) + 1 = i
    BY <1>2
  <1>8. Nt!Rows \in [1..C -> NtExist] /\ \A i \in 1..C : Nt!Rows[i] = r[(C - i) + 1]
    BY <1>3, <1>5, <1>6, <1>7
  <1>9. Nt!Rows \in Seq(NtExist) /\ Len(Nt!Rows) = C /\ DOMAIN Nt!Rows = 1..C
    BY <1>2, <1>8
  <1>10. ASSUME NEW n \in NtExist PROVE \E i \in 1..C : Nt!Rows[i] = n
    <2>1. PICK k \in 1..C : r[k] = n
      BY <1>4
    <2> QED
      BY <1>7, <1>8, <2>1
  <1>11. ASSUME NEW i \in 1..C, NEW j \in 1..C, i < j PROVE Nt!Rows[i] > Nt!Rows[j]
    <2>1. (C - j) + 1 < (C - i) + 1
      BY <1>2, <1>11
    <2>2. r[(C - j) + 1] < r[(C - i) + 1] /\ r[(C - j) + 1] \in Nat /\ r[(C - i) + 1] \in Nat
      BY <1>1, <1>3, <1>7, <2>1
    <2> QED
      BY <1>8, <2>2
  <1> QED
    BY <1>1, <1>2, <1>9, <1>10, <1>11 DEF C

\* So that the newest of them are the first.
LEMMA NtFirstRows ==
  ASSUME NEW B \in SUBSET NtExist, NtNewest(B)
  PROVE  /\ IsFiniteSet(B) /\ Cardinality(B) \in Nat /\ Cardinality(B) <= Len(Nt!Rows)
         /\ B = {Nt!Rows[i] : i \in 1..Cardinality(B)}
  <1> DEFINE m == Len(Nt!Rows)
             k == Cardinality(B)
             P == {i \in 1..m : Nt!Rows[i] \in B}
             f == [i \in P |-> Nt!Rows[i]]
  <1>1. /\ IsFiniteSet(NtExist) /\ Cardinality(NtExist) = m /\ m \in Nat
        /\ \A i \in 1..m : Nt!Rows[i] \in NtExist
        /\ \A n \in NtExist : \E i \in 1..m : Nt!Rows[i] = n
        /\ \A i, j \in 1..m : i < j => Nt!Rows[i] > Nt!Rows[j]
    <2>1. /\ IsFiniteSet(NtExist) /\ Cardinality(NtExist) = Len(Nt!Rows) /\ Len(Nt!Rows) \in Nat
          /\ DOMAIN Nt!Rows = 1..Len(Nt!Rows) /\ Nt!Rows \in Seq(NtExist)
          /\ \A n \in NtExist : \E i \in 1..Len(Nt!Rows) : Nt!Rows[i] = n
          /\ \A i, j \in 1..Len(Nt!Rows) : i < j => Nt!Rows[i] > Nt!Rows[j]
      BY NtRowsOrdered
    <2>2. \A i \in DOMAIN Nt!Rows : Nt!Rows[i] \in NtExist
      BY <2>1, Within
    <2> QED
      BY <2>1, <2>2
  <1>2. IsFiniteSet(B) /\ k \in Nat /\ k <= m
    BY <1>1, FS_Subset, FS_CardinalityType
  <1> HIDE DEF m, k
  <1>3. NtExist \subseteq Nat
    BY DEF NtExist, Nt!Notice
  <1>4. \A i, j \in 1..m : Nt!Rows[i] = Nt!Rows[j] => i = j
    <2> SUFFICES ASSUME NEW i \in 1..m, NEW j \in 1..m, i # j PROVE Nt!Rows[i] # Nt!Rows[j]
      OBVIOUS
    <2>1. i < j \/ j < i
      BY <1>1
    <2>2. Nt!Rows[i] \in Nat /\ Nt!Rows[j] \in Nat
      BY <1>1, <1>3
    <2> QED
      BY <1>1, <2>1, <2>2
  <1>5. IsFiniteSet(P) /\ Cardinality(P) = k
    <2>1. f \in Bijection(P, B)
      <3>1. f \in [P -> B] /\ \A i, j \in P : f[i] = f[j] => i = j
        BY <1>4
      <3>2. \A n \in B : \E i \in P : f[i] = n
        BY <1>1
      <3> HIDE DEF f, P
      <3> QED
        BY <3>1, <3>2 DEF Bijection, Injection, IsInjective, Surjection
    <2>2. IsFiniteSet(P)
      <3>1. IsFiniteSet(1..m)
        BY <1>1, FS_Interval
      <3> QED
        BY <3>1, FS_Subset
    <2> HIDE DEF f, P
    <2>3. Cardinality(P) = Cardinality(B)
      BY <2>1, <2>2, FS_Bijection DEF ExistsBijection
    <2> QED
      BY <2>2, <2>3 DEF k
  <1>6. \A i \in P : \A j \in 1..m : j < i => j \in P
    BY <1>1 DEF NtNewest
  <1>7. P \subseteq 1..k
    <2> SUFFICES ASSUME NEW i \in P, ~(i <= k) PROVE FALSE
      BY <1>1, <1>2
    <2>1. i \in 1..m /\ i \in Nat
      BY <1>1
    <2>2. 1..i \subseteq P
      BY <1>1, <1>6, <2>1
    <2>3. IsFiniteSet(1..i) /\ Cardinality(1..i) = i
      BY <2>1, FS_Interval
    <2> HIDE DEF P
    <2>4. i <= k
      BY <1>5, <2>2, <2>3, FS_Subset
    <2> QED
      BY <2>4
  <1>8. P = 1..k
    <2>1. IsFiniteSet(1..k) /\ Cardinality(1..k) = k
      BY <1>2, FS_Interval
    <2> HIDE DEF P
    <2> QED
      BY <1>5, <1>7, <2>1, FS_Subset
  <1>9. B = {Nt!Rows[i] : i \in 1..k}
    BY <1>1, <1>8
  <1> QED
    BY <1>2, <1>9 DEF m, k

\* The first of the rows are the newest, as many as there are places.
LEMMA NtNewestRows ==
  ASSUME NEW k \in Nat, k <= Len(Nt!Rows)
  PROVE  LET B == {Nt!Rows[i] : i \in 1..k} IN
         /\ B \subseteq NtExist /\ NtNewest(B) /\ Cardinality(B) = k
         /\ k = Len(Nt!Rows) => NtExist \subseteq B
  <1> DEFINE m == Len(Nt!Rows)
             B == {Nt!Rows[i] : i \in 1..k}
             f == [i \in 1..k |-> Nt!Rows[i]]
  <1>1. /\ m \in Nat
        /\ \A i \in 1..m : Nt!Rows[i] \in NtExist
        /\ \A n \in NtExist : \E i \in 1..m : Nt!Rows[i] = n
        /\ \A i, j \in 1..m : i < j => Nt!Rows[i] > Nt!Rows[j]
    <2>1. /\ Len(Nt!Rows) \in Nat
          /\ DOMAIN Nt!Rows = 1..Len(Nt!Rows) /\ Nt!Rows \in Seq(NtExist)
          /\ \A n \in NtExist : \E i \in 1..Len(Nt!Rows) : Nt!Rows[i] = n
          /\ \A i, j \in 1..Len(Nt!Rows) : i < j => Nt!Rows[i] > Nt!Rows[j]
      BY NtRowsOrdered
    <2>2. \A i \in DOMAIN Nt!Rows : Nt!Rows[i] \in NtExist
      BY <2>1, Within
    <2> QED
      BY <2>1, <2>2
  <1> HIDE DEF m
  <1>2. NtExist \subseteq Nat /\ k <= m
    BY DEF NtExist, Nt!Notice, m
  <1>3. \A i \in 1..k : i \in 1..m
    BY <1>1, <1>2
  <1>4. \A i, j \in 1..k : Nt!Rows[i] = Nt!Rows[j] => i = j
    <2> SUFFICES ASSUME NEW i \in 1..k, NEW j \in 1..k, i # j PROVE Nt!Rows[i] # Nt!Rows[j]
      OBVIOUS
    <2>1. i < j \/ j < i
      OBVIOUS
    <2>2. Nt!Rows[i] \in Nat /\ Nt!Rows[j] \in Nat
      BY <1>1, <1>2, <1>3
    <2> QED
      BY <1>1, <1>3, <2>1, <2>2
  <1>5. Cardinality(B) = k
    <2>1. f \in Bijection(1..k, B)
      <3>1. f \in [1..k -> B] /\ \A i, j \in 1..k : f[i] = f[j] => i = j
        BY <1>4
      <3>2. \A n \in B : \E i \in 1..k : f[i] = n
        OBVIOUS
      <3> HIDE DEF f, B
      <3> QED
        BY <3>1, <3>2 DEF Bijection, Injection, IsInjective, Surjection
    <2>2. IsFiniteSet(1..k) /\ Cardinality(1..k) = k
      BY FS_Interval
    <2> HIDE DEF f, B
    <2> QED
      BY <2>1, <2>2, FS_Bijection DEF ExistsBijection
  <1>6. NtNewest(B)
    <2> SUFFICES ASSUME NEW i \in 1..k, NEW j \in 1..m, Nt!Rows[j] > Nt!Rows[i] PROVE j \in 1..k
      BY <1>1 DEF NtNewest
    <2>1. ~(i < j)
      <3>1. Nt!Rows[i] \in Nat /\ Nt!Rows[j] \in Nat
        BY <1>1, <1>2, <1>3
      <3> QED
        BY <1>1, <1>3, <3>1
    <2> QED
      BY <1>1, <2>1
  <1>7. B \subseteq NtExist /\ (k = m => NtExist \subseteq B)
    BY <1>1, <1>3
  <1> QED
    BY <1>5, <1>6, <1>7 DEF m

\* How many rows come before a page, and how many it has.
NtSkipped(p) == (p - 1) * PageSize
NtSize(p) == IF Len(Nt!Rows) >= p * PageSize THEN PageSize
           ELSE IF Len(Nt!Rows) > NtSkipped(p) THEN Len(Nt!Rows) - NtSkipped(p) ELSE 0

\* A page holds rows there are, as they are.
NtCut(chunk, k, c) ==
  /\ chunk \in Seq(NtItems) /\ DOMAIN chunk = 1..c
  /\ \A i \in 1..c : /\ k + i \in 1..Len(Nt!Rows) /\ chunk[i].id = Nt!Rows[k + i]
                     /\ chunk[i].read <=> s1[Nt!Rows[k + i]] = "read"
  /\ NtIds(chunk) = {Nt!Rows[k + i] : i \in 1..c} /\ NtIds(chunk) \subseteq NtExist

LEMMA NtChunkTyped ==
  ASSUME NEW p \in Nat \ {0}, NEW chunk, chunk = Nt!Chunk(p), NEW k, k = NtSkipped(p),
         NEW c, c = NtSize(p)
  PROVE  k \in Nat /\ c \in Nat /\ p * PageSize = k + PageSize /\ NtCut(chunk, k, c)
  <1> DEFINE m == Len(Nt!Rows)
  <1>1. m \in Nat /\ \A i \in 1..m : Nt!Rows[i] \in NtExist
    <2>1. Len(Nt!Rows) \in Nat /\ DOMAIN Nt!Rows = 1..Len(Nt!Rows) /\ Nt!Rows \in Seq(NtExist)
      BY NtRowsOrdered
    <2>2. \A i \in DOMAIN Nt!Rows : Nt!Rows[i] \in NtExist
      BY <2>1, Within
    <2> QED
      BY <2>1, <2>2
  <1>2. chunk = [i \in 1..c |-> Nt!Item(Nt!Rows[k + i], s1[Nt!Rows[k + i]] = "read")]
    BY DEF Nt!Chunk, NtSkipped, NtSize
  <1>3. PageSize \in Nat /\ k \in Nat /\ p * PageSize = k + PageSize
    <2>0. PageSize \in Nat
      BY ScreenBounds
    <2>1. PageSize \in Nat /\ p - 1 \in Nat /\ p = (p - 1) + 1
      BY <2>0
    <2> DEFINE q == p - 1
    <2>2. (q + 1) * PageSize = q * PageSize + PageSize /\ q * PageSize \in Nat
      BY <2>1
    <2> QED
      BY <2>1, <2>2 DEF NtSkipped
  <1>4. c \in Nat /\ \A i \in 1..c : k + i \in 1..m
    <2>1. c = IF m >= k + PageSize THEN PageSize ELSE IF m > k THEN m - k ELSE 0
      BY <1>3 DEF NtSize
    <2> HIDE DEF m
    <2> QED
      BY <1>1, <1>3, <2>1
  <1> HIDE DEF m
  <1>6. \A i \in 1..c : /\ k + i \in 1..m /\ Nt!Rows[k + i] \in NtExist /\ Nt!Rows[k + i] \in Nt!Notice
                        /\ s1[Nt!Rows[k + i]] \in {"unread", "read"}
    BY <1>1, <1>4 DEF NtExist
  <1>7. DOMAIN chunk = 1..c /\ chunk \in Seq(NtItems)
    <2>1. \A i \in 1..c : Nt!Item(Nt!Rows[k + i], s1[Nt!Rows[k + i]] = "read") \in NtItems
      BY <1>6 DEF Nt!Item, NtItems
    <2> QED
      BY <1>2, <1>4, <2>1
  <1>8. \A i \in 1..c : chunk[i].id = Nt!Rows[k + i] /\ (chunk[i].read <=> s1[Nt!Rows[k + i]] = "read")
    <2> TAKE i \in 1..c
    <2>1. chunk[i] = Nt!Item(Nt!Rows[k + i], s1[Nt!Rows[k + i]] = "read")
      BY <1>2
    <2>2. chunk[i].id = Nt!Rows[k + i] /\ chunk[i].read = (s1[Nt!Rows[k + i]] = "read")
      BY <2>1 DEF Nt!Item
    <2> QED
      BY <2>2
  <1>9. NtIds(chunk) = {Nt!Rows[k + i] : i \in 1..c}
    <2>1. NtIds(chunk) = {n \in Nt!Notice : \E i \in 1..c : chunk[i].id = n}
      BY <1>7 DEF NtIds, NtFresh, NtOld
    <2> QED
      BY <1>6, <1>8, <2>1
  <1> QED
    BY <1>3, <1>4, <1>6, <1>7, <1>8, <1>9 DEF m, NtCut

\* What a page holds, read after as many of the newest rows as there are places before it.
LEMMA NtChunkRead ==
  ASSUME NEW p \in Nat \ {0}, NEW B \in SUBSET NtExist, NtNewest(B),
         Cardinality(B) = (p - 1) * PageSize, NEW chunk, chunk = Nt!Chunk(p)
  PROVE  /\ chunk \in Seq(NtItems) /\ NtOnce(chunk)
         /\ NtIds(chunk) \subseteq NtExist /\ NtIds(chunk) \cap B = {}
         /\ \A n \in NtFresh(chunk) : s1[n] = "unread"
         /\ \A n \in NtOld(chunk) : s1[n] = "read"
         /\ NtNewest(B \cup NtIds(chunk))
         /\ p * PageSize < Len(Nt!Rows) => Cardinality(B \cup NtIds(chunk)) = p * PageSize
         /\ ~(p * PageSize < Len(Nt!Rows)) => NtExist \subseteq B \cup NtIds(chunk)
  <1>m. PICK m : m = Len(Nt!Rows)
    OBVIOUS
  <1>k. PICK k : k = NtSkipped(p)
    OBVIOUS
  <1>c. PICK c : c = NtSize(p)
    OBVIOUS
  <1>1. /\ m \in Nat
        /\ \A i \in 1..m : Nt!Rows[i] \in NtExist
        /\ \A i, j \in 1..m : i < j => Nt!Rows[i] > Nt!Rows[j]
    <2>1. /\ Len(Nt!Rows) \in Nat
          /\ DOMAIN Nt!Rows = 1..Len(Nt!Rows) /\ Nt!Rows \in Seq(NtExist)
          /\ \A i, j \in 1..Len(Nt!Rows) : i < j => Nt!Rows[i] > Nt!Rows[j]
      BY NtRowsOrdered
    <2>2. \A i \in DOMAIN Nt!Rows : Nt!Rows[i] \in NtExist
      BY <2>1, Within
    <2> QED
      BY <1>m, <2>1, <2>2
  <1>2. /\ k \in Nat /\ c \in Nat /\ p * PageSize = k + PageSize
        /\ chunk \in Seq(NtItems) /\ DOMAIN chunk = 1..c
        /\ \A i \in 1..c : /\ k + i \in 1..m /\ chunk[i].id = Nt!Rows[k + i]
                           /\ chunk[i].read <=> s1[Nt!Rows[k + i]] = "read"
        /\ NtIds(chunk) = {Nt!Rows[k + i] : i \in 1..c} /\ NtIds(chunk) \subseteq NtExist
    <2>1. k \in Nat /\ c \in Nat /\ p * PageSize = k + PageSize /\ NtCut(chunk, k, c)
      BY <1>k, <1>c, NtChunkTyped
    <2> QED
      BY <1>m, <2>1 DEF NtCut
  <1>3. k <= m /\ B = {Nt!Rows[i] : i \in 1..k}
    BY <1>m, <1>k, NtFirstRows DEF NtSkipped
  <1>5. /\ k + c <= m
        /\ p * PageSize < m => c = PageSize
        /\ ~(p * PageSize < m) => k + c = m
    <2>1. PageSize \in Nat /\ c = IF m >= k + PageSize THEN PageSize ELSE IF m > k THEN m - k ELSE 0
      BY <1>2, <1>k, <1>m, <1>c, ScreenBounds DEF NtSize
    <2>2. PICK end \in Nat : end = p * PageSize /\ end = k + PageSize
      BY <1>2, <2>1
    <2>3. m \in Nat /\ k \in Nat /\ c \in Nat /\ k <= m
      BY <1>1, <1>2, <1>3
    <2>4. k + c <= m /\ (end < m => c = PageSize) /\ (~(end < m) => k + c = m)
      BY <2>1, <2>2, <2>3
    <2> QED
      BY <2>2, <2>4
  <1>10. \A i, j \in 1..m : Nt!Rows[i] = Nt!Rows[j] => i = j
    <2> SUFFICES ASSUME NEW i \in 1..m, NEW j \in 1..m, i # j PROVE Nt!Rows[i] # Nt!Rows[j]
      OBVIOUS
    <2>1. i < j \/ j < i
      BY <1>1
    <2>2. Nt!Rows[i] \in Nat /\ Nt!Rows[j] \in Nat
      BY <1>1 DEF NtExist, Nt!Notice
    <2> QED
      BY <1>1, <2>1, <2>2
  <1>11. NtOnce(chunk)
    <2> SUFFICES ASSUME NEW i \in 1..c, NEW j \in 1..c, chunk[i].id = chunk[j].id PROVE i = j
      BY <1>2 DEF NtOnce
    <2>1. k + i = k + j
      BY <1>1, <1>2, <1>10
    <2> QED
      BY <1>2, <2>1
  <1>12. NtIds(chunk) \cap B = {}
    <2> SUFFICES ASSUME NEW i \in 1..k, NEW j \in 1..c PROVE Nt!Rows[i] # Nt!Rows[k + j]
      BY <1>2, <1>3
    <2>1. i \in 1..m /\ k + j \in 1..m /\ i # k + j
      BY <1>1, <1>2, <1>3
    <2> QED
      BY <1>10, <2>1
  <1>13. /\ \A n \in NtFresh(chunk) : s1[n] = "unread"
         /\ \A n \in NtOld(chunk) : s1[n] = "read"
    <2>1. \A n \in NtFresh(chunk) : \E i \in 1..c : chunk[i].id = n /\ ~chunk[i].read
      BY <1>2 DEF NtFresh
    <2>2. \A n \in NtOld(chunk) : \E i \in 1..c : chunk[i].id = n /\ chunk[i].read
      BY <1>2 DEF NtOld
    <2>3. \A i \in 1..c : s1[Nt!Rows[k + i]] \in {"unread", "read"}
      BY <1>1, <1>2 DEF NtExist
    <2>4. \A i \in 1..c : chunk[i].id = Nt!Rows[k + i] /\ (chunk[i].read <=> s1[Nt!Rows[k + i]] = "read")
      BY <1>2
    <2> QED
      BY <2>1, <2>2, <2>3, <2>4
  <1>14. B \cup NtIds(chunk) = {Nt!Rows[i] : i \in 1..(k + c)}
    <2>1. \A i \in 1..(k + c) : i \in 1..k \/ (i - k \in 1..c /\ i = k + (i - k))
      BY <1>2, <1>5
    <2>2. 1..k \subseteq 1..(k + c) /\ \A i \in 1..c : k + i \in 1..(k + c)
      BY <1>2, <1>5
    <2>3. B = {Nt!Rows[i] : i \in 1..k} /\ NtIds(chunk) = {Nt!Rows[k + i] : i \in 1..c}
      BY <1>2, <1>3
    <2>4. ASSUME NEW i \in 1..(k + c) PROVE Nt!Rows[i] \in B \cup NtIds(chunk)
      BY <2>1, <2>3
    <2> QED
      BY <2>2, <2>3, <2>4
  <1>15. /\ NtNewest(B \cup NtIds(chunk)) /\ Cardinality(B \cup NtIds(chunk)) = k + c
         /\ k + c = m => NtExist \subseteq B \cup NtIds(chunk)
    <2>1. k + c \in Nat /\ k + c <= Len(Nt!Rows)
      BY <1>2, <1>5, <1>m
    <2> QED
      BY <1>m, <1>14, <2>1, NtNewestRows
  <1> QED
    BY <1>2, <1>5, <1>11, <1>12, <1>13, <1>15, <1>m

-----------------------------------------------------------------------------
LEMMA NtSingle ==
  ASSUME NEW n \in Nt!Notice, NEW p, p = <<Nt!Item(n, FALSE)>>
  PROVE  p \in Seq(NtItems) /\ NtFresh(p) = {n} /\ NtOld(p) = {} /\ NtIds(p) = {n} /\ NtOnce(p)
  <1>1. Nt!Item(n, FALSE) \in NtItems /\ Nt!Item(n, FALSE).id = n /\ Nt!Item(n, FALSE).read = FALSE
    BY DEF NtItems, Nt!Item
  <1>2. p \in Seq(NtItems) /\ DOMAIN p = {1} /\ p[1] = Nt!Item(n, FALSE)
    <2>1. PICK x \in NtItems : x = Nt!Item(n, FALSE)
      BY <1>1
    <2>2. <<x>> \in Seq(NtItems) /\ Len(<<x>>) = 1 /\ <<x>>[1] = x
      OBVIOUS
    <2>3. DOMAIN <<x>> = 1..1
      OBVIOUS
    <2>4. p = <<x>> /\ 1..1 = {1}
      BY <2>1
    <2> QED
      BY <2>1, <2>2, <2>3, <2>4
  <1>3. NtFresh(p) = {n} /\ NtOld(p) = {}
    BY <1>1, <1>2 DEF NtFresh, NtOld
  <1>4. NtOnce(p)
    BY <1>2 DEF NtOnce
  <1> QED
    BY <1>2, <1>3, <1>4 DEF NtIds

LEMMA NtShownTyped ==
  ASSUME NEW list \in Seq(NtItems), NEW n \in Nt!Notice, NEW op \in {"read", "readAll", "remove"}
  PROVE  Nt!Shown(list, op, n) \in Seq(NtItems) /\ NtIds(Nt!Shown(list, op, n)) \subseteq NtIds(list)
  <1>1. CASE op = "read"
    BY <1>1, NtShownRead
  <1>2. CASE op = "readAll"
    BY <1>2, NtShownReadAll
  <1>3. CASE op = "remove"
    BY <1>3, NtShownRemove DEF NtIds
  <1> QED
    BY <1>1, <1>2, <1>3

\* A task is idle, or a change of the page.
LEMMA NtKinds ==
  ASSUME NtTypes
  PROVE  /\ \A t \in Req : /\ s6[t] = Nt!Idle <=> s6[t].op = "idle"
                           /\ s6[t] # Nt!Idle => /\ s6[t].op \in {"read", "readAll", "remove"}
                                                 /\ s6[t].pc \in {"asked", "done"}
                                                 /\ s6[t].n \in Nt!Notice
                                                 /\ s6[t].prev \in Seq(NtItems)
         /\ s4 = Nt!NoLoad <=> s4.pc = "idle"
         /\ s4 # Nt!NoLoad => s4.page \in Nat \ {0} /\ s4.pc \in {"asked", "answered"}
         /\ s4.pc = "answered" => s4.part \in Seq(NtItems) /\ s4.has \in BOOLEAN
         /\ s5.page \in Nat \ {0} /\ s5.has \in BOOLEAN
  <1>1. \A c \in NtChanges : /\ c.op \in {"read", "readAll", "remove"} /\ c.pc \in {"asked", "done"}
                             /\ c.n \in Nt!Notice /\ c.prev \in Seq(NtItems)
    BY DEF NtChanges
  <1>2. Nt!Idle.op = "idle" /\ Nt!NoLoad.pc = "idle"
    BY DEF Nt!Idle, Nt!NoLoad
  <1>3. \A c \in NtPage : /\ c.page \in Nat \ {0} /\ c.pc \in {"asked", "answered"}
                          /\ c.pc = "answered" => c.part \in Seq(NtItems) /\ c.has \in BOOLEAN
    BY DEF NtPage
  <1>4. \A t \in Req : s6[t] \in {Nt!Idle} \cup NtChanges
    BY DEF NtTypes
  <1>5. \A t \in Req : /\ s6[t] = Nt!Idle <=> s6[t].op = "idle"
                       /\ s6[t] # Nt!Idle => /\ s6[t].op \in {"read", "readAll", "remove"}
                                             /\ s6[t].pc \in {"asked", "done"}
                                             /\ s6[t].n \in Nt!Notice
                                             /\ s6[t].prev \in Seq(NtItems)
    <2> TAKE t \in Req
    <2>1. CASE s6[t] = Nt!Idle
      BY <1>2, <2>1
    <2>2. CASE s6[t] \in NtChanges /\ s6[t] # Nt!Idle
      BY <1>1, <2>2
    <2> QED
      BY <1>4, <2>1, <2>2
  <1>6. s4 = Nt!NoLoad \/ s4 \in NtPage
    BY DEF NtTypes
  <1>7. s5.page \in Nat \ {0} /\ s5.has \in BOOLEAN
    BY DEF NtTypes
  <1>8. CASE s4 = Nt!NoLoad
    BY <1>2, <1>5, <1>7, <1>8
  <1>9. CASE s4 \in NtPage /\ s4 # Nt!NoLoad
    BY <1>3, <1>5, <1>7, <1>9
  <1> QED
    BY <1>6, <1>8, <1>9

LEMMA NtTypesNext ==
  ASSUME NtTypes, [Nt!Next]_(Nt!vars)
  PROVE  NtTypes'
  <1> USE DEF NtTypes, Nt!page
  <1>1. ASSUME NEW n \in Nt!Notice, Nt!Create(n) PROVE NtTypes'
    BY <1>1 DEF Nt!Create
  <1>2. ASSUME NEW n \in Nt!Notice, Nt!Told(n) PROVE NtTypes'
    <2>1. Nt!Prepended(n) \in Seq(NtItems)
      <3>1. PICK p : p = <<Nt!Item(n, FALSE)>>
        OBVIOUS
      <3>2. p \in Seq(NtItems) /\ Nt!Prepended(n) = p \o s3
        BY <3>1, NtSingle DEF Nt!Prepended
      <3> QED
        BY <3>2, NtFollowed2
    <2>2. s8' \in BOOLEAN
      BY <1>2 DEF Nt!Told
    <2>3. UNCHANGED <<s1, s4, s5, s6, s7>> /\ s2' = s2 \ {n} /\ s3' = Nt!Prepended(n)
      BY <1>2 DEF Nt!Told
    <2> QED
      BY <2>1, <2>2, <2>3
  <1>3. ASSUME NEW n \in Nt!Notice, Nt!Lost(n) PROVE NtTypes'
    BY <1>3 DEF Nt!Lost
  <1>4. CASE Nt!ReadElsewhere
    BY <1>4 DEF Nt!ReadElsewhere
  <1>5. CASE Nt!LoadMore
    <2>1. s4' \in NtPage
      <3>1. s5.page + 1 \in Nat \ {0}
        BY NtKinds
      <3> QED
        BY <1>5, <3>1 DEF Nt!LoadMore, Nt!Load, NtPage
    <2> QED
      BY <1>5, <2>1 DEF Nt!LoadMore
  <1>6. CASE Nt!ReadPage
    <2>1. s4 # Nt!NoLoad /\ s4.page \in Nat \ {0}
      BY <1>6, NtKinds DEF Nt!ReadPage, Nt!NoLoad
    <2>2. Nt!Chunk(s4.page) \in Seq(NtItems)
      BY <2>1, NtChunkTyped DEF NtCut
    <2>3. s4' = [pc |-> "answered", page |-> s4.page, part |-> Nt!Chunk(s4.page),
                   has |-> s4.page * PageSize < Len(Nt!Rows)]
      BY <1>6 DEF Nt!ReadPage
    <2>4. (s4.page * PageSize < Len(Nt!Rows)) \in BOOLEAN
      <3>1. s4.page * PageSize \in Nat
        BY <2>1, ScreenBounds
      <3>2. Len(Nt!Rows) \in Nat
        BY NtRowsOrdered
      <3> QED
        BY <3>1, <3>2
    <2>5. s4' \in NtPage
      BY <2>1, <2>2, <2>3, <2>4 DEF NtPage
    <2>6. s7' \in BOOLEAN /\ s8' \in BOOLEAN
      BY <1>6 DEF Nt!ReadPage
    <2> QED
      BY <1>6, <2>5, <2>6 DEF Nt!ReadPage
  <1>7. CASE Nt!Loaded
    <2>1. s4 # Nt!NoLoad /\ s4.page \in Nat \ {0} /\ s4.part \in Seq(NtItems) /\ s4.has \in BOOLEAN
      BY <1>7, NtKinds DEF Nt!Loaded, Nt!NoLoad
    <2>2. s3' \in Seq(NtItems)
      <3>1. s3 \o s4.part \in Seq(NtItems)
        BY <2>1, NtFollowed2
      <3> QED
        BY <1>7, <2>1, <3>1 DEF Nt!Loaded
    <2> QED
      BY <1>7, <2>1, <2>2 DEF Nt!Loaded
  <1>8. CASE Nt!LoadFailed
    <2>1. Nt!Load(1) \in NtPage
      BY DEF Nt!Load, NtPage
    <2> QED
      BY <1>8, <2>1 DEF Nt!LoadFailed
  <1>9. ASSUME NEW t \in Req, NEW n \in Nt!Notice, NEW op \in {"read", "readAll", "remove"}, Nt!Ask(t, op, n)
        PROVE NtTypes'
    <2>1. s3' \in Seq(NtItems)
      BY <1>9, NtShownTyped DEF Nt!Ask
    <2>2. Nt!Change(op, n) \in NtChanges
      BY DEF Nt!Change, NtChanges
    <2>3. s6' \in [Req -> {Nt!Idle} \cup NtChanges]
      BY <1>9, <2>2 DEF Nt!Ask
    <2>4. s8' \in BOOLEAN
      BY <1>9 DEF Nt!Ask
    <2> QED
      BY <1>9, <2>1, <2>3, <2>4 DEF Nt!Ask
  <1>10. ASSUME NEW t \in Req, Nt!Serve(t) PROVE NtTypes'
    <2>1. s6[t] \in NtChanges
      BY <1>10 DEF Nt!Serve, Nt!Idle
    <2>2. [s6[t] EXCEPT !.pc = "done"] \in NtChanges
      BY <2>1 DEF NtChanges
    <2>3. s6' \in [Req -> {Nt!Idle} \cup NtChanges]
      BY <1>10, <2>2 DEF Nt!Serve
    <2>4. s1' \in [Nt!Notice -> {"none", "unread", "read", "gone"}]
      BY <1>10 DEF Nt!Serve
    <2>5. s7' \in BOOLEAN /\ s8' \in BOOLEAN
      BY <1>10 DEF Nt!Serve
    <2> QED
      BY <1>10, <2>3, <2>4, <2>5 DEF Nt!Serve
  <1>11. ASSUME NEW t \in Req, Nt!Done(t) PROVE NtTypes'
    BY <1>11 DEF Nt!Done
  <1>12. ASSUME NEW t \in Req, Nt!Refused(t) PROVE NtTypes'
    <2>1. s3' \in Seq(NtItems)
      BY <1>12, NtKinds DEF Nt!Refused, Nt!Restored
    <2>2. s8' \in BOOLEAN
      BY <1>12 DEF Nt!Refused
    <2> QED
      BY <1>12, <2>1, <2>2 DEF Nt!Refused
  <1>13. CASE UNCHANGED Nt!vars
    BY <1>13 DEF Nt!vars
  <1> QED
    BY <1>1, <1>2, <1>3, <1>4, <1>5, <1>6, <1>7, <1>8, <1>9, <1>10, <1>11, <1>12, <1>13 DEF
       Nt!Next

\* What is known stays known, so that a step has to see to what it adds.
LEMMA NtKnownStays ==
  ASSUME NtTypes, NtMet, NtKnown \subseteq NtKnown',
         \A m, n \in Nt!Notice : m < n /\ n \in NtKnown' => m \in NtKnown' \/ n \in NtKnown,
         s2' \subseteq NtKnown', NtIds(s3)' \subseteq NtKnown',
         s4.pc' = "answered" => s4' = s4 \/ NtIds(s4.part)' \subseteq NtKnown',
         \A t \in Req : s6'[t] = s6[t] \/ s6'[t] = Nt!Idle
           \/ (/\ NtIds(s6'[t].prev) \subseteq NtKnown'
               /\ s6'[t].op # "readAll" => s6'[t].n \in NtKnown')
  PROVE  NtMet'
  <1>1. s4.pc' = "answered" => NtIds(s4.part)' \subseteq NtKnown'
    <2>1. CASE s4' = s4
      BY <2>1 DEF NtMet, NtIds, NtFresh, NtOld
    <2> QED
      BY <2>1
  <1>2. ASSUME NEW t \in Req, s6'[t] # Nt!Idle
        PROVE  NtIds(s6'[t].prev) \subseteq NtKnown' /\ (s6'[t].op # "readAll" => s6'[t].n \in NtKnown')
    <2>1. CASE s6'[t] = s6[t]
      BY <1>2, <2>1 DEF NtMet
    <2> QED
      BY <1>2, <2>1
  <1>3. \A m, n \in Nt!Notice : m < n /\ n \in NtKnown' => m \in NtKnown'
    BY DEF NtMet
  <1> QED
    BY <1>1, <1>2, <1>3 DEF NtMet, NtIds, NtFresh, NtOld

LEMMA NtMetNext ==
  ASSUME NtTypes, NtMet, [Nt!Next]_(Nt!vars)
  PROVE  NtMet'
  <1> USE DEF Nt!page
  <1>0. NtExist \subseteq NtKnown /\ NtExist \subseteq Nt!Notice /\ s1 \in [Nt!Notice -> {"none", "unread", "read", "gone"}]
    BY DEF NtExist, NtKnown, NtTypes
  <1>s. ASSUME s1' = s1 PROVE NtKnown' = NtKnown
    BY <1>s DEF NtKnown
  <1>1. ASSUME NEW n \in Nt!Notice, Nt!Create(n) PROVE NtMet'
    <2>1. NtKnown' = NtKnown \cup {n}
      BY <1>0, <1>1 DEF Nt!Create, NtKnown
    <2>2. \A m, k \in Nt!Notice : m < k /\ k \in NtKnown' => m \in NtKnown' \/ k \in NtKnown
      <3> SUFFICES ASSUME NEW m \in Nt!Notice, m < n PROVE m \in NtKnown
        BY <2>1
      <3>1. n - 1 \in Nt!Notice /\ n - 1 \in NtKnown /\ (m = n - 1 \/ m < n - 1)
        BY <1>1, ScreenBounds DEF Nt!Create, Nt!Notice, NtKnown
      <3> QED
        BY <3>1 DEF NtMet
    <2> QED
      BY <1>1, <2>1, <2>2, NtKnownStays DEF Nt!Create, NtMet, NtIds, NtFresh, NtOld
  <1>2. ASSUME NEW n \in Nt!Notice, Nt!Told(n) PROVE NtMet'
    <2>1. PICK p : p = <<Nt!Item(n, FALSE)>>
      OBVIOUS
    <2>2. p \in Seq(NtItems) /\ NtFresh(p) = {n} /\ NtOld(p) = {}
      BY <2>1, NtSingle
    <2>3. s3' = p \o s3 /\ n \in NtKnown /\ NtKnown' = NtKnown
      BY <1>2, <1>s, <2>1 DEF Nt!Told, Nt!Prepended, NtMet
    <2>4. NtIds(p \o s3) = {n} \cup NtIds(s3)
      BY <2>2, NtFollowed2 DEF NtTypes, NtIds
    <2>5. NtIds(s3') \subseteq NtKnown'
      BY <2>3, <2>4 DEF NtMet
    <2>6. s2' \subseteq NtKnown' /\ s4' = s4 /\ s6' = s6
      BY <1>2, <2>3 DEF Nt!Told, NtMet
    <2> QED
      BY <2>3, <2>5, <2>6, NtKnownStays DEF NtIds, NtFresh, NtOld
  <1>3. ASSUME NEW n \in Nt!Notice, Nt!Lost(n) PROVE NtMet'
    BY <1>3, <1>s, NtKnownStays DEF Nt!Lost, NtMet, NtIds, NtFresh, NtOld
  <1>4. CASE Nt!ReadElsewhere
    <2>1. NtKnown' = NtKnown
      BY <1>0, <1>4 DEF Nt!ReadElsewhere, NtKnown, Nt!Unread
    <2> QED
      BY <1>4, <2>1, NtKnownStays DEF Nt!ReadElsewhere, NtMet, NtIds, NtFresh, NtOld
  <1>5. CASE Nt!LoadMore
    <2>1. s4'.pc # "answered"
      BY <1>5 DEF Nt!LoadMore, Nt!Load
    <2> QED
      BY <1>5, <1>s, <2>1, NtKnownStays DEF Nt!LoadMore, NtMet, NtIds, NtFresh, NtOld
  <1>6. CASE Nt!ReadPage
    <2>1. s4 # Nt!NoLoad /\ s4.page \in Nat \ {0}
      BY <1>6, NtKinds DEF Nt!ReadPage, Nt!NoLoad
    <2>2. NtIds(Nt!Chunk(s4.page)) \subseteq NtExist
      BY <2>1, NtChunkTyped DEF NtCut
    <2>3. s4'.part = Nt!Chunk(s4.page)
      BY <1>6 DEF Nt!ReadPage
    <2>4. NtIds(s4'.part) \subseteq NtKnown'
      BY <1>0, <1>6, <1>s, <2>2, <2>3 DEF Nt!ReadPage
    <2> QED
      BY <1>6, <1>s, <2>4, NtKnownStays DEF Nt!ReadPage, NtMet, NtIds, NtFresh, NtOld
  <1>7. CASE Nt!Loaded
    <2>1. s4.pc = "answered" /\ s4.part \in Seq(NtItems)
      BY <1>7, NtKinds DEF Nt!Loaded
    <2>2. NtIds(s3 \o s4.part) = NtIds(s3) \cup NtIds(s4.part)
      BY <2>1, NtFollowed2 DEF NtTypes, NtIds
    <2>3. NtIds(s3') \subseteq NtKnown
      BY <1>7, <2>1, <2>2 DEF Nt!Loaded, NtMet
    <2>4. s4'.pc # "answered"
      BY <1>7 DEF Nt!Loaded, Nt!NoLoad
    <2> QED
      BY <1>7, <1>s, <2>3, <2>4, NtKnownStays DEF Nt!Loaded, NtMet, NtIds, NtFresh, NtOld
  <1>8. CASE Nt!LoadFailed
    <2>1. s4'.pc # "answered"
      BY <1>8 DEF Nt!LoadFailed, Nt!Load
    <2> QED
      BY <1>8, <1>s, <2>1, NtKnownStays DEF Nt!LoadFailed, NtMet, NtIds, NtFresh, NtOld
  <1>9. ASSUME NEW t \in Req, NEW n \in Nt!Notice, NEW op \in {"read", "readAll", "remove"}, Nt!Ask(t, op, n)
        PROVE NtMet'
    <2>1. NtKnown' = NtKnown /\ s4' = s4 /\ s2' = s2
      BY <1>9, <1>s DEF Nt!Ask
    <2>2. NtIds(s3') \subseteq NtKnown
      BY <1>9, NtShownTyped DEF Nt!Ask, NtTypes, NtMet
    <2>3. Nt!Change(op, n).prev = s3 /\ Nt!Change(op, n).op = op /\ Nt!Change(op, n).n = n
      BY DEF Nt!Change
    <2>4. op # "readAll" => n \in NtIds(s3)
      <3>1. /\ op = "read" => \E i \in DOMAIN s3 : s3[i] = Nt!Item(n, FALSE)
            /\ op = "remove" => \E i \in DOMAIN s3 : s3[i].id = n
        BY <1>9 DEF Nt!Ask, Nt!Offered
      <3>2. \A i \in DOMAIN s3 : s3[i].id \in NtIds(s3)
        BY NtFlags DEF NtTypes
      <3>3. Nt!Item(n, FALSE).id = n
        BY DEF Nt!Item
      <3> QED
        BY <3>1, <3>2, <3>3
    <2>5. \A s \in Req : s6'[s] = s6[s] \/ s6'[s] = Nt!Change(op, n)
      BY <1>9 DEF Nt!Ask, NtTypes
    <2>6. \A s \in Req : s6'[s] = s6[s] \/ s6'[s] = Nt!Idle
            \/ (/\ NtIds(s6'[s].prev) \subseteq NtKnown'
                /\ s6'[s].op # "readAll" => s6'[s].n \in NtKnown')
      BY <2>1, <2>3, <2>4, <2>5 DEF NtMet
    <2> QED
      BY <2>1, <2>2, <2>6, NtKnownStays DEF NtMet, NtIds, NtFresh, NtOld
  <1>10. ASSUME NEW t \in Req, Nt!Serve(t) PROVE NtMet'
    <2>1. s6[t] # Nt!Idle /\ s6[t].op # "idle"
      BY <1>10, NtKinds DEF Nt!Serve
    <2>2. \A n \in Nt!Reads(t) : n \in NtKnown
      BY <2>1 DEF Nt!Reads, Nt!Unread, NtKnown, NtMet
    <2>3. NtKnown' = NtKnown
      <3>1. s1' = [n \in Nt!Notice |-> IF n \in Nt!Reads(t)
                                   THEN IF s6[t].op = "remove" THEN "gone" ELSE "read"
                                   ELSE s1[n]]
        BY <1>10 DEF Nt!Serve
      <3> QED
        BY <2>2, <3>1 DEF NtKnown
    <2>4. \A s \in Req : s6'[s] = IF s = t THEN [s6[t] EXCEPT !.pc = "done"] ELSE s6[s]
      BY <1>10 DEF Nt!Serve, NtTypes
    <2>5. LET c == [s6[t] EXCEPT !.pc = "done"] IN
          c.prev = s6[t].prev /\ c.op = s6[t].op /\ c.n = s6[t].n
      <3>1. s6[t] \in NtChanges
        BY <2>1 DEF NtTypes
      <3> QED
        BY <3>1 DEF NtChanges
    <2>6. \A s \in Req : s6'[s] = s6[s] \/ s6'[s] = Nt!Idle
            \/ (/\ NtIds(s6'[s].prev) \subseteq NtKnown'
                /\ s6'[s].op # "readAll" => s6'[s].n \in NtKnown')
      BY <2>1, <2>3, <2>4, <2>5 DEF NtMet
    <2>7. s4' = s4 /\ s2' = s2 /\ s3' = s3
      BY <1>10 DEF Nt!Serve
    <2> QED
      BY <2>3, <2>6, <2>7, NtKnownStays DEF NtMet, NtIds, NtFresh, NtOld
  <1>11. ASSUME NEW t \in Req, Nt!Done(t) PROVE NtMet'
    <2>1. \A s \in Req : s6'[s] = s6[s] \/ s6'[s] = Nt!Idle
      BY <1>11 DEF Nt!Done, NtTypes
    <2>2. s4' = s4 /\ s2' = s2 /\ s3' = s3 /\ NtKnown' = NtKnown
      BY <1>11, <1>s DEF Nt!Done
    <2> QED
      BY <2>1, <2>2, NtKnownStays DEF NtMet, NtIds, NtFresh, NtOld
  <1>12. ASSUME NEW t \in Req, Nt!Refused(t) PROVE NtMet'
    <2>1. \A s \in Req : s6'[s] = s6[s] \/ s6'[s] = Nt!Idle
      BY <1>12 DEF Nt!Refused, NtTypes
    <2>2. s4' = s4 /\ s2' = s2 /\ NtKnown' = NtKnown
      BY <1>12, <1>s DEF Nt!Refused
    <2>3. NtIds(s3') \subseteq NtKnown
      BY <1>12 DEF Nt!Refused, Nt!Restored, NtMet
    <2> QED
      BY <2>1, <2>2, <2>3, NtKnownStays DEF NtMet, NtIds, NtFresh, NtOld
  <1>13. CASE UNCHANGED Nt!vars
    BY <1>13, <1>s DEF Nt!vars, NtMet, NtIds, NtFresh, NtOld
  <1> QED
    BY <1>1, <1>2, <1>3, <1>4, <1>5, <1>6, <1>7, <1>8, <1>9, <1>10, <1>11, <1>12, <1>13 DEF
       Nt!Next

-----------------------------------------------------------------------------
\* One step after the other, while the list is followed.
LEMMA NtCreateGood ==
  ASSUME NtTypes, NtMet, NtGood, NEW n \in Nt!Notice, Nt!Create(n)
  PROVE  NtGood'
  <1> USE DEF Nt!page
  <1>1. /\ UNCHANGED <<s3, s4, s5, s6>> /\ s2' = s2 \cup {n} /\ s7'
        /\ s1[n] = "none" /\ s1'[n] = "unread" /\ \A m \in Nt!Notice \ {n} : s1'[m] = s1[m]
    BY DEF Nt!Create, NtTypes
  <1>2. NtExist' = NtExist \cup {n} /\ n \notin NtExist /\ n \notin NtKnown /\ NtExist \subseteq NtKnown
    BY <1>1 DEF NtExist, NtKnown
  <1>3. \A m \in NtExist : ~(m > n)
    BY <1>2 DEF NtMet, NtExist, Nt!Notice
  <1>4. NtRemoved' = NtRemoved /\ NtIds(s3)' = NtIds(s3) /\ NtSeen' = NtSeen \cup {n} /\ NtFirst' = NtFirst
    <2>1. NtRemoved' = NtRemoved
      BY <1>1 DEF NtRemoved, NtAsked
    <2> QED
      BY <1>1, <2>1 DEF NtSeen, NtIds, NtFresh, NtOld, NtFirst
  <1>5. \A t \in Req : NtAsked(t)' = NtAsked(t) /\ NtTakes(t)' = NtTakes(t)
    BY <1>1 DEF NtAsked, NtTakes, NtFresh
  <1>6. \A m \in NtKnown : NtWarranted(m) => NtWarranted(m)'
    BY <1>1, <1>2, <1>5 DEF NtWarranted, NtKnown
  <1>7. ASSUME NtListed PROVE NtListed'
    <2>1. NtOnce(s3)' /\ NtIds(s3)' \subseteq NtExist' /\ NtIds(s3)' \cap s2' = {}
      BY <1>1, <1>2, <1>4, <1>7 DEF NtListed, NtOnce
    <2>2. \A m \in NtFresh(s3)' : s1'[m] = "unread"
      BY <1>1, <1>2, <1>7 DEF NtListed, NtFresh
    <2>3. \A m \in NtOld(s3)' : NtWarranted(m)'
      BY <1>1, <1>2, <1>6, <1>7 DEF NtListed, NtOld, NtIds
    <2>4. NtNewest(NtSeen)' /\ (~s5.has' => NtExist' \subseteq NtSeen')
      BY <1>1, <1>2, <1>3, <1>4, <1>7 DEF NtListed, NtNewest
    <2>5. ASSUME NEW t \in Req, NtChanging(t), NtAsked(t) PROVE NtChanging(t)'
      <3>1. NtTakes(t) \subseteq NtKnown /\ (s6[t].op = "remove" => s6[t].n \in NtKnown)
        BY <1>2, <2>5 DEF NtMet, NtTakes, NtFresh, NtIds, NtChanging, NtAsked
      <3>2. NtOnce(s6[t].prev)' /\ \A s \in Req : NtAsked(s)' /\ s # t => (NtTakes(s) \cap NtTakes(t))' = {}
        BY <1>1, <1>5, <2>5 DEF NtChanging, NtOnce
      <3>3. \A m \in NtTakes(t)' : s1'[m] \in {"unread", "gone"} /\ m \notin s2' /\ m \notin NtFresh(s3)'
        BY <1>1, <1>2, <1>5, <2>5, <3>1 DEF NtChanging, NtFresh, NtKnown, NtTakes
      <3>4. s6[t].op = "remove" => /\ s6[t].n # n /\ s6[t].n \in NtExist'
                                   /\ s6[t].n \notin s2' /\ s6[t].n \notin NtIds(s3)'
        BY <1>1, <1>2, <1>4, <2>5, <3>1 DEF NtChanging
      <3>5. s6[t].op = "remove" => \A m \in NtOld(s6[t].prev) \cap {s6[t].n} : NtWarranted(m)'
        BY <1>6, <2>5, <3>1 DEF NtChanging
      <3> QED
        BY <1>1, <1>5, <2>5, <3>2, <3>3, <3>4, <3>5 DEF NtChanging, NtIds, NtOld, NtFresh
    <2> QED
      BY <1>1, <1>5, <1>7, <2>1, <2>2, <2>3, <2>4, <2>5 DEF NtListed
  <1>8. ASSUME s4.pc = "answered", NtAnswered PROVE NtAnswered'
    <2>1. /\ \A t \in Req : s6'[t] = Nt!Idle
          /\ NtOnce(s4.part)'
          /\ NtIds(s4.part)' = NtIds(s4.part) /\ NtBefore' = NtBefore
          /\ NtBefore \subseteq NtKnown
      BY <1>1, <1>4, <1>8 DEF NtAnswered, NtOnce, NtIds, NtFresh, NtOld, NtBefore, NtMet,
         NtFirst
    <2>2. NtIds(s4.part)' \subseteq NtExist' /\ (NtIds(s4.part) \cap (s2 \cup NtBefore))' = {}
      BY <1>1, <1>2, <1>8, <2>1 DEF NtAnswered
    <2>3. \A m \in NtIds(s4.part) : m # n /\ s1'[m] = s1[m]
      BY <1>1, <1>2, <1>8 DEF NtAnswered, NtExist
    <2>4. /\ \A m \in NtFresh(s4.part)' : s1'[m] = "unread"
          /\ \A m \in NtOld(s4.part)' : s1'[m] = "read"
      BY <1>1, <1>8, <2>3 DEF NtAnswered, NtIds, NtFresh, NtOld
    <2>5. /\ NtNewest(NtBefore \cup NtIds(s4.part) \cup s2)'
          /\ ~s4.has' => NtExist' \subseteq (NtBefore \cup NtIds(s4.part) \cup s2)'
      <3>1. (NtBefore \cup NtIds(s4.part) \cup s2)' = NtBefore \cup NtIds(s4.part) \cup s2 \cup {n}
        BY <1>1, <2>1
      <3> QED
        BY <1>1, <1>2, <1>3, <1>8, <3>1 DEF NtAnswered, NtNewest
    <2> QED
      BY <1>1, <2>1, <2>2, <2>4, <2>5 DEF NtAnswered
  <1> QED
    BY <1>1, <1>4, <1>7, <1>8 DEF NtGood

LEMMA NtToldGood ==
  ASSUME NtTypes, NtMet, NtGood, NEW n \in Nt!Notice, Nt!Told(n), ~s8'
  PROVE  NtGood'
  <1>1. /\ UNCHANGED <<s1, s4, s5, s6, s7>> /\ n \in s2 /\ s2' = s2 \ {n}
        /\ s3' = Nt!Prepended(n) /\ s4.pc # "answered" /\ s1[n] = "unread"
    BY DEF Nt!Told
  <1>2. /\ NtFresh(s3)' = NtFresh(s3) \cup {n} /\ NtOld(s3)' = NtOld(s3)
        /\ NtOnce(s3) /\ n \notin NtIds(s3) => NtOnce(s3)'
    <2>1. PICK p : p = <<Nt!Item(n, FALSE)>>
      OBVIOUS
    <2>2. p \in Seq(NtItems) /\ NtFresh(p) = {n} /\ NtOld(p) = {} /\ NtIds(p) = {n} /\ NtOnce(p)
      BY <2>1, NtSingle
    <2>3. s3' = p \o s3 /\ s3 \in Seq(NtItems)
      BY <1>1, <2>1 DEF Nt!Prepended, NtTypes
    <2>4. /\ NtFresh(p \o s3) = NtFresh(s3) \cup {n} /\ NtOld(p \o s3) = NtOld(s3)
          /\ NtOnce(s3) /\ n \notin NtIds(s3) => NtOnce(p \o s3)
      <3>1. /\ NtFresh(p \o s3) = NtFresh(p) \cup NtFresh(s3)
            /\ NtOld(p \o s3) = NtOld(p) \cup NtOld(s3)
            /\ NtOnce(p) /\ NtOnce(s3) /\ NtIds(p) \cap NtIds(s3) = {} => NtOnce(p \o s3)
        BY <2>2, <2>3, NtFollowed2
      <3>2. n \notin NtIds(s3) => NtIds(p) \cap NtIds(s3) = {}
        BY <2>2
      <3> QED
        BY <2>2, <3>1, <3>2
    <2> QED
      BY <2>3, <2>4 DEF NtFresh, NtOld, NtOnce
  <1>3. NtIds(s3)' = NtIds(s3) \cup {n} /\ NtRemoved' = NtRemoved /\ NtExist' = NtExist /\ NtSeen' = NtSeen
        /\ NtFirst' = NtFirst
    <2>1. NtRemoved' = NtRemoved /\ NtExist' = NtExist /\ NtFirst' = NtFirst
      BY <1>1 DEF NtRemoved, NtAsked, NtExist, NtFirst
    <2>2. NtIds(s3)' = NtIds(s3) \cup {n}
      BY <1>2 DEF NtIds
    <2> QED
      BY <1>1, <2>1, <2>2 DEF NtSeen
  <1>4. \A t \in Req : NtAsked(t)' = NtAsked(t) /\ NtTakes(t)' = NtTakes(t)
    BY <1>1 DEF NtAsked, NtTakes, NtFresh
  <1>5. \A m \in Nt!Notice : NtWarranted(m)' = NtWarranted(m)
    BY <1>1 DEF NtWarranted, NtAsked, NtTakes, NtFresh
  <1>6. ASSUME NtListed PROVE NtListed'
    <2>1. n \in NtExist /\ s7' /\ n \notin NtIds(s3)
      BY <1>1, <1>6 DEF NtExist, NtGood, NtListed
    <2>2. NtOnce(s3)' /\ NtIds(s3)' \subseteq NtExist' /\ NtIds(s3)' \cap s2' = {}
      BY <1>1, <1>2, <1>3, <1>6, <2>1 DEF NtListed
    <2>3. /\ \A m \in NtFresh(s3)' : s1'[m] = "unread"
          /\ \A m \in NtOld(s3)' : NtWarranted(m)'
      BY <1>1, <1>2, <1>5, <1>6 DEF NtListed, NtOld
    <2>4. NtNewest(NtSeen)' /\ (~s5.has' => NtExist' \subseteq NtSeen')
      BY <1>1, <1>3, <1>6 DEF NtListed, NtNewest
    <2>5. ASSUME NEW t \in Req, NtChanging(t), NtAsked(t) PROVE NtChanging(t)'
      <3>1. n \notin NtTakes(t) /\ (s6[t].op = "remove" => s6[t].n # n)
        BY <1>1, <2>5 DEF NtChanging
      <3>2. NtOnce(s6[t].prev)' /\ \A s \in Req : NtAsked(s)' /\ s # t => (NtTakes(s) \cap NtTakes(t))' = {}
        BY <1>1, <1>4, <2>5 DEF NtChanging, NtOnce
      <3>3. \A m \in NtTakes(t)' : s1'[m] \in {"unread", "gone"} /\ m \notin s2' /\ m \notin NtFresh(s3)'
        BY <1>1, <1>2, <1>4, <2>5, <3>1 DEF NtChanging
      <3>4. s6[t].op = "remove" => /\ s6[t].n \in NtExist'
                                   /\ s6[t].n \notin s2' /\ s6[t].n \notin NtIds(s3)'
        BY <1>1, <1>3, <2>5, <3>1 DEF NtChanging
      <3>5. s6[t].op = "remove" => \A m \in NtOld(s6[t].prev) \cap {s6[t].n} : NtWarranted(m)'
        BY <1>5, <2>5 DEF NtChanging, NtOld
      <3> QED
        BY <1>1, <1>4, <2>5, <3>2, <3>3, <3>4, <3>5 DEF NtChanging, NtIds, NtOld, NtFresh
    <2> QED
      BY <1>1, <1>4, <1>6, <2>1, <2>2, <2>3, <2>4, <2>5 DEF NtListed
  <1> QED
    BY <1>1, <1>3, <1>6 DEF NtGood

LEMMA NtStillListed ==
  ASSUME NtListed, UNCHANGED <<s1, s2, s3, s5, s6, s7>>
  PROVE  NtListed'
  <1>1. NtRemoved' = NtRemoved /\ NtExist' = NtExist /\ NtIds(s3)' = NtIds(s3) /\ NtSeen' = NtSeen
    BY DEF NtRemoved, NtAsked, NtExist, NtIds, NtFresh, NtOld, NtSeen
  <1>2. \A t \in Req : NtAsked(t)' = NtAsked(t) /\ NtTakes(t)' = NtTakes(t)
    BY DEF NtAsked, NtTakes, NtFresh
  <1>3. \A m : NtWarranted(m)' = NtWarranted(m)
    BY <1>2 DEF NtWarranted
  <1>4. ASSUME NEW t \in Req, NtChanging(t) PROVE NtChanging(t)'
    <2>1. s6[t].op = "remove" => \A m \in NtOld(s6[t].prev) \cap {s6[t].n} : NtWarranted(m)'
      BY <1>3, <1>4 DEF NtChanging
    <2> QED
      BY <1>1, <1>2, <1>4, <2>1 DEF NtChanging, NtOnce, NtIds, NtFresh, NtOld
  <1>5. NtOnce(s3)' /\ NtFresh(s3)' = NtFresh(s3) /\ NtOld(s3)' = NtOld(s3)
    BY DEF NtListed, NtOnce, NtFresh, NtOld
  <1>6. NtNewest(NtSeen)'
    BY <1>1 DEF NtListed, NtNewest
  <1> QED
    BY <1>1, <1>2, <1>3, <1>4, <1>5, <1>6 DEF NtListed

LEMMA NtLoadMoreGood ==
  ASSUME NtTypes, NtGood, Nt!LoadMore
  PROVE  NtGood'
  <1>1. /\ UNCHANGED <<s1, s2, s3, s5, s6, s7, s8>>
        /\ s5.has /\ s4 = Nt!NoLoad /\ s4' = Nt!Load(s5.page + 1)
    BY DEF Nt!LoadMore
  <1>2. s4'.pc = "asked" /\ s4'.page = s5.page + 1 /\ s5.page \in Nat \ {0}
    BY <1>1, NtKinds DEF Nt!Load
  <1>3. ~NtFirst /\ ~NtFirst'
    BY <1>1, <1>2 DEF NtFirst
  <1>4. NtListed => NtListed'
    BY <1>1, NtStillListed
  <1> QED
    BY <1>1, <1>2, <1>3, <1>4 DEF NtGood

LEMMA NtLoadFailedGood ==
  ASSUME NtTypes, NtGood, Nt!LoadFailed
  PROVE  NtGood'
  <1>1. UNCHANGED <<s1, s2, s3, s5, s6, s7, s8>> /\ s4' = Nt!Load(1)
    BY DEF Nt!LoadFailed
  <1>2. s4'.pc = "asked" /\ s4'.page = 1 /\ s4' # Nt!NoLoad
    BY <1>1 DEF Nt!Load, Nt!NoLoad
  <1> QED
    BY <1>1, <1>2 DEF NtGood, NtFirst

LEMMA NtReadPageGood ==
  ASSUME NtTypes, NtGood, Nt!ReadPage, ~s8'
  PROVE  NtGood'
  <1>1. /\ UNCHANGED <<s1, s2, s3, s5, s6>>
        /\ s4.pc = "asked" /\ s4'.pc = "answered" /\ s4'.page = s4.page
        /\ s4'.part = Nt!Chunk(s4.page) /\ s4'.has = (s4.page * PageSize < Len(Nt!Rows))
        /\ s2 = {} /\ ~s7' /\ (s4.page # 1 => ~s7)
        /\ \A t \in Req : s6[t] = Nt!Idle
    BY DEF Nt!ReadPage
  <1>2. s4 # Nt!NoLoad /\ s4' # Nt!NoLoad /\ s4.page \in Nat \ {0} /\ NtFirst' = NtFirst
    BY <1>1, NtKinds DEF Nt!NoLoad, NtFirst
  <1>3. ~NtFirst => NtListed' /\ s5.has /\ s4.page = s5.page + 1 /\ ~s7
    <2> SUFFICES ASSUME ~NtFirst PROVE NtListed' /\ s5.has /\ s4.page = s5.page + 1 /\ ~s7
      OBVIOUS
    <2>1. NtListed /\ s5.has /\ s4.page = s5.page + 1 /\ ~s7
      BY <1>1, <1>2 DEF NtGood, NtFirst
    <2>2. s7' = s7
      <3>1. s7 \in BOOLEAN /\ s7' \in BOOLEAN
        BY DEF Nt!ReadPage, NtTypes
      <3> QED
        BY <1>1, <2>1, <3>1
    <2> QED
      BY <1>1, <2>1, <2>2, NtStillListed
  <1>4. NtBefore \subseteq NtExist /\ NtNewest(NtBefore) /\ Cardinality(NtBefore) = (s4.page - 1) * PageSize
    <2>1. CASE NtFirst
      <3>1. NtBefore = {} /\ s4.page = 1
        BY <2>1 DEF NtBefore, NtFirst
      <3>2. Cardinality({}) = 0 /\ (s4.page - 1) * PageSize = 0
        BY <3>1, FS_EmptySet, ScreenBounds
      <3> QED
        BY <3>1, <3>2 DEF NtNewest
    <2>2. CASE ~NtFirst
      <3>1. NtRemoved = {}
        BY <1>1 DEF NtRemoved, NtAsked
      <3>2. NtSeen = NtBefore /\ NtIds(s3) \cup NtRemoved = NtBefore
        BY <1>1, <2>2, <3>1 DEF NtSeen, NtBefore
      <3>3. s5.page = s4.page - 1
        BY <1>3, <2>2, NtKinds
      <3> QED
        BY <1>1, <1>2, <1>3, <2>2, <3>2, <3>3 DEF NtGood, NtListed, NtBefore, NtFirst
    <2> QED
      BY <2>1, <2>2
  <1>5. PICK chunk : chunk = Nt!Chunk(s4.page)
    OBVIOUS
  <1>6. /\ NtOnce(chunk)
        /\ NtIds(chunk) \subseteq NtExist /\ NtIds(chunk) \cap NtBefore = {}
        /\ \A n \in NtFresh(chunk) : s1[n] = "unread"
        /\ \A n \in NtOld(chunk) : s1[n] = "read"
        /\ NtNewest(NtBefore \cup NtIds(chunk))
        /\ s4.page * PageSize < Len(Nt!Rows) => Cardinality(NtBefore \cup NtIds(chunk)) = s4.page * PageSize
        /\ ~(s4.page * PageSize < Len(Nt!Rows)) => NtExist \subseteq NtBefore \cup NtIds(chunk)
    <2>1. PICK p \in Nat \ {0} : p = s4.page
      BY <1>2
    <2>2. PICK B \in SUBSET NtExist : B = NtBefore
      BY <1>4
    <2>3. NtNewest(B) /\ Cardinality(B) = (p - 1) * PageSize /\ chunk = Nt!Chunk(p)
      BY <1>4, <1>5, <2>1, <2>2
    <2>4. /\ NtOnce(chunk)
          /\ NtIds(chunk) \subseteq NtExist /\ NtIds(chunk) \cap B = {}
          /\ \A n \in NtFresh(chunk) : s1[n] = "unread"
          /\ \A n \in NtOld(chunk) : s1[n] = "read"
          /\ NtNewest(B \cup NtIds(chunk))
          /\ p * PageSize < Len(Nt!Rows) => Cardinality(B \cup NtIds(chunk)) = p * PageSize
          /\ ~(p * PageSize < Len(Nt!Rows)) => NtExist \subseteq B \cup NtIds(chunk)
      BY <2>3, NtChunkRead
    <2> QED
      BY <2>1, <2>2, <2>4
  <1>7. NtAnswered'
    <2>1. NtExist' = NtExist /\ NtBefore' = NtBefore /\ s2' = {} /\ s1' = s1
      BY <1>1, <1>2 DEF NtExist, NtBefore, NtIds, NtFresh, NtOld
    <2>2. s4'.part = chunk
      BY <1>1, <1>5
    <2>3. NtFresh(s4.part)' = NtFresh(chunk) /\ NtOld(s4.part)' = NtOld(chunk) /\ NtIds(s4.part)' = NtIds(chunk)
      BY <2>2 DEF NtFresh, NtOld, NtIds
    <2>4. NtOnce(s4.part)'
      BY <1>6, <2>2 DEF NtOnce
    <2>5. (NtBefore \cup NtIds(s4.part) \cup s2)' = NtBefore \cup NtIds(chunk)
      BY <2>1, <2>3
    <2>6. NtNewest(NtBefore \cup NtIds(s4.part) \cup s2)'
      BY <1>6, <2>1, <2>5 DEF NtNewest
    <2>7. (NtBefore \cup NtIds(s4.part))' = NtBefore \cup NtIds(chunk)
      BY <2>1, <2>3
    <2>8. \A t \in Req : s6'[t] = Nt!Idle
      BY <1>1
    <2>9. ~s4'.has => NtExist \subseteq NtBefore \cup NtIds(chunk)
      BY <1>1, <1>6
    <2>10. s4'.has => Cardinality(NtBefore \cup NtIds(chunk)) = s4'.page * PageSize
      BY <1>1, <1>6
    <2>11. (NtIds(s4.part) \cap (s2 \cup NtBefore))' = {}
      BY <1>6, <2>1, <2>3
    <2> QED
      BY <1>6, <2>1, <2>3, <2>4, <2>5, <2>6, <2>7, <2>8, <2>9, <2>10, <2>11 DEF NtAnswered
  <1> QED
    BY <1>1, <1>2, <1>3, <1>7 DEF NtGood

LEMMA NtLoadedGood ==
  ASSUME NtTypes, NtGood, Nt!Loaded
  PROVE  NtGood'
  <1>1. /\ UNCHANGED <<s1, s2, s6, s7>> /\ s4.pc = "answered" /\ s4' = Nt!NoLoad
        /\ s3' = (IF s4.page = 1 THEN s4.part ELSE s3 \o s4.part)
        /\ s5'.page = s4.page /\ s5'.has = s4.has
    BY DEF Nt!Loaded
  <1>2. s4 # Nt!NoLoad /\ ~NtFirst' /\ s4.part \in Seq(NtItems) /\ s3 \in Seq(NtItems) /\ NtAnswered
    BY <1>1, NtKinds DEF Nt!NoLoad, NtFirst, NtGood, NtTypes
  <1>3. NtRemoved' = {} /\ NtExist' = NtExist /\ \A t \in Req : ~NtAsked(t)'
    BY <1>1, <1>2 DEF NtRemoved, NtAsked, NtExist, NtAnswered
  <1>4. /\ NtOnce(s3') /\ NtIds(s3') = NtBefore \cup NtIds(s4.part)
        /\ NtIds(s3') \subseteq NtExist /\ NtIds(s3') \cap s2 = {}
        /\ \A n \in NtFresh(s3') : s1[n] = "unread"
        /\ \A n \in NtOld(s3') : s1[n] = "read"
    <2>1. CASE s4.page = 1
      <3>1. NtBefore = {} /\ s3' = s4.part
        BY <1>1, <1>2, <2>1 DEF NtBefore, NtFirst
      <3> QED
        BY <1>2, <3>1 DEF NtAnswered
    <2>2. CASE s4.page # 1
      <3>1. ~NtFirst /\ NtBefore = NtIds(s3) /\ NtListed
        BY <1>2, <2>2 DEF NtFirst, NtBefore, NtGood
      <3>2. s3' = s3 \o s4.part
        BY <1>1, <2>2
      <3>3. /\ NtFresh(s3 \o s4.part) = NtFresh(s3) \cup NtFresh(s4.part)
            /\ NtOld(s3 \o s4.part) = NtOld(s3) \cup NtOld(s4.part)
            /\ NtOnce(s3) /\ NtOnce(s4.part) /\ NtIds(s3) \cap NtIds(s4.part) = {}
                 => NtOnce(s3 \o s4.part)
        BY <1>2, NtFollowed2
      <3>4. NtIds(s3 \o s4.part) = NtIds(s3) \cup NtIds(s4.part)
        BY <3>3 DEF NtIds
      <3>5. NtOnce(s3 \o s4.part)
        BY <1>2, <3>1, <3>3 DEF NtAnswered, NtListed
      <3>6. \A n \in NtOld(s3) : s1[n] = "read"
        BY <1>2, <3>1 DEF NtAnswered, NtListed, NtWarranted, NtAsked
      <3> QED
        BY <1>2, <3>1, <3>2, <3>3, <3>4, <3>5, <3>6 DEF NtAnswered, NtListed
    <2> QED
      BY <2>1, <2>2
  <1>5. NtSeen' = NtBefore \cup NtIds(s4.part) \cup s2
    BY <1>1, <1>3, <1>4 DEF NtSeen, NtIds, NtFresh, NtOld
  <1>6. NtListed'
    <2>1. NtOnce(s3)' /\ NtIds(s3)' \subseteq NtExist' /\ NtIds(s3)' \cap s2' = {}
      BY <1>1, <1>3, <1>4 DEF NtOnce, NtIds, NtFresh, NtOld
    <2>2. \A n \in NtFresh(s3)' : s1'[n] = "unread"
      BY <1>1, <1>4 DEF NtFresh
    <2>3. \A n \in NtOld(s3)' : NtWarranted(n)'
      BY <1>1, <1>4 DEF NtOld, NtWarranted
    <2>4. NtNewest(NtSeen)' /\ (~s5.has' => NtExist' \subseteq NtSeen')
      BY <1>1, <1>2, <1>3, <1>5 DEF NtNewest, NtAnswered
    <2>5. (NtIds(s3) \cup NtRemoved)' = NtBefore \cup NtIds(s4.part)
      BY <1>3, <1>4 DEF NtIds, NtFresh, NtOld
    <2>6. s5.has' /\ ~s7' => Cardinality((NtIds(s3) \cup NtRemoved)') = s5.page' * PageSize
      BY <1>1, <1>2, <2>5 DEF NtAnswered
    <2> QED
      BY <1>3, <2>1, <2>2, <2>3, <2>4, <2>6 DEF NtListed
  <1> QED
    BY <1>1, <1>2, <1>6 DEF NtGood, Nt!NoLoad

LEMMA NtDoneGood ==
  ASSUME NtTypes, NtGood, NEW t \in Req, Nt!Done(t)
  PROVE  NtGood'
  <1>1. /\ UNCHANGED <<s1, s2, s3, s4, s5, s7>>
        /\ s6[t].pc = "done" /\ s6[t] # Nt!Idle
        /\ s6'[t] = Nt!Idle /\ \A s \in Req \ {t} : s6'[s] = s6[s]
    BY NtKinds DEF Nt!Done, NtTypes
  <1>2. \A s \in Req : NtAsked(s)' = NtAsked(s) /\ (NtAsked(s) => s # t /\ NtTakes(s)' = NtTakes(s))
    BY <1>1 DEF NtAsked, NtTakes, NtFresh
  <1>3. /\ NtRemoved' = NtRemoved /\ NtExist' = NtExist /\ NtIds(s3)' = NtIds(s3)
        /\ NtSeen' = NtSeen
        /\ NtFirst' = NtFirst
    <2>1. NtRemoved' = NtRemoved
      <3>1. \A s \in Req : NtAsked(s) => s6'[s] = s6[s]
        BY <1>1, <1>2
      <3> QED
        BY <1>2, <3>1 DEF NtRemoved
    <2> QED
      BY <1>1, <2>1 DEF NtExist, NtIds, NtFresh, NtOld, NtSeen, NtFirst
  <1>4. \A m : NtWarranted(m) => NtWarranted(m)'
    <2>1. \A s \in Req : NtAsked(s) => s6'[s] = s6[s]
      BY <1>1, <1>2
    <2> QED
      BY <1>1, <1>2, <2>1 DEF NtWarranted
  <1>5. ASSUME NtListed PROVE NtListed'
    <2>1. NtOnce(s3)' /\ NtFresh(s3)' = NtFresh(s3) /\ NtOld(s3)' = NtOld(s3)
      BY <1>1, <1>5 DEF NtListed, NtOnce, NtFresh, NtOld
    <2>2. NtNewest(NtSeen)'
      BY <1>3, <1>5 DEF NtListed, NtNewest
    <2>3. ASSUME NEW s \in Req, NtAsked(s) PROVE NtChanging(s)'
      <3>1. s6'[s] = s6[s] /\ NtChanging(s)
        BY <1>1, <1>2, <1>5, <2>3 DEF NtListed
      <3>2. s6[s].op = "remove" => \A m \in NtOld(s6[s].prev) \cap {s6[s].n} : NtWarranted(m)'
        BY <1>4, <3>1 DEF NtChanging
      <3>3. \A r \in Req : NtAsked(r) => s6'[r] = s6[r]
        BY <1>1, <1>2
      <3> QED
        BY <1>1, <1>2, <1>3, <2>1, <2>3, <3>1, <3>2, <3>3 DEF NtChanging, NtOnce, NtIds,
           NtFresh, NtOld
    <2> QED
      BY <1>1, <1>2, <1>3, <1>4, <1>5, <2>1, <2>2, <2>3 DEF NtListed
  <1> QED
    BY <1>1, <1>3, <1>5 DEF NtGood, NtAnswered

\* What is shown at once is what its change takes.
LEMMA NtAskShows ==
  ASSUME NtTypes, NtOnce(s3), NEW n \in Nt!Notice, NEW op \in {"read", "readAll", "remove"}, Nt!Offered(op, n),
         NEW list, list = Nt!Shown(s3, op, n), NEW T,
         T = IF op = "readAll" THEN NtFresh(s3) ELSE NtFresh(s3) \cap {n}
  PROVE  /\ NtOnce(list) /\ NtFresh(list) = NtFresh(s3) \ T
         /\ NtIds(list) = IF op = "remove" THEN NtIds(s3) \ {n} ELSE NtIds(s3)
         /\ \A m \in NtOld(list) : m \in NtOld(s3) \/ (op # "remove" /\ m \in T)
         /\ op = "read" => n \in T
         /\ op = "remove" => n \in NtIds(s3)
  <1>1. s3 \in Seq(NtItems)
    BY DEF NtTypes
  <1>2. CASE op = "read"
    <2>1. PICK i \in DOMAIN s3 : s3[i] = Nt!Item(n, FALSE)
      BY <1>2 DEF Nt!Offered
    <2>2. s3[i].id = n /\ ~s3[i].read
      BY <2>1 DEF Nt!Item
    <2>3. n \in T
      BY <1>2, <2>2 DEF NtFresh
    <2>4. /\ NtIds(list) = NtIds(s3) /\ NtFresh(list) = NtFresh(s3) \ {n}
          /\ NtOld(list) = NtOld(s3) \cup (NtIds(s3) \cap {n}) /\ NtOnce(list)
      BY <1>1, <1>2, NtShownRead
    <2> QED
      BY <1>2, <2>3, <2>4
  <1>3. CASE op = "readAll"
    <2>1. NtIds(list) = NtIds(s3) /\ NtFresh(list) = {} /\ NtOnce(list)
      BY <1>1, <1>3, NtShownReadAll
    <2> QED
      BY <1>3, <2>1 DEF NtIds
  <1>4. CASE op = "remove"
    <2>1. PICK i \in DOMAIN s3 : s3[i].id = n
      BY <1>4 DEF Nt!Offered
    <2>2. n \in NtIds(s3)
      BY <1>1, <2>1, NtFlags
    <2>3. NtFresh(list) = NtFresh(s3) \ {n} /\ NtOld(list) = NtOld(s3) \ {n} /\ NtOnce(list)
      BY <1>1, <1>4, NtShownRemove
    <2> QED
      BY <1>4, <2>2, <2>3 DEF NtIds
  <1> QED
    BY <1>2, <1>3, <1>4

LEMMA NtAskGood ==
  ASSUME NtTypes, NtGood, NEW t \in Req, NEW n \in Nt!Notice, NEW op \in {"read", "readAll", "remove"},
         Nt!Ask(t, op, n), ~s8'
  PROVE  NtGood'
  <1>1. /\ UNCHANGED <<s1, s2, s4, s5, s7>> /\ s6[t] = Nt!Idle /\ s4.pc # "answered"
        /\ s3' = Nt!Shown(s3, op, n) /\ Nt!Offered(op, n)
        /\ s6'[t] = Nt!Change(op, n) /\ \A s \in Req \ {t} : s6'[s] = s6[s]
    BY DEF Nt!Ask, NtTypes
  <1>2. /\ s6'[t].op = op /\ s6'[t].n = n /\ s6'[t].prev = s3 /\ s6'[t].pc = "asked"
        /\ s6'[t] # Nt!Idle
    <2>1. /\ s6'[t].op = op /\ s6'[t].n = n /\ s6'[t].prev = s3 /\ s6'[t].pc = "asked"
      BY <1>1 DEF Nt!Change
    <2> QED
      BY <2>1 DEF Nt!Idle
  <1>3. NtFirst' = NtFirst /\ NtExist' = NtExist
    BY <1>1 DEF NtFirst, NtExist
  <1>4. ASSUME NtListed PROVE NtListed'
    <2>1. PICK T : T = IF op = "readAll" THEN NtFresh(s3) ELSE NtFresh(s3) \cap {n}
      OBVIOUS
    <2>2. /\ NtOnce(s3') /\ NtFresh(s3') = NtFresh(s3) \ T
          /\ NtIds(s3') = IF op = "remove" THEN NtIds(s3) \ {n} ELSE NtIds(s3)
          /\ \A m \in NtOld(s3') : m \in NtOld(s3) \/ (op # "remove" /\ m \in T)
          /\ op = "read" => n \in T
          /\ op = "remove" => n \in NtIds(s3)
      BY <1>1, <1>4, <2>1, NtAskShows DEF NtListed
    <2>3. NtFresh(s3)' = NtFresh(s3) \ T /\ NtIds(s3)' = NtIds(s3')
          /\ NtOld(s3)' = NtOld(s3') /\ NtOnce(s3)'
      BY <2>2 DEF NtFresh, NtIds, NtOld, NtOnce
    <2>4. /\ ~NtAsked(t) /\ NtAsked(t)'
          /\ \A s \in Req \ {t} : NtAsked(s)' = NtAsked(s) /\ NtTakes(s)' = NtTakes(s)
      BY <1>1, <1>2 DEF NtAsked, NtTakes, NtFresh
    <2>5. NtTakes(t)' = T
      BY <1>2, <2>1 DEF NtTakes, NtFresh
    <2>6. NtRemoved' = NtRemoved \cup (IF op = "remove" THEN {n} ELSE {})
      <3>1. ASSUME NEW m \in Nt!Notice, m \in NtRemoved' PROVE m \in NtRemoved \/ (op = "remove" /\ m = n)
        <4>1. PICK s \in Req : NtAsked(s)' /\ s6'[s].op = "remove" /\ s6'[s].n = m
          BY <3>1 DEF NtRemoved
        <4> QED
          BY <1>1, <1>2, <2>4, <4>1 DEF NtRemoved
      <3>2. ASSUME NEW m \in Nt!Notice, m \in NtRemoved PROVE m \in NtRemoved'
        <4>1. PICK s \in Req : NtAsked(s) /\ s6[s].op = "remove" /\ s6[s].n = m
          BY <3>2 DEF NtRemoved
        <4>2. s # t /\ s6'[s] = s6[s] /\ NtAsked(s)'
          BY <1>1, <2>4, <4>1
        <4> QED
          BY <4>1, <4>2 DEF NtRemoved
      <3>3. op = "remove" => n \in NtRemoved'
        BY <1>2, <2>4 DEF NtRemoved
      <3>4. NtRemoved' \subseteq Nt!Notice /\ NtRemoved \subseteq Nt!Notice
        BY DEF NtRemoved
      <3> QED
        BY <3>1, <3>2, <3>3, <3>4
    <2>7. NtSeen' = NtSeen /\ (NtIds(s3) \cup NtRemoved)' = NtIds(s3) \cup NtRemoved
      BY <1>1, <2>2, <2>3, <2>6 DEF NtSeen
    <2>8. \A m : NtWarranted(m) \/ (op # "remove" /\ m \in T) => NtWarranted(m)'
      <3>1. \A s \in Req : NtAsked(s) => s # t /\ s6'[s] = s6[s]
        BY <1>1, <2>4
      <3>2. \A m : NtWarranted(m) => NtWarranted(m)'
        BY <1>1, <2>4, <3>1 DEF NtWarranted
      <3>3. \A m : op # "remove" /\ m \in T => NtWarranted(m)'
        BY <1>2, <2>4, <2>5 DEF NtWarranted
      <3> QED
        BY <3>2, <3>3
    <2>9. /\ NtIds(s3)' \subseteq NtExist' /\ NtIds(s3)' \cap s2' = {}
          /\ \A m \in NtFresh(s3)' : s1'[m] = "unread"
          /\ \A m \in NtOld(s3)' : NtWarranted(m)'
      BY <1>1, <1>3, <1>4, <2>2, <2>3, <2>8 DEF NtListed
    <2>10. NtNewest(NtSeen)' /\ (~s5.has' => NtExist' \subseteq NtSeen')
      BY <1>1, <1>3, <1>4, <2>7 DEF NtListed, NtNewest
    <2>11. s5.has' /\ ~s7' => Cardinality((NtIds(s3) \cup NtRemoved)') = s5.page' * PageSize
      BY <1>1, <1>4, <2>7 DEF NtListed
    <2>12. \A s \in Req : NtAsked(s) => s # t /\ NtChanging(s) /\ T \cap NtTakes(s) = {} /\ (s6[s].op = "remove" => s6[s].n \notin NtIds(s3))
      BY <1>4, <2>1, <2>4 DEF NtListed, NtChanging
    <2>13. ASSUME NEW s \in Req, NtAsked(s)', s # t PROVE NtChanging(s)'
      <3>1. s6'[s] = s6[s] /\ NtChanging(s) /\ NtAsked(s)
        BY <1>1, <2>4, <2>12, <2>13
      <3>2. NtOnce(s6[s].prev)' /\ \A r \in Req : NtAsked(r)' /\ r # s => (NtTakes(r) \cap NtTakes(s))' = {}
        <4>1. ASSUME NEW r \in Req, NtAsked(r)', r # s PROVE (NtTakes(r) \cap NtTakes(s))' = {}
          <5>1. CASE r = t
            BY <2>4, <2>5, <2>12, <2>13, <3>1, <5>1
          <5>2. CASE r # t
            BY <2>4, <2>13, <3>1, <4>1, <5>2 DEF NtChanging
          <5> QED
            BY <5>1, <5>2
        <4>2. NtOnce(s6[s].prev)'
          BY <3>1 DEF NtChanging, NtOnce
        <4> QED
          BY <4>1, <4>2
      <3>3. \A m \in NtTakes(s)' : s1'[m] \in {"unread", "gone"} /\ m \notin s2' /\ m \notin NtFresh(s3)'
        BY <1>1, <2>3, <2>4, <2>13, <3>1 DEF NtChanging
      <3>4. s6'[s].op = "read" => s6'[s].n \in NtTakes(s)'
        BY <2>4, <2>13, <3>1 DEF NtChanging
      <3>5. s6'[s].op = "remove" =>
              /\ s6'[s].n \in NtIds(s6[s].prev)' /\ s6'[s].n \notin s2'
              /\ s6'[s].n \notin NtIds(s3)'
              /\ s6'[s].n \in NtExist'
        BY <1>1, <1>3, <2>2, <2>3, <3>1 DEF NtChanging, NtIds, NtFresh, NtOld
      <3>6. s6'[s].op = "remove" => \A m \in (NtOld(s6[s].prev) \cap {s6[s].n})' : NtWarranted(m)'
        BY <2>8, <3>1 DEF NtChanging, NtOld
      <3>7. ASSUME s6'[s].op = "remove", NEW r \in Req, NtAsked(r)', r # s, s6'[r].op = "remove"
            PROVE  s6'[r].n # s6'[s].n
        <4>1. CASE r = t
          BY <1>2, <2>2, <2>12, <3>1, <3>7, <4>1
        <4>2. CASE r # t
          <5>1. s6'[r] = s6[r] /\ NtAsked(r)
            BY <1>1, <2>4, <3>7, <4>2
          <5> QED
            BY <3>1, <3>7, <5>1 DEF NtChanging
        <4> QED
          BY <4>1, <4>2
      <3> QED
        BY <3>2, <3>3, <3>4, <3>5, <3>6, <3>7 DEF NtChanging
    <2>14. NtChanging(t)'
      <3>1. NtOnce(s6[t].prev)' /\ \A r \in Req : NtAsked(r)' /\ r # t => (NtTakes(r) \cap NtTakes(t))' = {}
        <4>1. ASSUME NEW r \in Req, NtAsked(r)', r # t PROVE (NtTakes(r) \cap NtTakes(t))' = {}
          BY <2>4, <2>5, <2>12, <4>1
        <4>2. NtOnce(s6[t].prev)'
          BY <1>2, <1>4 DEF NtListed, NtOnce
        <4> QED
          BY <4>1, <4>2
      <3>2. \A m \in NtTakes(t)' : s1'[m] \in {"unread", "gone"} /\ m \notin s2' /\ m \notin NtFresh(s3)'
        <4>1. T \subseteq NtFresh(s3)
          BY <2>1
        <4> QED
          BY <1>1, <1>4, <2>3, <2>5, <4>1 DEF NtListed, NtIds
      <3>3. s6'[t].op = "read" => s6'[t].n \in NtTakes(t)'
        BY <1>2, <2>2, <2>5
      <3>4. op = "remove" =>
              /\ n \in NtIds(s6[t].prev)' /\ n \notin s2' /\ n \notin NtIds(s3)'
              /\ n \in NtExist'
        <4>1. NtIds(s6[t].prev)' = NtIds(s3)
          BY <1>2 DEF NtIds, NtFresh, NtOld
        <4> QED
          BY <1>1, <1>3, <1>4, <2>2, <2>3, <4>1 DEF NtListed
      <3>5. \A m \in (NtOld(s6[t].prev) \cap {s6[t].n})' : NtWarranted(m)'
        <4>1. NtOld(s6[t].prev)' = NtOld(s3)
          BY <1>2 DEF NtOld
        <4> QED
          BY <1>4, <2>8, <4>1 DEF NtListed
      <3>6. ASSUME op = "remove", NEW r \in Req, NtAsked(r)', r # t, s6'[r].op = "remove"
            PROVE  s6'[r].n # n
        BY <1>1, <2>2, <2>4, <2>12, <3>6
      <3> QED
        BY <1>2, <3>1, <3>2, <3>3, <3>4, <3>5, <3>6 DEF NtChanging
    <2> QED
      BY <2>3, <2>9, <2>10, <2>11, <2>13, <2>14 DEF NtListed
  <1> QED
    BY <1>1, <1>3, <1>4 DEF NtGood

LEMMA NtServeGood ==
  ASSUME NtTypes, NtGood, NEW t \in Req, Nt!Serve(t), ~s8'
  PROVE  NtGood'
  <1>1. /\ UNCHANGED <<s2, s3, s4, s5>> /\ s6[t] # Nt!Idle /\ s6[t].pc = "asked"
        /\ s6[t].op # "readAll" => s1[s6[t].n] # "gone"
        /\ s1' = [m \in Nt!Notice |-> IF m \in Nt!Reads(t)
                                         THEN IF s6[t].op = "remove" THEN "gone" ELSE "read"
                                         ELSE s1[m]]
        /\ s6'[t] = [s6[t] EXCEPT !.pc = "done"] /\ \A s \in Req \ {t} : s6'[s] = s6[s]
        /\ (s7 => s7') /\ (s6[t].op = "remove" => s7')
    BY NtKinds DEF Nt!Serve, NtTypes
  <1>2. s6[t].op \in {"read", "readAll", "remove"} /\ s6[t].n \in Nt!Notice
    BY <1>1, NtKinds
  <1>3. s6'[t].pc = "done"
    BY <1>1, <1>2 DEF NtTypes, NtChanges
  <1>4. s4.pc # "answered" /\ NtAsked(t)
    BY <1>1 DEF NtGood, NtAnswered, NtAsked
  <1>5. \A s \in Req : (NtAsked(s)' <=> s # t /\ NtAsked(s)) /\ (s # t => NtTakes(s)' = NtTakes(s))
    BY <1>1, <1>3 DEF NtAsked, NtTakes, NtFresh
  <1>6. /\ NtFirst' = NtFirst /\ NtIds(s3)' = NtIds(s3) /\ NtFresh(s3)' = NtFresh(s3)
        /\ NtOld(s3)' = NtOld(s3)
        /\ NtOnce(s3) => NtOnce(s3)'
    BY <1>1 DEF NtFirst, NtIds, NtFresh, NtOld, NtOnce
  <1>7. ASSUME NtListed PROVE NtListed'
    <2>1. NtChanging(t)
      BY <1>4, <1>7 DEF NtListed
    <2>r. s6[t].op # "remove" => NtRemoved' = NtRemoved
      <3>1. \A s \in Req : NtAsked(s) /\ s6[s].op = "remove" => s # t
              \/ s6[t].op = "remove"
        OBVIOUS
      <3> QED
        BY <1>1, <1>5, <3>1 DEF NtRemoved
    <2>2. CASE s6[t].op = "read"
      <3>1. PICK n \in Nt!Notice : n = s6[t].n
        BY <1>2
      <3>2. /\ s1[n] = "unread" /\ n \notin s2 /\ n \notin NtFresh(s3)
            /\ NtTakes(t) \subseteq {n}
            /\ \A s \in Req : NtAsked(s)' => n \notin NtTakes(s)
        BY <1>1, <1>5, <2>1, <2>2, <3>1 DEF NtChanging, NtTakes
      <3>3. s1'[n] = "read" /\ \A m \in Nt!Notice \ {n} : s1'[m] = s1[m]
        BY <1>1, <2>2, <3>1 DEF Nt!Reads
      <3>4. NtExist' = NtExist /\ NtRemoved' = NtRemoved /\ NtSeen' = NtSeen
        BY <1>1, <1>6, <2>2, <2>r, <3>2, <3>3 DEF NtExist, NtSeen
      <3>5. \A m \in Nt!Notice : NtWarranted(m) => NtWarranted(m)'
        <4> SUFFICES ASSUME NEW m \in Nt!Notice, NtWarranted(m), m # n PROVE NtWarranted(m)'
          BY <3>3 DEF NtWarranted
        <4>1. CASE s1[m] = "read"
          BY <3>3, <4>1 DEF NtWarranted
        <4>2. CASE \E s \in Req : NtAsked(s) /\ s6[s].op # "remove" /\ m \in NtTakes(s)
          <5>1. PICK s \in Req : NtAsked(s) /\ s6[s].op # "remove" /\ m \in NtTakes(s)
            BY <4>2
          <5>2. s # t /\ s6'[s] = s6[s]
            BY <1>1, <3>2, <5>1
          <5> QED
            BY <1>5, <5>1, <5>2 DEF NtWarranted
        <4> QED
          BY <4>1, <4>2 DEF NtWarranted
      <3>6. \A m \in NtFresh(s3)' : s1'[m] = "unread"
        BY <1>6, <1>7, <3>2, <3>3 DEF NtListed, NtFresh
      <3>7. NtNewest(NtSeen)' /\ \A m \in NtOld(s3)' : NtWarranted(m)'
        BY <1>6, <1>7, <3>4, <3>5 DEF NtListed, NtNewest, NtOld
      <3>8. ASSUME NEW s \in Req, NtAsked(s)' PROVE NtChanging(s)'
        <4>1. NtChanging(s) /\ s # t /\ NtAsked(s) /\ s6'[s] = s6[s] /\ NtTakes(s)' = NtTakes(s)
          BY <1>1, <1>5, <1>7, <3>8 DEF NtListed
        <4>2. \A m \in NtTakes(s)' : s1'[m] \in {"unread", "gone"} /\ m \notin s2' /\ m \notin NtFresh(s3)'
          BY <1>1, <1>6, <3>2, <3>3, <3>8, <4>1 DEF NtChanging, NtTakes, NtFresh
        <4>3. s6'[s].op = "remove" => \A m \in (NtOld(s6[s].prev) \cap {s6[s].n})' : NtWarranted(m)'
          BY <3>5, <4>1 DEF NtChanging, NtOld
        <4>4. NtOnce(s6[s].prev)' /\ \A r \in Req : NtAsked(r)' /\ r # s => (NtTakes(r) \cap NtTakes(s))' = {}
          BY <1>5, <4>1 DEF NtChanging, NtOnce
        <4>5. s6'[s].op = "remove" => \A r \in Req : NtAsked(r)' /\ r # s /\ s6'[r].op = "remove"
                                          => s6'[r].n # s6'[s].n
          BY <1>1, <1>5, <4>1 DEF NtChanging
        <4>6. s6'[s].op = "remove" => s6'[s].n \in NtIds(s6[s].prev)' /\ s6'[s].n \notin NtIds(s3)'
          BY <1>6, <4>1 DEF NtChanging, NtIds, NtFresh, NtOld
        <4> QED
          BY <1>1, <3>4, <4>1, <4>2, <4>3, <4>4, <4>5, <4>6 DEF NtChanging
      <3> QED
        BY <1>1, <1>6, <1>7, <3>4, <3>6, <3>7, <3>8 DEF NtListed
    <2>3. CASE s6[t].op = "readAll"
      <3>1. /\ \A s \in Req \ {t} : s6[s] = Nt!Idle
            /\ Nt!Unread \cap s2 = {} /\ \A i \in DOMAIN s3 : s3[i].read
        BY <2>3 DEF Nt!Serve
      <3>2. NtFresh(s3) = {}
        BY <3>1 DEF NtFresh
      <3>3. \A m \in Nt!Notice : s1'[m] = IF s1[m] = "unread" THEN "read" ELSE s1[m]
        BY <1>1, <2>3 DEF Nt!Reads, Nt!Unread
      <3>4. \A s \in Req : ~NtAsked(s)'
        BY <1>5, <3>1 DEF NtAsked
      <3>5. NtExist' = NtExist /\ NtRemoved' = NtRemoved /\ NtSeen' = NtSeen
        BY <1>1, <1>6, <2>3, <2>r, <3>3 DEF NtExist, NtSeen
      <3>6. \A m \in NtOld(s3)' : NtWarranted(m)'
        <4>1. \A m \in NtOld(s3) : m \in NtExist
          BY <1>7 DEF NtListed, NtIds
        <4> QED
          BY <1>6, <3>3, <4>1 DEF NtWarranted, NtExist
      <3>7. NtNewest(NtSeen)'
        BY <1>7, <3>5 DEF NtListed, NtNewest
      <3> QED
        BY <1>1, <1>6, <1>7, <3>2, <3>4, <3>5, <3>6, <3>7 DEF NtListed
    <2>4. CASE s6[t].op = "remove"
      <3>1. PICK n \in Nt!Notice : n = s6[t].n
        BY <1>2
      <3>2. /\ n \notin s2 /\ n \notin NtIds(s3) /\ n \in NtExist
            /\ \A s \in Req : NtAsked(s)' /\ s6[s].op = "remove" => s6[s].n # n
        BY <1>5, <2>1, <2>4, <3>1 DEF NtChanging
      <3>3. s1'[n] = "gone" /\ \A m \in Nt!Notice \ {n} : s1'[m] = s1[m]
        BY <1>1, <2>4, <3>1 DEF Nt!Reads
      <3>4. NtExist' = NtExist \ {n}
        BY <3>2, <3>3 DEF NtExist
      <3>5. NtRemoved' = NtRemoved \ {n}
        <4>1. \A m \in NtRemoved' : m \in NtRemoved /\ m # n
          <5> SUFFICES ASSUME NEW m \in NtRemoved' PROVE m \in NtRemoved /\ m # n
            OBVIOUS
          <5>1. PICK s \in Req : NtAsked(s)' /\ s6'[s].op = "remove" /\ s6'[s].n = m
            BY DEF NtRemoved
          <5>2. m \in Nt!Notice /\ NtAsked(s) /\ s6'[s] = s6[s]
            BY <1>1, <1>5, <5>1 DEF NtRemoved
          <5> QED
            BY <3>2, <5>1, <5>2 DEF NtRemoved
        <4>2. \A m \in NtRemoved \ {n} : m \in NtRemoved'
          <5> SUFFICES ASSUME NEW m \in NtRemoved, m # n PROVE m \in NtRemoved'
            OBVIOUS
          <5>1. PICK s \in Req : NtAsked(s) /\ s6[s].op = "remove" /\ s6[s].n = m
            BY DEF NtRemoved
          <5>2. m \in Nt!Notice /\ NtAsked(s)' /\ s6'[s] = s6[s]
            BY <1>1, <1>5, <3>1, <5>1 DEF NtRemoved
          <5> QED
            BY <5>1, <5>2 DEF NtRemoved
        <4> QED
          BY <4>1, <4>2
      <3>6. NtSeen' = NtSeen \ {n}
        BY <1>1, <1>6, <3>2, <3>5 DEF NtSeen
      <3>7. NtNewest(NtSeen)' /\ (~s5.has' => NtExist' \subseteq NtSeen')
        BY <1>1, <1>7, <3>4, <3>6 DEF NtListed, NtNewest
      <3>8. \A m \in Nt!Notice \ {n} : NtWarranted(m) => NtWarranted(m)'
        <4> SUFFICES ASSUME NEW m \in Nt!Notice, NtWarranted(m), m # n PROVE NtWarranted(m)'
          OBVIOUS
        <4>1. CASE s1[m] = "read"
          BY <3>3, <4>1 DEF NtWarranted
        <4>2. CASE \E s \in Req : NtAsked(s) /\ s6[s].op # "remove" /\ m \in NtTakes(s)
          <5>1. PICK s \in Req : NtAsked(s) /\ s6[s].op # "remove" /\ m \in NtTakes(s)
            BY <4>2
          <5>2. s # t /\ s6'[s] = s6[s]
            BY <1>1, <2>4, <5>1
          <5> QED
            BY <1>5, <5>1, <5>2 DEF NtWarranted
        <4> QED
          BY <4>1, <4>2 DEF NtWarranted
      <3>9. /\ \A m \in NtFresh(s3)' : s1'[m] = "unread"
            /\ \A m \in NtOld(s3)' : NtWarranted(m)'
            /\ NtIds(s3)' \subseteq NtExist'
        BY <1>6, <1>7, <3>2, <3>3, <3>4, <3>8 DEF NtListed, NtIds, NtFresh, NtOld
      <3>10. ASSUME NEW s \in Req, NtAsked(s)' PROVE NtChanging(s)'
        <4>1. NtChanging(s) /\ s # t /\ NtAsked(s) /\ s6'[s] = s6[s] /\ NtTakes(s)' = NtTakes(s)
          BY <1>1, <1>5, <1>7, <3>10 DEF NtListed
        <4>2. \A m \in NtTakes(s)' : s1'[m] \in {"unread", "gone"} /\ m \notin s2' /\ m \notin NtFresh(s3)'
          BY <1>1, <1>6, <3>3, <4>1 DEF NtChanging, NtTakes, NtFresh
        <4>3. s6'[s].op = "remove" => \A m \in (NtOld(s6[s].prev) \cap {s6[s].n})' : NtWarranted(m)'
          BY <3>2, <3>8, <3>10, <4>1 DEF NtChanging, NtOld
        <4>4. NtOnce(s6[s].prev)' /\ \A r \in Req : NtAsked(r)' /\ r # s => (NtTakes(r) \cap NtTakes(s))' = {}
          BY <1>5, <4>1 DEF NtChanging, NtOnce
        <4>5. s6'[s].op = "remove" => \A r \in Req : NtAsked(r)' /\ r # s /\ s6'[r].op = "remove"
                                          => s6'[r].n # s6'[s].n
          BY <1>1, <1>5, <4>1 DEF NtChanging
        <4>6. s6'[s].op = "remove" => s6'[s].n \in NtIds(s6[s].prev)' /\ s6'[s].n \notin NtIds(s3)'
                                          /\ s6'[s].n \in NtExist'
          BY <1>6, <3>2, <3>4, <3>10, <4>1 DEF NtChanging, NtIds, NtFresh, NtOld
        <4> QED
          BY <1>1, <4>1, <4>2, <4>3, <4>4, <4>5, <4>6 DEF NtChanging
      <3> QED
        BY <1>1, <1>6, <1>7, <2>4, <3>7, <3>9, <3>10 DEF NtListed
    <2> QED
      BY <1>2, <2>2, <2>3, <2>4
  <1> QED
    BY <1>1, <1>4, <1>6, <1>7 DEF NtGood

\* A list put back shows again what its change had taken.
LEMMA NtShownBack ==
  ASSUME NEW list \in Seq(NtItems), NtOnce(list), NEW n \in Nt!Notice, NEW op \in {"read", "readAll", "remove"},
         NEW shown, shown = Nt!Shown(list, op, n), NEW T,
         T = IF op = "readAll" THEN NtFresh(list) ELSE NtFresh(list) \cap {n},
         op = "read" => n \in T, op = "remove" => n \in NtIds(list)
  PROVE  /\ NtFresh(list) = NtFresh(shown) \cup T
         /\ NtIds(list) = IF op = "remove" THEN NtIds(shown) \cup {n} ELSE NtIds(shown)
         /\ \A m \in NtOld(list) : m \in NtOld(shown) \/ (op = "remove" /\ m = n)
         /\ NtOld(list) \cap T = {}
  <1>1. NtFresh(list) \cap NtOld(list) = {}
    BY NtFlags
  <1>2. CASE op = "read"
    <2>1. /\ NtIds(shown) = NtIds(list) /\ NtFresh(shown) = NtFresh(list) \ {n}
          /\ NtOld(shown) = NtOld(list) \cup (NtIds(list) \cap {n})
      BY <1>2, NtShownRead
    <2> QED
      BY <1>1, <1>2, <2>1
  <1>3. CASE op = "readAll"
    <2>1. NtIds(shown) = NtIds(list) /\ NtFresh(shown) = {}
      BY <1>3, NtShownReadAll
    <2>2. NtOld(shown) = NtIds(list)
      BY <2>1 DEF NtIds
    <2> QED
      BY <1>1, <1>3, <2>1, <2>2 DEF NtIds
  <1>4. CASE op = "remove"
    <2>1. NtFresh(shown) = NtFresh(list) \ {n} /\ NtOld(shown) = NtOld(list) \ {n}
      BY <1>4, NtShownRemove
    <2> QED
      BY <1>1, <1>4, <2>1 DEF NtIds
  <1> QED
    BY <1>2, <1>3, <1>4

LEMMA NtRefusedGood ==
  ASSUME NtTypes, NtGood, NEW t \in Req, Nt!Refused(t), ~s8'
  PROVE  NtGood'
  <1>1. /\ UNCHANGED <<s1, s2, s4, s5, s7>> /\ s6[t] # Nt!Idle /\ s6[t].pc = "asked"
        /\ s3' = s6[t].prev /\ s3 = Nt!Shown(s6[t].prev, s6[t].op, s6[t].n)
        /\ s6'[t] = Nt!Idle /\ \A s \in Req \ {t} : s6'[s] = s6[s]
    <2>1. s6[t] # Nt!Idle /\ s6[t].pc # "done"
      BY DEF Nt!Refused
    <2> QED
      BY <2>1, NtKinds DEF Nt!Refused, Nt!Restored, NtTypes
  <1>2. PICK op \in {"read", "readAll", "remove"}, n \in Nt!Notice, prev \in Seq(NtItems) :
          op = s6[t].op /\ n = s6[t].n /\ prev = s6[t].prev
    BY <1>1, NtKinds
  <1>3. s4.pc # "answered" /\ NtAsked(t)
    BY <1>1 DEF NtGood, NtAnswered, NtAsked
  <1>4. /\ ~NtAsked(t)'
        /\ \A s \in Req \ {t} : NtAsked(s)' = NtAsked(s) /\ NtTakes(s)' = NtTakes(s)
    BY <1>1 DEF NtAsked, NtTakes, NtFresh
  <1>5. NtFirst' = NtFirst /\ NtExist' = NtExist
    BY <1>1 DEF NtFirst, NtExist
  <1>6. ASSUME NtListed PROVE NtListed'
    <2>1. NtChanging(t)
      BY <1>3, <1>6 DEF NtListed
    <2>2. PICK T : T = IF op = "readAll" THEN NtFresh(prev) ELSE NtFresh(prev) \cap {n}
      OBVIOUS
    <2>3. NtTakes(t) = T
      BY <1>2, <2>2 DEF NtTakes
    <2>4. /\ NtOnce(prev) /\ (op = "read" => n \in T)
          /\ op = "remove" => /\ n \in NtIds(prev) /\ n \notin s2 /\ n \notin NtIds(s3) /\ n \in NtExist
                              /\ \A m \in NtOld(prev) \cap {n} : NtWarranted(m)
          /\ \A m \in T : s1[m] \in {"unread", "gone"} /\ m \notin s2 /\ m \notin NtFresh(s3)
          /\ \A s \in Req : NtAsked(s) /\ s # t => NtTakes(s) \cap T = {}
          /\ op = "remove" => \A s \in Req : NtAsked(s) /\ s # t /\ s6[s].op = "remove" => s6[s].n # n
      BY <1>2, <2>1, <2>3 DEF NtChanging
    <2>5. /\ NtFresh(prev) = NtFresh(s3) \cup T
          /\ NtIds(prev) = IF op = "remove" THEN NtIds(s3) \cup {n} ELSE NtIds(s3)
          /\ \A m \in NtOld(prev) : m \in NtOld(s3) \/ (op = "remove" /\ m = n)
          /\ NtOld(prev) \cap T = {}
      <3>1. s3 = Nt!Shown(prev, op, n) /\ NtOnce(prev) /\ (op = "read" => n \in T) /\ (op = "remove" => n \in NtIds(prev))
        BY <1>1, <1>2, <2>4
      <3> HIDE <1>1, <1>2, <2>4
      <3>2. PICK shown : shown = s3 /\ shown = Nt!Shown(prev, op, n)
        BY <3>1
      <3>3. NtOnce(prev) /\ (op = "read" => n \in T) /\ (op = "remove" => n \in NtIds(prev))
        BY <3>1
      <3>4. /\ NtFresh(prev) = NtFresh(shown) \cup T
            /\ NtIds(prev) = IF op = "remove" THEN NtIds(shown) \cup {n} ELSE NtIds(shown)
            /\ \A m \in NtOld(prev) : m \in NtOld(shown) \/ (op = "remove" /\ m = n)
            /\ NtOld(prev) \cap T = {}
        BY <2>2, <3>2, <3>3, NtShownBack
      <3> QED
        BY <3>2, <3>4
    <2>6. NtFresh(s3)' = NtFresh(prev) /\ NtIds(s3)' = NtIds(prev) /\ NtOld(s3)' = NtOld(prev) /\ NtOnce(s3)'
      BY <1>1, <1>2, <2>4 DEF NtFresh, NtIds, NtOld, NtOnce
    <2>7. NtRemoved = NtRemoved' \cup (IF op = "remove" THEN {n} ELSE {})
      <3>1. ASSUME NEW m \in Nt!Notice, m \in NtRemoved PROVE m \in NtRemoved' \/ (op = "remove" /\ m = n)
        <4>1. PICK s \in Req : NtAsked(s) /\ s6[s].op = "remove" /\ s6[s].n = m
          BY <3>1 DEF NtRemoved
        <4> QED
          BY <1>1, <1>2, <1>4, <4>1 DEF NtRemoved
      <3>2. ASSUME NEW m \in Nt!Notice, m \in NtRemoved' PROVE m \in NtRemoved
        <4>1. PICK s \in Req : NtAsked(s)' /\ s6'[s].op = "remove" /\ s6'[s].n = m
          BY <3>2 DEF NtRemoved
        <4>2. s # t /\ s6'[s] = s6[s] /\ NtAsked(s)
          BY <1>1, <1>4, <4>1
        <4> QED
          BY <4>1, <4>2 DEF NtRemoved
      <3>3. op = "remove" => n \in NtRemoved
        BY <1>2, <1>3 DEF NtRemoved
      <3>4. NtRemoved' \subseteq Nt!Notice /\ NtRemoved \subseteq Nt!Notice
        BY DEF NtRemoved
      <3> QED
        BY <3>1, <3>2, <3>3, <3>4
    <2>8. NtSeen' = NtSeen /\ (NtIds(s3) \cup NtRemoved)' = NtIds(s3) \cup NtRemoved
      BY <1>1, <2>5, <2>6, <2>7 DEF NtSeen
    <2>9. \A m : NtWarranted(m) /\ (op = "remove" \/ m \notin T) => NtWarranted(m)'
      <3> SUFFICES ASSUME NEW m, NtWarranted(m), op = "remove" \/ m \notin T PROVE NtWarranted(m)'
        OBVIOUS
      <3>1. CASE s1[m] = "read"
        BY <1>1, <3>1 DEF NtWarranted
      <3>2. CASE \E s \in Req : NtAsked(s) /\ s6[s].op # "remove" /\ m \in NtTakes(s)
        <4>1. PICK s \in Req : NtAsked(s) /\ s6[s].op # "remove" /\ m \in NtTakes(s)
          BY <3>2
        <4>2. s # t
          BY <1>2, <2>3, <4>1
        <4>3. NtAsked(s)' /\ s6'[s].op # "remove" /\ m \in NtTakes(s)'
          BY <1>1, <1>4, <4>1, <4>2
        <4> QED
          BY <4>3 DEF NtWarranted
      <3> QED
        BY <3>1, <3>2 DEF NtWarranted
    <2>10. /\ NtIds(s3)' \subseteq NtExist' /\ NtIds(s3)' \cap s2' = {}
           /\ \A m \in NtFresh(s3)' : s1'[m] = "unread"
      <3>1. NtIds(prev) \subseteq NtExist /\ NtIds(prev) \cap s2 = {}
        BY <1>6, <2>4, <2>5 DEF NtListed
      <3>2. \A m \in NtFresh(prev) : m \in NtExist
        BY <3>1 DEF NtIds
      <3>3. \A m \in NtFresh(prev) : s1[m] = "unread"
        BY <1>6, <2>4, <2>5, <3>2 DEF NtListed, NtExist
      <3> QED
        BY <1>1, <1>5, <2>6, <3>1, <3>3
    <2>11. \A m \in NtOld(s3)' : NtWarranted(m)'
      BY <1>6, <2>4, <2>5, <2>6, <2>9 DEF NtListed
    <2>12. NtNewest(NtSeen)' /\ (~s5.has' => NtExist' \subseteq NtSeen')
      BY <1>1, <1>5, <1>6, <2>8 DEF NtListed, NtNewest
    <2>13. s5.has' /\ ~s7' => Cardinality((NtIds(s3) \cup NtRemoved)') = s5.page' * PageSize
      BY <1>1, <1>6, <2>8 DEF NtListed
    <2>14. ASSUME NEW s \in Req, NtAsked(s)' PROVE NtChanging(s)'
      <3>1. s # t /\ s6'[s] = s6[s] /\ NtAsked(s) /\ NtTakes(s)' = NtTakes(s)
        BY <1>1, <1>4, <2>14
      <3>c. NtChanging(s)
        BY <1>6, <3>1 DEF NtListed
      <3>2. NtOnce(s6[s].prev)' /\ \A r \in Req : NtAsked(r)' /\ r # s => (NtTakes(r) \cap NtTakes(s))' = {}
        BY <1>4, <3>1, <3>c DEF NtChanging, NtOnce
      <3>3. \A m \in NtTakes(s)' : s1'[m] \in {"unread", "gone"} /\ m \notin s2' /\ m \notin NtFresh(s3)'
        BY <1>1, <2>4, <2>5, <2>6, <3>1, <3>c DEF NtChanging
      <3>4. s6'[s].op = "read" => s6'[s].n \in NtTakes(s)'
        BY <3>1, <3>c DEF NtChanging
      <3>5. s6'[s].op = "remove" =>
              /\ s6'[s].n \in NtIds(s6[s].prev)' /\ s6'[s].n \notin s2'
              /\ s6'[s].n \notin NtIds(s3)'
              /\ s6'[s].n \in NtExist'
        <4>1. s6[s].op = "remove" => s6[s].n \notin NtIds(prev)
          BY <2>4, <2>5, <3>1, <3>c DEF NtChanging
        <4>2. NtIds(s6[s].prev)' = NtIds(s6[s].prev) /\ s2' = s2 /\ NtExist' = NtExist
          BY <1>1, <1>5, <3>1 DEF NtIds, NtFresh, NtOld
        <4> QED
          BY <2>6, <3>1, <3>c, <4>1, <4>2 DEF NtChanging
      <3>6. s6'[s].op = "remove" => \A m \in (NtOld(s6[s].prev) \cap {s6[s].n})' : NtWarranted(m)'
        <4>1. ASSUME s6[s].op = "remove", op # "remove" PROVE s6[s].n \notin T
          <5>1. s6[s].n \notin NtIds(prev)
            BY <2>5, <3>c, <4>1 DEF NtChanging
          <5> QED
            BY <2>2, <5>1 DEF NtIds
        <4> QED
          BY <2>9, <3>1, <3>c, <4>1 DEF NtChanging, NtOld
      <3>7. s6'[s].op = "remove" => \A r \in Req : NtAsked(r)' /\ r # s /\ s6'[r].op = "remove"
                                          => s6'[r].n # s6'[s].n
        BY <1>1, <1>4, <3>1, <3>c DEF NtChanging
      <3> QED
        BY <3>2, <3>3, <3>4, <3>5, <3>6, <3>7 DEF NtChanging
    <2> QED
      BY <2>6, <2>10, <2>11, <2>12, <2>13, <2>14 DEF NtListed
  <1> QED
    BY <1>1, <1>3, <1>5, <1>6 DEF NtGood

-----------------------------------------------------------------------------
LEMMA NtInitInv ==
  ASSUME Nt!Init
  PROVE  NtInv
  <1>1. Nt!Load(1) \in NtPage /\ Nt!Load(1).pc = "asked" /\ Nt!Load(1).page = 1 /\ Nt!Load(1) # Nt!NoLoad
    BY DEF Nt!Load, NtPage, Nt!NoLoad
  <1>2. NtTypes
    <2>1. <<>> \in Seq(NtItems) /\ [page |-> 1, has |-> FALSE] \in [page : Nat \ {0}, has : BOOLEAN]
      OBVIOUS
    <2>2. s1 \in [Nt!Notice -> {"none", "unread", "read", "gone"}] /\ s6 \in [Req -> {Nt!Idle} \cup NtChanges]
      BY DEF Nt!Init
    <2> QED
      BY <1>1, <2>1, <2>2 DEF Nt!Init, NtTypes
  <1>3. NtIds(s3) = {} /\ NtKnown = {}
    BY DEF Nt!Init, NtIds, NtFresh, NtOld, NtKnown
  <1>4. NtMet
    BY <1>1, <1>3 DEF Nt!Init, NtMet
  <1>5. NtGood
    BY <1>1 DEF Nt!Init, NtGood, NtFirst
  <1> QED
    BY <1>2, <1>4, <1>5 DEF NtInv

LEMMA NtNextInv ==
  ASSUME NtInv, [Nt!Next]_(Nt!vars)
  PROVE  NtInv'
  <1> USE DEF Nt!page
  <1>1. NtTypes' /\ NtMet'
    BY NtTypesNext, NtMetNext DEF NtInv
  <1> SUFFICES ASSUME ~s8' PROVE NtGood'
    BY <1>1 DEF NtInv
  <1>2. NtTypes /\ NtMet
    BY DEF NtInv
  <1>3. ~s8 => NtGood
    BY DEF NtInv
  <1>4. ASSUME NEW n \in Nt!Notice, Nt!Create(n) PROVE NtGood'
    BY <1>2, <1>3, <1>4, NtCreateGood DEF Nt!Create
  <1>5. ASSUME NEW n \in Nt!Notice, Nt!Told(n) PROVE NtGood'
    BY <1>2, <1>3, <1>5, NtToldGood DEF Nt!Told
  <1>6. ASSUME NEW n \in Nt!Notice, Nt!Lost(n) PROVE NtGood'
    BY <1>6 DEF Nt!Lost
  <1>7. CASE Nt!ReadElsewhere
    BY <1>7 DEF Nt!ReadElsewhere
  <1>8. CASE Nt!LoadMore
    BY <1>2, <1>3, <1>8, NtLoadMoreGood DEF Nt!LoadMore
  <1>9. CASE Nt!ReadPage
    BY <1>2, <1>3, <1>9, NtReadPageGood DEF Nt!ReadPage
  <1>10. CASE Nt!Loaded
    BY <1>2, <1>3, <1>10, NtLoadedGood DEF Nt!Loaded
  <1>11. CASE Nt!LoadFailed
    BY <1>2, <1>3, <1>11, NtLoadFailedGood DEF Nt!LoadFailed
  <1>12. ASSUME NEW t \in Req, NEW n \in Nt!Notice, NEW op \in {"read", "readAll", "remove"}, Nt!Ask(t, op, n)
         PROVE NtGood'
    BY <1>2, <1>3, <1>12, NtAskGood DEF Nt!Ask
  <1>13. ASSUME NEW t \in Req, Nt!Serve(t) PROVE NtGood'
    BY <1>2, <1>3, <1>13, NtServeGood DEF Nt!Serve
  <1>14. ASSUME NEW t \in Req, Nt!Done(t) PROVE NtGood'
    BY <1>2, <1>3, <1>14, NtDoneGood DEF Nt!Done
  <1>15. ASSUME NEW t \in Req, Nt!Refused(t) PROVE NtGood'
    BY <1>2, <1>3, <1>15, NtRefusedGood DEF Nt!Refused
  <1>16. CASE UNCHANGED Nt!vars
    <2>1. NtGood /\ UNCHANGED <<s1, s2, s3, s4, s5, s6, s7>>
      BY <1>3, <1>16 DEF Nt!vars
    <2>2. NtFirst' = NtFirst
      BY <2>1 DEF NtFirst
    <2>3. ~NtFirst => NtListed'
      BY <2>1, NtStillListed DEF NtGood
    <2>4. NtAnswered => NtAnswered'
      BY <2>1, <2>2 DEF NtAnswered, NtOnce, NtIds, NtFresh, NtOld, NtBefore, NtExist,
         NtNewest
    <2> QED
      BY <2>1, <2>2, <2>3, <2>4 DEF NtGood
  <1> QED
    BY <1>4, <1>5, <1>6, <1>7, <1>8, <1>9, <1>10, <1>11, <1>12, <1>13, <1>14, <1>15, <1>16
       DEF Nt!Next

LEMMA NtMeans ==
  ASSUME NtInv
  PROVE  Nt!TypeOK /\ Nt!ListTrue
  <1>1. NtTypes
    BY DEF NtInv
  <1>2. Nt!TypeOK
    <2>1. \A i \in DOMAIN s3 : s3[i].id \in Nt!Notice /\ s3[i].read \in BOOLEAN
      BY <1>1, NtFlags DEF NtTypes
    <2>2. /\ s4.pc \in {"idle", "asked", "answered"} /\ s5.has \in BOOLEAN
          /\ \A t \in Req : s6[t].op \in {"idle", "read", "readAll", "remove"}
      BY <1>1, NtKinds
    <2> QED
      BY <1>1, <2>1, <2>2 DEF NtTypes, Nt!TypeOK
  <1>3. ASSUME Nt!Quiet, ~s8
        PROVE  /\ Len(s3) <= Len(Nt!Rows) /\ (~s5.has => Len(s3) = Len(Nt!Rows))
               /\ {s3[i] : i \in DOMAIN s3} =
                    {Nt!Item(Nt!Rows[i], s1[Nt!Rows[i]] = "read") : i \in 1 .. Len(s3)}
    <2>1. NtListed /\ \A t \in Req : ~NtAsked(t)
      BY <1>3 DEF NtInv, NtGood, NtFirst, Nt!Quiet, NtAsked
    <2>2. NtSeen = NtIds(s3)
      BY <1>3, <2>1 DEF Nt!Quiet, NtSeen, NtRemoved
    <2>3. /\ DOMAIN s3 = 1..Len(s3) /\ Len(s3) \in Nat
          /\ \A i \in DOMAIN s3 : /\ s3[i].id \in Nt!Notice /\ s3[i].read \in BOOLEAN
                                  /\ s3[i] = Nt!Item(s3[i].id, s3[i].read)
                                  /\ s3[i].id \in NtIds(s3)
          /\ \A n \in NtIds(s3) : \E i \in DOMAIN s3 : s3[i].id = n
      BY <1>1, NtFlags DEF NtTypes
    <2>4. Cardinality(NtIds(s3)) = Len(s3)
      BY <1>1, <2>1, NtSized DEF NtListed, NtTypes
    <2>5. NtIds(s3) \in SUBSET NtExist /\ NtNewest(NtIds(s3))
      BY <2>1, <2>2 DEF NtListed
    <2>6. Len(s3) <= Len(Nt!Rows) /\ NtIds(s3) = {Nt!Rows[i] : i \in 1..Len(s3)}
      BY <2>4, <2>5, NtFirstRows
    <2>7. ~s5.has => Len(s3) = Len(Nt!Rows)
      <3>1. ~s5.has => NtIds(s3) = NtExist
        BY <2>1, <2>2, <2>5 DEF NtListed
      <3> QED
        BY <2>4, <3>1, NtRowsOrdered
    <2>8. \A i \in DOMAIN s3 : s3[i].read = (s1[s3[i].id] = "read")
      <3> TAKE i \in DOMAIN s3
      <3>1. CASE s3[i].read
        <4>1. s3[i].id \in NtOld(s3)
          BY <2>3, <3>1 DEF NtOld
        <4>2. s1[s3[i].id] = "read"
          BY <2>1, <4>1 DEF NtListed, NtWarranted
        <4> QED
          BY <2>3, <3>1, <4>2
      <3>2. CASE ~s3[i].read
        <4>1. s3[i].id \in NtFresh(s3)
          BY <2>3, <3>2 DEF NtFresh
        <4>2. s1[s3[i].id] = "unread"
          BY <2>1, <4>1 DEF NtListed
        <4> QED
          BY <2>3, <3>2, <4>2
      <3> QED
        BY <3>1, <3>2
    <2>9. \A i \in DOMAIN s3 : s3[i] = Nt!Item(s3[i].id, s1[s3[i].id] = "read")
      BY <2>3, <2>8
    <2>10. \A i \in DOMAIN s3 : \E j \in 1..Len(s3) : s3[i].id = Nt!Rows[j]
      BY <2>3, <2>6
    <2>11. \A j \in 1..Len(s3) : \E i \in DOMAIN s3 : s3[i].id = Nt!Rows[j]
      BY <2>3, <2>6
    <2>12. {s3[i] : i \in DOMAIN s3} =
             {Nt!Item(Nt!Rows[i], s1[Nt!Rows[i]] = "read") : i \in 1 .. Len(s3)}
      <3>1. ASSUME NEW i \in DOMAIN s3
            PROVE  \E j \in 1..Len(s3) : s3[i] = Nt!Item(Nt!Rows[j], s1[Nt!Rows[j]] = "read")
        BY <2>9, <2>10
      <3>2. ASSUME NEW j \in 1..Len(s3)
            PROVE  \E i \in DOMAIN s3 : s3[i] = Nt!Item(Nt!Rows[j], s1[Nt!Rows[j]] = "read")
        BY <2>9, <2>11
      <3> QED
        BY <3>1, <3>2
    <2> QED
      BY <2>6, <2>7, <2>12
  <1> QED
    BY <1>2, <1>3 DEF Nt!ListTrue

-----------------------------------------------------------------------------
(* Reactions: what is shown is what is stored, or an event of it is on its *)
(* way.                                                                    *)

RxMarks == [reacts : SUBSET {"me", "other"}, pinned : BOOLEAN]
RxRequests ==
  {Rx!Idle} \cup [pc : {"asked"}, op : Rx!Ops, by : {"me", "other"}, wrote : {0}]
         \cup [pc : {"written"}, op : {"react", "unreact"}, by : {"me", "other"}, wrote : Nat]
         \cup [pc : {"answered"}, op : {"pin", "unpin"}, by : {"me", "other"}, wrote : Nat]
         \cup [pc : {"copied", "answered"}, op : Rx!Told, by : {"me", "other"}, wrote : Nat, copy : RxMarks, at : Nat]
RxTypes ==
  /\ s1 \in RxMarks /\ s2 \in 0..MaxWrites /\ s4 \in 0..s2
  /\ s3 \in [count : Nat, mine : BOOLEAN, pinned : BOOLEAN]
  /\ s5 \in [Req -> RxRequests] /\ s6 \in Seq([copy : RxMarks, at : Nat])
  /\ s7 \in BOOLEAN

\* A request that is to send a copy, a pin that is to be shown, and what is to replace
\* all that is shown.
RxSending(t) == s5[t].pc \in {"written", "copied"}
RxPinning(t) == s5[t].pc = "answered" /\ s5[t].op \notin Rx!Told
RxCarried == s6 # <<>> \/ \E t \in Req : RxSending(t)

\* The page has seen a later write, or will be sent one.
RxNewer(at) ==
  \/ s4 > at
  \/ \E t \in Req : RxSending(t) /\ s5[t].wrote > at
  \/ \E i \in DOMAIN s6 : s6[i].at > at

\* A copy is of what was stored at its write, and has the reactions unless a newer one
\* is to come.
RxFaithful(copy, at) ==
  /\ at \in 1..s2
  /\ at = s2 => copy = s1
  /\ copy.reacts = s1.reacts \/ RxNewer(at)

\* What holds of a request under way.
RxSound(t) ==
  /\ RxSending(t) \/ s5[t].pc = "answered" => s5[t].wrote \in 1..s2
  /\ s5[t].pc \in {"copied", "answered"} /\ s5[t].op \in Rx!Told =>
       /\ s5[t].wrote <= s5[t].at
       /\ s5[t].op = "edit" => s5[t].at = s5[t].wrote
       /\ s5[t].pc = "copied" \/ s5[t].op = "edit" => RxFaithful(s5[t].copy, s5[t].at)
  /\ s5[t].pc = "answered" /\ s5[t].op \in Rx!Told =>
       s5[t].wrote <= s4 \/ \E i \in DOMAIN s6 : s6[i].at >= s5[t].wrote
  /\ RxPinning(t) /\ s5[t].wrote = s2 => (s1.pinned <=> s5[t].op = "pin")

\* The last write, if the page has not seen it, is on its way.
RxUnseen ==
  \/ \E t \in Req : (RxSending(t) \/ RxPinning(t)) /\ s5[t].wrote >= s2
  \/ \E i \in DOMAIN s6 : s6[i].at >= s2

RxReacts == s3.count = Cardinality(s1.reacts) /\ (s3.mine <=> "me" \in s1.reacts)

RxCopies == \A i \in DOMAIN s6 : RxFaithful(s6[i].copy, s6[i].at)

RxInv ==
  /\ RxTypes
  /\ \A t \in Req : RxSound(t)
  /\ RxCopies
  /\ s4 < s2 => RxUnseen
  /\ ~s7 => RxCarried \/ RxReacts
  /\ ~s7 /\ s4 = s2 => RxCarried \/ s3 = Rx!Face(s1)

LEMMA RxMeans == ASSUME RxInv PROVE Rx!TypeOK /\ Rx!MarksTrue
  <1>1. \A t \in Req : s5[t].pc \in {"idle", "asked", "written", "copied", "answered"}
    <2>1. \A r \in RxRequests : r.pc \in {"idle", "asked", "written", "copied", "answered"}
      BY DEF RxRequests, Rx!Idle
    <2> QED
      BY <2>1 DEF RxInv, RxTypes
  <1>2. Rx!TypeOK
    BY <1>1 DEF RxInv, RxTypes, Rx!TypeOK, RxMarks
  <1>3. ASSUME Rx!Quiet, ~s7 PROVE s3 = Rx!Face(s1)
    <2>1. s6 = <<>> /\ \A t \in Req : ~RxSending(t) /\ ~RxPinning(t)
      BY <1>3 DEF Rx!Quiet, Rx!Idle, RxSending, RxPinning
    <2>2. ~RxCarried /\ ~RxUnseen
      BY <2>1 DEF RxCarried, RxUnseen
    <2>3. s4 = s2
      BY <2>2 DEF RxInv, RxTypes
    <2> QED
      BY <1>3, <2>2, <2>3 DEF RxInv
  <1> QED
    BY <1>2, <1>3 DEF Rx!MarksTrue

\* A face is of the reactions and of the pin.
LEMMA RxFaces ==
  ASSUME NEW m \in RxMarks
  PROVE  /\ Rx!Face(m) \in [count : Nat, mine : BOOLEAN, pinned : BOOLEAN]
         /\ Rx!Face(m).count = Cardinality(m.reacts) /\ (Rx!Face(m).mine <=> "me" \in m.reacts)
         /\ \A f \in [count : Nat, mine : BOOLEAN, pinned : BOOLEAN] :
              /\ f.count = Cardinality(m.reacts) /\ (f.mine <=> "me" \in m.reacts)
              /\ f.pinned <=> m.pinned
              => f = Rx!Face(m)
  <1>1. m.reacts \in SUBSET {"me", "other"} /\ m.pinned \in BOOLEAN
    BY DEF RxMarks
  <1>2. Cardinality(m.reacts) \in Nat
    BY <1>1, RxFinite, FS_Subset, FS_CardinalityType
  <1>3. /\ Rx!Face(m) \in [count : Nat, mine : BOOLEAN, pinned : BOOLEAN]
        /\ Rx!Face(m).count = Cardinality(m.reacts) /\ (Rx!Face(m).mine <=> "me" \in m.reacts)
    <2>1. /\ Rx!Face(m).count = Cardinality(m.reacts) /\ Rx!Face(m).mine = ("me" \in m.reacts)
          /\ Rx!Face(m).pinned = m.pinned
      BY SameScreen DEF Rx!Face
    <2>2. Rx!Face(m) = [count |-> Rx!Face(m).count, mine |-> Rx!Face(m).mine, pinned |-> Rx!Face(m).pinned]
      BY SameScreen DEF Rx!Face
    <2>3. Rx!Face(m).mine \in BOOLEAN
      BY <2>1
    <2>4. Rx!Face(m) \in [count : Nat, mine : BOOLEAN, pinned : BOOLEAN]
      BY <1>1, <1>2, <2>1, <2>2, <2>3
    <2> QED
      BY <2>1, <2>4
  <1>4. ASSUME NEW f \in [count : Nat, mine : BOOLEAN, pinned : BOOLEAN],
               f.count = Cardinality(m.reacts), f.mine <=> "me" \in m.reacts, f.pinned <=> m.pinned
        PROVE  f = Rx!Face(m)
    <2>1. f = [count |-> f.count, mine |-> f.mine, pinned |-> f.pinned]
          /\ f.mine \in BOOLEAN /\ f.pinned \in BOOLEAN
      OBVIOUS
    <2>2. f.mine = ("me" \in m.reacts) /\ f.pinned = m.pinned
      BY <1>1, <1>4, <2>1
    <2> QED
      BY <1>4, <2>1, <2>2, SameScreen DEF Rx!Face
  <1> QED
    BY <1>3, <1>4

\* What a record of a request has.
LEMMA RxAsking ==
  ASSUME NEW r \in RxRequests
  PROVE  /\ r = Rx!Idle <=> r.pc = "idle"
         /\ r.pc \in {"idle", "asked", "written", "copied", "answered"}
         /\ r.pc = "asked" => r.op \in Rx!Ops /\ r.by \in {"me", "other"} /\ r.wrote = 0
                              /\ r = [pc |-> "asked", op |-> r.op, by |-> r.by, wrote |-> 0]
         /\ r.pc = "written" => /\ r.op \in {"react", "unreact"} /\ r.by \in {"me", "other"} /\ r.wrote \in Nat
                                /\ r = [pc |-> "written", op |-> r.op, by |-> r.by, wrote |-> r.wrote]
         /\ r.pc = "copied" => r.op \in Rx!Told /\ r.by \in {"me", "other"}
         /\ r.pc \in {"copied", "answered"} /\ r.op \in Rx!Told =>
              /\ r.wrote \in Nat /\ r.copy \in RxMarks /\ r.at \in Nat
              /\ r.by \in {"me", "other"}
              /\ r = [pc |-> r.pc, op |-> r.op, by |-> r.by, wrote |-> r.wrote, copy |-> r.copy, at |-> r.at]
         /\ r.pc = "answered" => r.wrote \in Nat /\ r.op \in Rx!Ops
  <1>1. CASE r = Rx!Idle
    BY <1>1 DEF Rx!Idle
  <1>2. CASE r \in [pc : {"asked"}, op : Rx!Ops, by : {"me", "other"}, wrote : {0}]
    BY <1>2 DEF Rx!Idle
  <1>3. CASE r \in [pc : {"written"}, op : {"react", "unreact"}, by : {"me", "other"}, wrote : Nat]
    BY <1>3 DEF Rx!Idle
  <1>4. CASE r \in [pc : {"answered"}, op : {"pin", "unpin"}, by : {"me", "other"}, wrote : Nat]
    BY <1>4 DEF Rx!Idle, Rx!Told, Rx!Ops
  <1>5. CASE r \in [pc : {"copied", "answered"}, op : Rx!Told, by : {"me", "other"}, wrote : Nat, copy : RxMarks, at : Nat]
    BY <1>5 DEF Rx!Idle, Rx!Ops
  <1> QED
    BY <1>1, <1>2, <1>3, <1>4, <1>5 DEF RxRequests

\* A step that writes nothing leaves what holds as it was, provided the page has or
\* will have what goes.
LEMMA RxStays ==
  ASSUME RxTypes, RxTypes', s1' = s1, s2' = s2, s4' >= s4,
         \A i \in DOMAIN s6 : \/ s6[i].at <= s4'
                              \/ \E j \in DOMAIN s6' : s6'[j].at >= s6[i].at,
         \A t \in Req : RxSending(t) =>
           \/ RxSending(t)' /\ s5'[t].wrote = s5[t].wrote
           \/ s5[t].wrote <= s4'
           \/ \E j \in DOMAIN s6' : s6'[j].at >= s5[t].wrote
  PROVE  /\ \A at \in Nat : RxNewer(at) => RxNewer(at)'
         /\ \A copy : \A at \in Nat : RxFaithful(copy, at) => RxFaithful(copy, at)'
         /\ \A t \in Req : RxSound(t) /\ s5'[t] = s5[t] => RxSound(t)'
         /\ /\ s4 < s2 => RxUnseen
            /\ \A t \in Req : RxPinning(t) =>
                 (RxPinning(t)' /\ s5'[t].wrote = s5[t].wrote) \/ s5[t].wrote <= s4'
            => (s4' < s2' => RxUnseen')
         /\ RxCopies /\ (\A j \in DOMAIN s6' : \E i \in DOMAIN s6 : s6'[j] = s6[i])
              => RxCopies'
  <1>0. /\ s4 \in Nat /\ s4' \in Nat /\ s2 \in Nat
        /\ \A i \in DOMAIN s6 : s6[i].at \in Nat
        /\ \A i \in DOMAIN s6' : s6'[i].at \in Nat
    <2>1. s4 \in Nat /\ s4' \in Nat /\ s2 \in Nat
      BY ScreenBounds DEF RxTypes
    <2>2. s6 \in Seq([copy : RxMarks, at : Nat]) /\ s6' \in Seq([copy : RxMarks, at : Nat])
      BY DEF RxTypes
    <2>3. /\ \A i \in DOMAIN s6 : s6[i] \in [copy : RxMarks, at : Nat]
          /\ \A i \in DOMAIN s6' : s6'[i] \in [copy : RxMarks, at : Nat]
      BY <2>2, Within
    <2> QED
      BY <2>1, <2>3
  <1>w. \A t \in Req : RxSending(t) \/ s5[t].pc = "answered" => s5[t].wrote \in Nat
    <2>1. \A t \in Req : s5[t] \in RxRequests
      BY DEF RxTypes
    <2>2. \A t \in Req : s5[t].pc = "copied" => s5[t].op \in Rx!Told
      BY <2>1, RxAsking
    <2> QED
      BY <2>1, <2>2, RxAsking DEF RxSending
  <1>1. ASSUME NEW at \in Nat, RxNewer(at) PROVE RxNewer(at)'
    <2>1. CASE s4 > at
      BY <1>0, <2>1 DEF RxNewer
    <2>2. ASSUME NEW t \in Req, RxSending(t), s5[t].wrote > at PROVE RxNewer(at)'
      BY <1>0, <1>w, <2>2 DEF RxNewer
    <2>3. ASSUME NEW i \in DOMAIN s6, s6[i].at > at PROVE RxNewer(at)'
      BY <1>0, <2>3 DEF RxNewer
    <2> QED
      BY <1>1, <2>1, <2>2, <2>3 DEF RxNewer
  <1>2. ASSUME NEW copy, NEW at \in Nat, RxFaithful(copy, at) PROVE RxFaithful(copy, at)'
    BY <1>1, <1>2 DEF RxFaithful
  <1>3. ASSUME NEW t \in Req, RxSound(t), s5'[t] = s5[t] PROVE RxSound(t)'
    <2>1. s5[t].pc \in {"copied", "answered"} /\ s5[t].op \in Rx!Told => s5[t].at \in Nat
      BY RxAsking DEF RxTypes
    <2>2. /\ RxSending(t)' <=> RxSending(t)
          /\ RxPinning(t)' <=> RxPinning(t)
      BY <1>3 DEF RxSending, RxPinning
    <2>3. s5'[t].pc \in {"copied", "answered"} /\ s5'[t].op \in Rx!Told
          /\ (s5'[t].pc = "copied" \/ s5'[t].op = "edit") => RxFaithful(s5[t].copy, s5[t].at)'
      <3>1. \A q : q = s5[t] => (q.pc \in {"copied", "answered"} /\ q.op \in Rx!Told
                                   /\ (q.pc = "copied" \/ q.op = "edit") => RxFaithful(q.copy, q.at)')
        <4> SUFFICES ASSUME NEW q, q = s5[t], q.pc \in {"copied", "answered"}, q.op \in Rx!Told,
                            q.pc = "copied" \/ q.op = "edit"
                     PROVE  RxFaithful(q.copy, q.at)'
          OBVIOUS
        <4>1. RxFaithful(q.copy, q.at) /\ q.at \in Nat
          BY <1>3, <2>1 DEF RxSound
        <4> QED
          BY <1>2, <4>1
      <3> QED
        BY <1>3, <3>1
    <2>4. s5[t].pc = "answered" /\ s5[t].op \in Rx!Told =>
            s5[t].wrote <= s4' \/ \E i \in DOMAIN s6' : s6'[i].at >= s5[t].wrote
      BY <1>0, <1>w, <1>3 DEF RxSound
    <2> QED
      BY <1>3, <2>2, <2>3, <2>4 DEF RxSound
  <1>4. ASSUME s4 < s2 => RxUnseen, s4' < s2',
               \A t \in Req : RxPinning(t) =>
                 (RxPinning(t)' /\ s5'[t].wrote = s5[t].wrote) \/ s5[t].wrote <= s4'
        PROVE  RxUnseen'
    <2>1. RxUnseen /\ s4' < s2
      BY <1>0, <1>4
    <2>2. ASSUME NEW t \in Req, RxSending(t), s5[t].wrote >= s2 PROVE RxUnseen'
      BY <1>0, <1>w, <2>1, <2>2 DEF RxUnseen
    <2>3. ASSUME NEW t \in Req, RxPinning(t), s5[t].wrote >= s2 PROVE RxUnseen'
      <3>1. s5[t].wrote \in Nat
        BY <1>w, <2>3 DEF RxPinning
      <3> QED
        BY <1>0, <1>4, <2>1, <2>3, <3>1 DEF RxUnseen
    <2>4. ASSUME NEW i \in DOMAIN s6, s6[i].at >= s2 PROVE RxUnseen'
      BY <1>0, <2>1, <2>4 DEF RxUnseen
    <2> QED
      BY <2>1, <2>2, <2>3, <2>4 DEF RxUnseen
  <1>5. ASSUME RxCopies, \A j \in DOMAIN s6' : \E i \in DOMAIN s6 : s6'[j] = s6[i]
        PROVE  RxCopies'
    <2>1. ASSUME NEW e, NEW i \in DOMAIN s6, e = s6[i] PROVE RxFaithful(e.copy, e.at)'
      <3>1. RxFaithful(e.copy, e.at) /\ e.at \in Nat
        BY <1>0, <1>5, <2>1 DEF RxCopies
      <3> QED
        BY <1>2, <3>1
    <2> QED
      BY <1>5, <2>1 DEF RxCopies
  <1> QED
    BY <1>1, <1>2, <1>3, <1>4, <1>5

LEMMA RxKnown ==
  ASSUME RxTypes
  PROVE  /\ s4 \in Nat /\ s2 \in Nat /\ s4 <= s2
         /\ s1 \in RxMarks /\ s3.count \in Nat
         /\ \A i \in DOMAIN s6 : s6[i] \in [copy : RxMarks, at : Nat] /\ s6[i].at \in Nat
         /\ \A t \in Req : s5[t] \in RxRequests
         /\ \A t \in Req : s5[t].pc = "copied" => s5[t].op \in Rx!Told
         /\ \A t \in Req : RxSending(t) \/ s5[t].pc = "answered" =>
              s5[t].wrote \in Nat /\ s5[t].op \in Rx!Ops /\ s5[t] # Rx!Idle
  <1>1. s4 \in Nat /\ s2 \in Nat /\ s4 <= s2
    BY ScreenBounds DEF RxTypes
  <1>2. \A i \in DOMAIN s6 : s6[i] \in [copy : RxMarks, at : Nat]
    <2>1. s6 \in Seq([copy : RxMarks, at : Nat])
      BY DEF RxTypes
    <2> QED
      BY <2>1, Within
  <1>3. \A t \in Req : s5[t] \in RxRequests
    BY DEF RxTypes
  <1>4. \A t \in Req : s5[t].pc = "copied" => s5[t].op \in Rx!Told
    BY <1>3, RxAsking
  <1>5. \A t \in Req : s5[t].pc = "written" => s5[t].op \in Rx!Ops /\ s5[t].wrote \in Nat
    <2>1. {"react", "unreact"} \subseteq Rx!Ops
      BY DEF Rx!Ops, Rx!Told
    <2> QED
      BY <1>3, <2>1, RxAsking
  <1>6. \A t \in Req : s5[t].pc \in {"copied", "answered"} => s5[t].op \in Rx!Ops /\ s5[t].wrote \in Nat
    <2>1. Rx!Told \subseteq Rx!Ops
      BY DEF Rx!Ops
    <2> QED
      BY <1>3, <1>4, <2>1, RxAsking
  <1>7. \A t \in Req : RxSending(t) \/ s5[t].pc = "answered" => s5[t] # Rx!Idle
    BY DEF RxSending, Rx!Idle
  <1>8. s1 \in RxMarks /\ s3.count \in Nat
    BY DEF RxTypes
  <1> QED
    BY <1>1, <1>2, <1>3, <1>4, <1>5, <1>6, <1>7, <1>8 DEF RxSending

LEMMA RxInitInv == ASSUME Rx!Init PROVE RxInv
  <1>1. s1 \in RxMarks /\ s6 \in Seq([copy : RxMarks, at : Nat])
    BY Nothing DEF Rx!Init, RxMarks
  <1>2. s3 \in [count : Nat, mine : BOOLEAN, pinned : BOOLEAN]
    BY <1>1, RxFaces DEF Rx!Init
  <1>3. RxTypes
    <2>1. s5 \in [Req -> RxRequests]
      BY DEF Rx!Init, RxRequests
    <2>2. s2 \in 0..MaxWrites /\ s4 \in 0..s2 /\ s7 \in BOOLEAN
      <3>1. s2 = 0 /\ s4 = 0
        BY DEF Rx!Init
      <3>2. s7 \in BOOLEAN
        BY DEF Rx!Init
      <3> QED
        BY <3>1, <3>2, ScreenBounds
    <2> QED
      BY <1>1, <1>2, <2>1, <2>2 DEF RxTypes
  <1>4. \A t \in Req : s5[t].pc = "idle"
    BY DEF Rx!Init, Rx!Idle
  <1>5. RxReacts
    BY <1>1, RxFaces DEF Rx!Init, RxReacts
  <1>6. \A t \in Req : RxSound(t)
    BY <1>4 DEF RxSound, RxSending, RxPinning
  <1>7. RxCopies
    BY DEF Rx!Init, RxCopies
  <1> QED
    BY <1>3, <1>5, <1>6, <1>7 DEF Rx!Init, RxInv

LEMMA RxAskInv ==
  ASSUME RxInv, NEW t \in Req, NEW u \in {"me", "other"}, NEW op \in Rx!Ops, Rx!Ask(t, u, op)
  PROVE  RxInv'
  <1>0. RxTypes
    BY DEF RxInv
  <1>1. /\ s5[t].pc = "idle" /\ s5'[t].pc = "asked"
        /\ s5'[t] \in RxRequests
        /\ \A s \in Req \ {t} : s5'[s] = s5[s]
        /\ s5' \in [Req -> RxRequests]
    <2>1. s5'[t] = [pc |-> "asked", op |-> op, by |-> u, wrote |-> 0] /\ s5[t] = Rx!Idle
      BY <1>0 DEF Rx!Ask, RxTypes
    <2>2. s5'[t] \in [pc : {"asked"}, op : Rx!Ops, by : {"me", "other"}, wrote : {0}]
      BY <2>1
    <2>3. s5'[t] \in RxRequests
      BY <2>2 DEF RxRequests
    <2>4. s5' \in [Req -> RxRequests]
      BY <1>0, <2>1, <2>3 DEF Rx!Ask, RxTypes
    <2> QED
      BY <1>0, <2>1, <2>3, <2>4 DEF Rx!Ask, RxTypes, Rx!Idle
  <1>2. UNCHANGED <<s1, s2, s3, s4, s6, s7>>
    BY DEF Rx!Ask
  <1>3. RxTypes'
    BY <1>0, <1>1, <1>2 DEF RxTypes
  <1>4. \A s \in Req : /\ RxSending(s) => RxSending(s)' /\ s5'[s].wrote = s5[s].wrote
                       /\ RxPinning(s) => RxPinning(s)' /\ s5'[s].wrote = s5[s].wrote
    BY <1>1 DEF RxSending, RxPinning
  <1>k. /\ s4 \in Nat /\ \A i \in DOMAIN s6 : s6[i].at \in Nat
    BY <1>0, RxKnown
  <1>5. /\ \A copy : \A at \in Nat : RxFaithful(copy, at) => RxFaithful(copy, at)'
        /\ \A s \in Req : s5'[s] = s5[s] => RxSound(s)'
        /\ s4' < s2' => RxUnseen'
        /\ RxCopies'
    <2>1. /\ s4' >= s4
          /\ \A i \in DOMAIN s6 : \E j \in DOMAIN s6' : s6'[j].at >= s6[i].at
      BY <1>2, <1>k
    <2>2. /\ \A s \in Req : RxSound(s)
          /\ s4 < s2 => RxUnseen
          /\ RxCopies
      BY DEF RxInv
    <2>3. \A j \in DOMAIN s6' : \E i \in DOMAIN s6 : s6'[j] = s6[i]
      BY <1>2
    <2> QED
      BY <1>0, <1>2, <1>3, <1>4, <2>1, <2>2, <2>3, RxStays
  <1>6. RxSound(t)'
    BY <1>1 DEF RxSound, RxSending, RxPinning
  <1>8. RxCarried => RxCarried'
    BY <1>2, <1>4 DEF RxCarried
  <1>9. RxReacts' = RxReacts
    BY <1>2 DEF RxReacts
  <1>10. Rx!Face(s1)' = Rx!Face(s1)
    BY <1>2 DEF Rx!Face
  <1> QED
    BY <1>1, <1>2, <1>3, <1>5, <1>6, <1>8, <1>9, <1>10 DEF RxInv

\* A slot that is freed holds what is empty.
LEMMA RxFreed ==
  ASSUME RxTypes, NEW t \in Req, Rx!Free(t)
  PROVE  /\ s5' \in [Req -> RxRequests] /\ s5'[t] = Rx!Idle
         /\ s5'[t].pc = "idle" /\ ~RxSending(t)' /\ ~RxPinning(t)' /\ RxSound(t)'
         /\ \A s \in Req \ {t} : s5'[s] = s5[s]
  <1>1. Rx!Idle \in RxRequests /\ Rx!Idle.pc = "idle"
    BY DEF RxRequests, Rx!Idle
  <1>2. /\ s5' \in [Req -> RxRequests] /\ s5'[t] = Rx!Idle
        /\ \A s \in Req \ {t} : s5'[s] = s5[s]
    BY <1>1 DEF RxTypes, Rx!Free
  <1>3. ~RxSending(t)' /\ ~RxPinning(t)'
    BY <1>1, <1>2 DEF RxSending, RxPinning
  <1> QED
    BY <1>1, <1>2, <1>3 DEF RxSound

LEMMA RxWriteInv == ASSUME RxInv, NEW t \in Req, Rx!Write(t) PROVE RxInv'
  <1>0. RxTypes /\ s5[t] \in RxRequests /\ \A s \in Req : RxSound(s)
    BY DEF RxInv, RxTypes
  <1>k. /\ s4 \in Nat /\ s2 \in Nat /\ s4 <= s2
        /\ s2' = s2 + 1 /\ s2' \in Nat /\ s2' \in 0..MaxWrites /\ s4 \in 0..s2'
    <2>1. s2' = s2 + 1 /\ s2 < MaxWrites
      BY DEF Rx!Write
    <2> QED
      BY <1>0, <2>1, RxKnown, ScreenBounds
  <1>1. /\ s5[t].pc = "asked" /\ s5[t].op \in Rx!Ops /\ s5[t].by \in {"me", "other"}
        /\ s5[t] = [pc |-> "asked", op |-> s5[t].op, by |-> s5[t].by, wrote |-> 0]
    BY <1>0, RxAsking DEF Rx!Write
  <1> DEFINE op == s5[t].op
  <1>2. UNCHANGED <<s3, s4, s6, s7>>
    BY DEF Rx!Write
  <1>3. /\ s1' \in RxMarks
        /\ op \in {"edit", "pin", "unpin"} => s1'.reacts = s1.reacts
        /\ op \in {"pin", "unpin"} => (s1'.pinned <=> op = "pin")
    <2>1. s1' = Rx!Marked(s1, op, s5[t].by) /\ s1 \in RxMarks
      BY <1>0, RxKnown DEF Rx!Write
    <2>2. s1.reacts \in SUBSET {"me", "other"} /\ s1 = [reacts |-> s1.reacts, pinned |-> s1.pinned]
          /\ s1.pinned \in BOOLEAN
      BY <2>1 DEF RxMarks
    <2>3. CASE op = "react"
      <3>1. s1' = [reacts |-> s1.reacts \cup {s5[t].by}, pinned |-> s1.pinned]
        BY <2>1, <2>2, <2>3 DEF Rx!Marked
      <3> QED
        BY <1>1, <2>2, <2>3, <3>1 DEF RxMarks
    <2>4. CASE op = "unreact"
      <3>1. s1' = [reacts |-> s1.reacts \ {s5[t].by}, pinned |-> s1.pinned]
        BY <2>1, <2>2, <2>4 DEF Rx!Marked
      <3> QED
        BY <1>1, <2>2, <2>4, <3>1 DEF RxMarks
    <2>5. CASE op = "edit"
      BY <2>1, <2>5 DEF Rx!Marked
    <2>6. CASE op \in {"pin", "unpin"}
      <3>1. s1' = [reacts |-> s1.reacts, pinned |-> (op = "pin")]
        BY <2>1, <2>2, <2>6 DEF Rx!Marked
      <3>2. s1'.reacts = s1.reacts /\ s1'.pinned = (op = "pin")
        BY <3>1
      <3>3. (op = "pin") \in BOOLEAN
        OBVIOUS
      <3>4. s1' \in RxMarks
        BY <2>2, <3>1, <3>3 DEF RxMarks
      <3> QED
        BY <2>6, <3>2, <3>4
    <2> QED
      BY <1>1, <2>3, <2>4, <2>5, <2>6 DEF Rx!Ops, Rx!Told
  <1>4. /\ s5' \in [Req -> RxRequests]
        /\ \A s \in Req \ {t} : s5'[s] = s5[s]
        /\ s5'[t].wrote = s2' /\ s5'[t].op = op
        /\ op \in {"react", "unreact"} => s5'[t].pc = "written"
        /\ op = "edit" => /\ s5'[t].pc = "copied" /\ s5'[t].at = s2'
                          /\ s5'[t].copy = s1'
        /\ op \in {"pin", "unpin"} => s5'[t].pc = "answered"
    <2>1. Rx!Wrote(t) = [pc |-> "asked", op |-> op, by |-> s5[t].by, wrote |-> s2']
      BY <1>1 DEF Rx!Wrote
    <2>2. \A s \in Req \ {t} : s5'[s] = s5[s]
      BY <1>0 DEF Rx!Write, RxTypes
    <2>w. /\ s5' = [s5 EXCEPT ![t] = s5'[t]]
          /\ s5'[t] = CASE op = "edit" -> Rx!Copied(Rx!Wrote(t), s1', s2')
                          [] op \in {"react", "unreact"} -> [Rx!Wrote(t) EXCEPT !.pc = "written"]
                          [] OTHER -> [Rx!Wrote(t) EXCEPT !.pc = "answered"]
      BY <1>0 DEF Rx!Write, RxTypes
    <2>3. CASE op \in {"react", "unreact"}
      <3>1. s5'[t] = [pc |-> "written", op |-> op, by |-> s5[t].by, wrote |-> s2']
        <4>1. s5'[t] = [Rx!Wrote(t) EXCEPT !.pc = "written"]
          BY <2>3, <2>w
        <4> QED
          BY <2>1, <4>1
      <3>2. s5'[t] \in RxRequests
        BY <1>1, <1>k, <2>3, <3>1 DEF RxRequests
      <3>3. s5' \in [Req -> RxRequests]
        BY <1>0, <2>w, <3>2 DEF RxTypes
      <3> QED
        BY <2>2, <2>3, <3>1, <3>3
    <2>4. CASE op = "edit"
      <3>1. s5'[t] = [pc |-> "copied", op |-> "edit", by |-> s5[t].by, wrote |-> s2',
                        copy |-> s1', at |-> s2']
        <4>1. s5'[t] = Rx!Copied(Rx!Wrote(t), s1', s2')
          BY <2>4, <2>w
        <4> QED
          BY <2>1, <2>4, <4>1 DEF Rx!Copied
      <3>2. s5'[t] \in RxRequests
        BY <1>1, <1>3, <1>k, <2>4, <3>1 DEF RxRequests, Rx!Told
      <3>3. s5' \in [Req -> RxRequests]
        BY <1>0, <2>w, <3>2 DEF RxTypes
      <3> QED
        BY <2>2, <2>4, <3>1, <3>3
    <2>5. CASE op \in {"pin", "unpin"}
      <3>1. s5'[t] = [pc |-> "answered", op |-> op, by |-> s5[t].by, wrote |-> s2']
        <4>1. s5'[t] = [Rx!Wrote(t) EXCEPT !.pc = "answered"]
          BY <2>5, <2>w
        <4> QED
          BY <2>1, <4>1
      <3>2. s5'[t] \in RxRequests
        BY <1>1, <1>k, <2>5, <3>1 DEF RxRequests
      <3>3. s5' \in [Req -> RxRequests]
        BY <1>0, <2>w, <3>2 DEF RxTypes
      <3> QED
        BY <2>2, <2>5, <3>1, <3>3
    <2> QED
      BY <1>1, <2>3, <2>4, <2>5 DEF Rx!Ops, Rx!Told
  <1>5. RxTypes'
    BY <1>0, <1>2, <1>3, <1>4, <1>k DEF RxTypes
  <1> HIDE DEF op
  <1>6. /\ op \in Rx!Told => RxSending(t)'
        /\ op \notin Rx!Told => RxPinning(t)' /\ op \in {"pin", "unpin"}
        /\ ~RxSending(t) /\ ~RxPinning(t)
        /\ \A s \in Req \ {t} : (RxSending(s)' <=> RxSending(s)) /\ (RxPinning(s)' <=> RxPinning(s))
    BY <1>1, <1>4 DEF RxSending, RxPinning, Rx!Told, Rx!Ops, op
  <1>7. ASSUME NEW copy, NEW at \in Nat, RxFaithful(copy, at) PROVE RxFaithful(copy, at)'
    <2>1. at \in 1..s2' /\ at # s2' /\ at < s2'
      BY <1>7, <1>k DEF RxFaithful
    <2>2. CASE op \in Rx!Told
      <3>1. RxNewer(at)'
        BY <1>4, <1>6, <2>1, <2>2 DEF RxNewer
      <3> QED
        BY <2>1, <3>1 DEF RxFaithful
    <2>3. CASE op \notin Rx!Told
      <3>1. RxNewer(at) => RxNewer(at)'
        BY <1>2, <1>4, <1>6 DEF RxNewer
      <3> QED
        BY <1>3, <1>6, <1>7, <2>1, <2>3, <3>1 DEF RxFaithful
    <2> QED
      BY <2>2, <2>3
  <1>8. ASSUME NEW s \in Req, s # t PROVE RxSound(s)'
    <2>1. s5'[s] = s5[s] /\ RxSound(s) /\ s5[s] \in RxRequests
      BY <1>0, <1>4, <1>8 DEF RxTypes
    <2>2. \A q : q = s5[s] => (q.pc \in {"copied", "answered"} /\ q.op \in Rx!Told
                                 /\ (q.pc = "copied" \/ q.op = "edit") => RxFaithful(q.copy, q.at)')
      <3> SUFFICES ASSUME NEW q, q = s5[s], q.pc \in {"copied", "answered"}, q.op \in Rx!Told,
                          q.pc = "copied" \/ q.op = "edit"
                   PROVE  RxFaithful(q.copy, q.at)'
        OBVIOUS
      <3>1. RxFaithful(q.copy, q.at) /\ q.at \in Nat
        BY <2>1, RxAsking DEF RxSound
      <3> QED
        BY <1>7, <3>1
    <2>3. s5'[s].pc \in {"copied", "answered"} /\ s5'[s].op \in Rx!Told
          /\ (s5'[s].pc = "copied" \/ s5'[s].op = "edit") => RxFaithful(s5[s].copy, s5[s].at)'
      BY <2>1, <2>2
    <2>4. RxSending(s) \/ s5[s].pc = "answered" => s5[s].wrote \in 1..s2' /\ s5[s].wrote # s2'
      BY <1>k, <2>1 DEF RxSound
    <2>5. RxPinning(s) => s5[s].pc = "answered"
      BY DEF RxPinning
    <2> QED
      BY <1>2, <1>6, <1>8, <2>1, <2>3, <2>4, <2>5 DEF RxSound
  <1>9. RxSound(t)'
    <2>1. s2' \in 1..s2'
      BY <1>k
    <2>2. CASE op = "edit"
      <3>1. \A copy, at : copy = s1' /\ at = s2' => RxFaithful(copy, at)'
        BY <2>1 DEF RxFaithful
      <3>2. RxFaithful(s5[t].copy, s5[t].at)'
        BY <1>4, <2>2, <3>1
      <3> QED
        BY <1>4, <1>k, <2>1, <2>2, <3>2 DEF RxSound, Rx!Told, RxPinning
    <2>3. CASE op \in {"react", "unreact"}
      BY <1>4, <2>1, <2>3 DEF RxSound, Rx!Told, RxPinning
    <2>4. CASE op \in {"pin", "unpin"}
      BY <1>3, <1>4, <2>1, <2>4 DEF RxSound, Rx!Told, RxPinning, op
    <2> QED
      BY <1>1, <2>2, <2>3, <2>4 DEF Rx!Ops, Rx!Told, op
  <1>10. RxCopies'
    <2>1. ASSUME NEW e, NEW i \in DOMAIN s6, e = s6[i] PROVE RxFaithful(e.copy, e.at)'
      <3>1. RxFaithful(e.copy, e.at) /\ e.at \in Nat
        BY <1>0, <2>1, RxKnown DEF RxInv, RxCopies
      <3> QED
        BY <1>7, <3>1
    <2> QED
      BY <1>2, <2>1 DEF RxCopies
  <1>11. RxUnseen'
    BY <1>4, <1>6, <1>k DEF RxUnseen
  <1>12. ~s7' => RxCarried' \/ RxReacts'
    <2>1. CASE op \in Rx!Told
      BY <1>6, <2>1 DEF RxCarried
    <2>2. CASE op \notin Rx!Told
      <3>1. RxCarried => RxCarried'
        BY <1>2, <1>6 DEF RxCarried
      <3>2. RxReacts => RxReacts'
        BY <1>2, <1>3, <1>6, <2>2 DEF RxReacts
      <3> QED
        BY <1>2, <3>1, <3>2 DEF RxInv
    <2> QED
      BY <2>1, <2>2
  <1>13. s4' # s2'
    BY <1>2, <1>k
  <1> QED
    BY <1>5, <1>8, <1>9, <1>10, <1>11, <1>12, <1>13 DEF RxInv

\* For a step of one request, or of none, that writes nothing and sends nothing.
LEMMA RxFollows ==
  ASSUME RxInv, RxTypes', s1' = s1, s2' = s2, s4' >= s4,
         NEW t \in Req, \A s \in Req \ {t} : s5'[s] = s5[s], RxSound(t)',
         (RxSending(t) \/ RxPinning(t)) =>
           \/ RxSending(t)' /\ s5'[t].wrote = s5[t].wrote
           \/ s5[t].wrote <= s4',
         \A j \in DOMAIN s6' : \E i \in DOMAIN s6 : s6'[j] = s6[i],
         \A i \in DOMAIN s6 : \/ s6[i].at <= s4'
                              \/ \E j \in DOMAIN s6' : s6'[j].at >= s6[i].at,
         ~s7' => RxCarried' \/ RxReacts',
         ~s7' /\ s4' = s2' => RxCarried' \/ s3' = Rx!Face(s1)'
  PROVE  RxInv'
  <1>1. \A s \in Req \ {t} : /\ RxSending(s) => RxSending(s)' /\ s5'[s].wrote = s5[s].wrote
                             /\ RxPinning(s) => RxPinning(s)' /\ s5'[s].wrote = s5[s].wrote
    BY DEF RxSending, RxPinning
  <1>2. /\ \A s \in Req : RxSending(s) =>
             \/ RxSending(s)' /\ s5'[s].wrote = s5[s].wrote
             \/ s5[s].wrote <= s4'
             \/ \E j \in DOMAIN s6' : s6'[j].at >= s5[s].wrote
        /\ ~(RxSending(t) /\ RxPinning(t)) /\ ~(RxSending(t)' /\ RxPinning(t)')
    BY <1>1 DEF RxSending, RxPinning
  <1>3. RxTypes /\ (\A s \in Req : RxSound(s)) /\ RxCopies /\ (s4 < s2 => RxUnseen)
    BY DEF RxInv
  <1>4. /\ \A s \in Req : RxSound(s) /\ s5'[s] = s5[s] => RxSound(s)'
        /\ RxCopies'
    BY <1>2, <1>3, RxStays
  <1>5. s4' < s2' => RxUnseen'
    <2>0. /\ s4 \in Nat /\ s4' \in Nat /\ s2 \in Nat
          /\ \A i \in DOMAIN s6 : s6[i].at \in Nat
          /\ \A i \in DOMAIN s6' : s6'[i].at \in Nat
          /\ \A s \in Req : RxSending(s) \/ RxPinning(s) => s5[s].wrote \in Nat
      <3>1. /\ s4 \in Nat /\ s2 \in Nat
            /\ \A i \in DOMAIN s6 : s6[i].at \in Nat
            /\ \A s \in Req : RxSending(s) \/ s5[s].pc = "answered" => s5[s].wrote \in Nat
        BY <1>3, RxKnown
      <3>2. /\ s4' \in Nat
            /\ \A i \in DOMAIN s6' : s6'[i].at \in Nat
        <4>1. s4' \in 0..s2' /\ s6' \in Seq([copy : RxMarks, at : Nat])
          BY DEF RxTypes
        <4>2. \A i \in DOMAIN s6' : s6'[i] \in [copy : RxMarks, at : Nat]
          BY <4>1, Within
        <4> QED
          BY <4>1, <4>2, <3>1
      <3>3. \A s \in Req : RxPinning(s) => s5[s].pc = "answered"
        BY DEF RxPinning
      <3> QED
        BY <3>1, <3>2, <3>3
    <2> SUFFICES ASSUME s4' < s2' PROVE RxUnseen'
      OBVIOUS
    <2>1. RxUnseen
      BY <1>3, <2>0
    <2>2. ASSUME NEW s \in Req, RxSending(s) \/ RxPinning(s), s5[s].wrote >= s2 PROVE RxUnseen'
      <3>1. s5[s].wrote \in Nat /\ ~(s5[s].wrote <= s4')
        BY <2>0, <2>2
      <3>2. (RxSending(s)' \/ RxPinning(s)') /\ s5'[s].wrote = s5[s].wrote
        BY <1>1, <2>2, <3>1
      <3> QED
        BY <2>2, <3>2 DEF RxUnseen
    <2>3. ASSUME NEW i \in DOMAIN s6, s6[i].at >= s2 PROVE RxUnseen'
      BY <2>0, <2>3 DEF RxUnseen
    <2> QED
      BY <2>1, <2>2, <2>3 DEF RxUnseen
  <1> QED
    BY <1>3, <1>4, <1>5 DEF RxInv

LEMMA RxReadInv == ASSUME RxInv, NEW t \in Req, Rx!Read(t) PROVE RxInv'
  <1>0. RxTypes /\ s5[t] \in RxRequests /\ RxSound(t)
    BY DEF RxInv, RxTypes
  <1>1. /\ s5[t].pc = "written" /\ s5[t].op \in {"react", "unreact"}
        /\ s5[t].by \in {"me", "other"}
        /\ s5[t].wrote \in Nat
    BY <1>0, RxAsking DEF Rx!Read
  <1>k. /\ s1 \in RxMarks /\ s2 \in Nat /\ s4 \in Nat
        /\ \A i \in DOMAIN s6 : s6[i].at \in Nat
    BY <1>0, RxKnown
  <1>2. UNCHANGED <<s1, s2, s3, s4, s6, s7>>
    BY DEF Rx!Read
  <1>3. /\ s5'[t] = [pc |-> "copied", op |-> s5[t].op, by |-> s5[t].by,
                       wrote |-> s5[t].wrote, copy |-> s1, at |-> s2]
        /\ \A s \in Req \ {t} : s5'[s] = s5[s]
        /\ s5' = [s5 EXCEPT ![t] = s5'[t]]
    BY <1>0 DEF Rx!Read, Rx!Copied, RxTypes
  <1>4. RxTypes'
    <2>1. s5'[t] \in [pc : {"copied", "answered"}, op : Rx!Told, by : {"me", "other"}, wrote : Nat, copy : RxMarks, at : Nat]
      BY <1>1, <1>3, <1>k DEF Rx!Told
    <2>2. s5'[t] \in RxRequests
      BY <2>1 DEF RxRequests
    <2>3. s5' \in [Req -> RxRequests]
      BY <1>0, <1>3, <2>2 DEF RxTypes
    <2> QED
      BY <1>0, <1>2, <2>3 DEF RxTypes
  <1>5. RxSending(t) /\ RxSending(t)' /\ s5'[t].wrote = s5[t].wrote
    BY <1>1, <1>3 DEF RxSending
  <1>6. RxSound(t)'
    <2>1. s5[t].wrote \in 1..s2
      BY <1>0, <1>5 DEF RxSound
    <2>2. \A copy, at : copy = s1 /\ at = s2 => RxFaithful(copy, at)'
      BY <1>2, <1>k, <2>1 DEF RxFaithful
    <2>3. RxFaithful(s5[t].copy, s5[t].at)'
      BY <1>3, <2>2
    <2>4. s5'[t].pc = "copied" /\ s5'[t].op # "edit" /\ s5'[t].wrote = s5[t].wrote
          /\ s5'[t].at = s2
      BY <1>1, <1>3
    <2> QED
      BY <1>2, <1>k, <2>1, <2>3, <2>4 DEF RxSound, RxPinning
  <1>7. RxCarried'
    BY <1>5 DEF RxCarried
  <1>8. /\ \A j \in DOMAIN s6' : \E i \in DOMAIN s6 : s6'[j] = s6[i]
        /\ \A i \in DOMAIN s6 : \E j \in DOMAIN s6' : s6'[j].at >= s6[i].at
        /\ s4' >= s4
    BY <1>2, <1>k
  <1> QED
    BY <1>2, <1>3, <1>4, <1>5, <1>6, <1>7, <1>8, RxFollows

LEMMA RxFailInv == ASSUME RxInv, NEW t \in Req, Rx!Fail(t) PROVE RxInv'
  <1>0. RxTypes
    BY DEF RxInv
  <1>1. /\ s5' \in [Req -> RxRequests] /\ ~RxSending(t)' /\ ~RxPinning(t)' /\ RxSound(t)'
        /\ \A s \in Req \ {t} : s5'[s] = s5[s]
    BY <1>0, RxFreed DEF Rx!Fail
  <1>2. UNCHANGED <<s1, s2, s3, s6>>
    BY DEF Rx!Fail
  <1>k. /\ s2 \in Nat /\ s4 \in Nat /\ s4 <= s2
        /\ \A i \in DOMAIN s6 : s6[i].at \in Nat
        /\ RxSending(t) \/ RxPinning(t) => s5[t].wrote \in 1..s2
    <2>1. RxSound(t) /\ (RxPinning(t) => s5[t].pc = "answered")
      BY DEF RxInv, RxPinning
    <2> QED
      BY <1>0, <2>1, RxKnown DEF RxSound
  <1>3. /\ RxSending(t) \/ RxPinning(t) => s7' = TRUE /\ s4' = Rx!Later(s5[t].wrote)
        /\ ~(RxSending(t) \/ RxPinning(t)) => UNCHANGED <<s4, s7>>
    BY DEF Rx!Fail, RxSending, RxPinning, Rx!Missed
  <1>4. /\ s4' \in 0..s2 /\ s4' >= s4
        /\ RxSending(t) \/ RxPinning(t) => s5[t].wrote <= s4'
    BY <1>3, <1>k DEF Rx!Later
  <1>5. s7' \in BOOLEAN
    BY <1>0, <1>3 DEF RxTypes
  <1>6. RxTypes'
    BY <1>0, <1>1, <1>2, <1>4, <1>5 DEF RxTypes
  <1>7. RxReacts' = RxReacts /\ Rx!Face(s1)' = Rx!Face(s1)
    BY <1>2 DEF RxReacts, Rx!Face
  <1>8. ~(RxSending(t) \/ RxPinning(t)) /\ RxCarried => RxCarried'
    BY <1>1, <1>2 DEF RxCarried, RxSending
  <1>9. ~s7' => ~(RxSending(t) \/ RxPinning(t)) /\ ~s7 /\ s4' = s4
    BY <1>3
  <1>10. /\ ~s7' => RxCarried' \/ RxReacts'
         /\ ~s7' /\ s4' = s2' => RxCarried' \/ s3' = Rx!Face(s1)'
    BY <1>2, <1>7, <1>8, <1>9 DEF RxInv
  <1>11. /\ \A j \in DOMAIN s6' : \E i \in DOMAIN s6 : s6'[j] = s6[i]
         /\ \A i \in DOMAIN s6 : \E j \in DOMAIN s6' : s6'[j].at >= s6[i].at
    BY <1>2, <1>k
  <1> QED
    BY <1>1, <1>2, <1>4, <1>6, <1>10, <1>11, RxFollows

LEMMA RxReactAnsweredInv == ASSUME RxInv, NEW t \in Req, Rx!ReactAnswered(t) PROVE RxInv'
  <1>0. RxTypes /\ RxSound(t)
    BY DEF RxInv
  <1>1. /\ s5' \in [Req -> RxRequests] /\ ~RxSending(t)' /\ ~RxPinning(t)' /\ RxSound(t)'
        /\ \A s \in Req \ {t} : s5'[s] = s5[s]
    BY <1>0, RxFreed DEF Rx!ReactAnswered
  <1>2. UNCHANGED <<s1, s2, s4, s6>>
    BY DEF Rx!ReactAnswered
  <1>3. ~RxSending(t) /\ ~RxPinning(t) /\ s5[t].pc = "answered" /\ s5[t].op \in Rx!Told
    BY DEF Rx!ReactAnswered, RxSending, RxPinning, Rx!Told
  <1>k. /\ s2 \in Nat /\ s4 \in Nat /\ s5[t].wrote \in Nat
        /\ \A i \in DOMAIN s6 : s6[i].at \in Nat
    BY <1>0, <1>3, RxKnown
  <1>4. s3' \in [count : Nat, mine : BOOLEAN, pinned : BOOLEAN]
    <2>1. /\ s3.count \in Nat /\ s3.pinned \in BOOLEAN
          /\ s3 = [count |-> s3.count, mine |-> s3.mine, pinned |-> s3.pinned]
      BY <1>0 DEF RxTypes
    <2> DEFINE fewer == s5[t].op = "unreact" /\ s3.count > 0
    <2>2. s3' = [count |-> IF fewer THEN s3.count - 1 ELSE s3.count + 1,
                    mine |-> ~fewer, pinned |-> s3.pinned]
      BY <2>1 DEF Rx!ReactAnswered, Rx!Reckoned
    <2>3. (IF fewer THEN s3.count - 1 ELSE s3.count + 1) \in Nat /\ (~fewer) \in BOOLEAN
      BY <2>1
    <2> QED
      BY <2>1, <2>2, <2>3
  <1>5. /\ s7' \in BOOLEAN
        /\ ~s7' => ~s7 /\ ~(s5[t].wrote <= s4)
    BY DEF Rx!ReactAnswered
  <1>6. RxTypes'
    BY <1>0, <1>1, <1>2, <1>4, <1>5 DEF RxTypes
  <1>7. ~s7' => RxCarried'
    <2> SUFFICES ASSUME ~s7' PROVE RxCarried'
      OBVIOUS
    <2>1. \E i \in DOMAIN s6 : TRUE
      BY <1>0, <1>3, <1>5 DEF RxSound
    <2>2. s6' # <<>>
      BY <1>2, <2>1
    <2> QED
      BY <2>2 DEF RxCarried
  <1>8. /\ \A j \in DOMAIN s6' : \E i \in DOMAIN s6 : s6'[j] = s6[i]
        /\ \A i \in DOMAIN s6 : \E j \in DOMAIN s6' : s6'[j].at >= s6[i].at
        /\ s4' >= s4
    BY <1>2, <1>k
  <1> QED
    BY <1>1, <1>2, <1>3, <1>6, <1>7, <1>8, RxFollows

\* For a step of the page alone.
LEMMA RxPageFollows ==
  ASSUME RxInv, RxTypes', s1' = s1, s2' = s2, s5' = s5, s4' >= s4,
         \A j \in DOMAIN s6' : \E i \in DOMAIN s6 : s6'[j] = s6[i],
         \A i \in DOMAIN s6 : \/ s6[i].at <= s4'
                              \/ \E j \in DOMAIN s6' : s6'[j].at >= s6[i].at,
         ~s7' => RxCarried' \/ RxReacts',
         ~s7' /\ s4' = s2' => RxCarried' \/ s3' = Rx!Face(s1)'
  PROVE  RxInv'
  <1>1. \A s \in Req : /\ RxSending(s) => RxSending(s)' /\ s5'[s].wrote = s5[s].wrote
                       /\ RxPinning(s) => RxPinning(s)' /\ s5'[s].wrote = s5[s].wrote
    BY DEF RxSending, RxPinning
  <1>3. RxTypes /\ (\A s \in Req : RxSound(s)) /\ RxCopies /\ (s4 < s2 => RxUnseen)
    BY DEF RxInv
  <1>4. /\ \A s \in Req : RxSound(s) /\ s5'[s] = s5[s] => RxSound(s)'
        /\ RxCopies'
        /\ s4' < s2' => RxUnseen'
    BY <1>1, <1>3, RxStays
  <1> QED
    BY <1>3, <1>4 DEF RxInv

\* A copy that is shown is right, or is not the last.
LEMMA RxShowing ==
  ASSUME RxInv, NEW copy \in RxMarks, NEW at \in Nat, RxFaithful(copy, at), ~(at < s4)
  PROVE  /\ copy.reacts = s1.reacts \/ (\E t \in Req : RxSending(t) /\ s5[t].wrote > at)
                                    \/ (\E i \in DOMAIN s6 : s6[i].at > at)
         /\ at = s2 => copy = s1
         /\ at \in 1..s2
  <1>1. s4 \in Nat
    BY RxKnown DEF RxInv
  <1> QED
    BY <1>1 DEF RxFaithful, RxNewer

LEMMA RxPinAnsweredInv == ASSUME RxInv, NEW t \in Req, Rx!PinAnswered(t) PROVE RxInv'
  <1>0. RxTypes /\ RxSound(t)
    BY DEF RxInv
  <1>1. /\ s5' \in [Req -> RxRequests] /\ ~RxSending(t)' /\ ~RxPinning(t)' /\ RxSound(t)'
        /\ \A s \in Req \ {t} : s5'[s] = s5[s]
    BY <1>0, RxFreed DEF Rx!PinAnswered
  <1>2. UNCHANGED <<s1, s2, s6>> /\ s4' = Rx!Later(s5[t].wrote)
    BY DEF Rx!PinAnswered
  <1>3. ~RxSending(t) /\ RxPinning(t) /\ s5[t].pc = "answered"
    BY DEF Rx!PinAnswered, RxSending, RxPinning
  <1>k. /\ s2 \in Nat /\ s4 \in Nat /\ s4 <= s2 /\ s5[t].wrote \in 1..s2
        /\ \A i \in DOMAIN s6 : s6[i].at \in Nat
    BY <1>0, <1>3, RxKnown DEF RxSound
  <1>4. /\ s4' \in 0..s2 /\ s4' >= s4 /\ s5[t].wrote <= s4'
    BY <1>2, <1>k DEF Rx!Later
  <1>5. /\ s3' = [count |-> s3.count, mine |-> s3.mine, pinned |-> ~s3.pinned]
        /\ s3' \in [count : Nat, mine : BOOLEAN, pinned : BOOLEAN]
        /\ s3'.count = s3.count /\ s3'.mine = s3.mine
    <2>1. /\ s3.count \in Nat /\ s3.mine \in BOOLEAN /\ (~s3.pinned) \in BOOLEAN
          /\ s3 = [count |-> s3.count, mine |-> s3.mine, pinned |-> s3.pinned]
      BY <1>0 DEF RxTypes
    <2>2. s3' = [count |-> s3.count, mine |-> s3.mine, pinned |-> ~s3.pinned]
      BY <2>1 DEF Rx!PinAnswered
    <2>3. [count |-> s3.count, mine |-> s3.mine, pinned |-> ~s3.pinned]
            \in [count : Nat, mine : BOOLEAN, pinned : BOOLEAN]
      BY <2>1
    <2> QED
      BY <2>2, <2>3
  <1>6. /\ s7' \in BOOLEAN
        /\ ~s7' => ~s7 /\ ~(s5[t].wrote <= s4) /\ s3'.pinned = (s5[t].op = "pin")
    BY DEF Rx!PinAnswered
  <1>7. RxTypes'
    BY <1>0, <1>1, <1>2, <1>4, <1>5, <1>6 DEF RxTypes
  <1>8. RxCarried => RxCarried'
    BY <1>1, <1>2, <1>3 DEF RxCarried, RxSending
  <1>9. RxReacts' = RxReacts
    BY <1>2, <1>5 DEF RxReacts
  <1>10. ~s7' => RxCarried' \/ RxReacts'
    BY <1>6, <1>8, <1>9 DEF RxInv
  <1>11. ASSUME ~s7', s4' = s2', ~RxCarried' PROVE s3' = Rx!Face(s1)'
    <2>1. s5[t].wrote = s2
      BY <1>2, <1>6, <1>k, <1>11 DEF Rx!Later
    <2>2. s1.pinned <=> s5[t].op = "pin"
      BY <1>0, <1>3, <2>1 DEF RxSound
    <2>3. RxReacts /\ s1 \in RxMarks
      BY <1>0, <1>8, <1>6, <1>11, RxKnown DEF RxInv
    <2>4. s3' = Rx!Face(s1)
      BY <1>5, <1>6, <1>11, <2>2, <2>3, RxFaces DEF RxReacts
    <2> QED
      BY <1>2, <2>4 DEF Rx!Face
  <1>12. /\ \A j \in DOMAIN s6' : \E i \in DOMAIN s6 : s6'[j] = s6[i]
         /\ \A i \in DOMAIN s6 : \E j \in DOMAIN s6' : s6'[j].at >= s6[i].at
    BY <1>2, <1>k
  <1> QED
    BY <1>1, <1>2, <1>3, <1>4, <1>7, <1>10, <1>11, <1>12, RxFollows

LEMMA RxOtherPinnedInv == ASSUME RxInv, Rx!OtherPinned PROVE RxInv'
  <1>0. RxTypes
    BY DEF RxInv
  <1>1. UNCHANGED <<s1, s2, s4, s5, s6>> /\ s7' = TRUE
    BY DEF Rx!OtherPinned
  <1>2. s3' \in [count : Nat, mine : BOOLEAN, pinned : BOOLEAN]
    <2>1. /\ s3.count \in Nat /\ s3.mine \in BOOLEAN
          /\ s3 = [count |-> s3.count, mine |-> s3.mine, pinned |-> s3.pinned]
      BY <1>0 DEF RxTypes
    <2>2. s3' = [count |-> s3.count, mine |-> s3.mine, pinned |-> FALSE]
      BY <2>1 DEF Rx!OtherPinned
    <2> QED
      BY <2>1, <2>2
  <1>3. RxTypes'
    BY <1>0, <1>1, <1>2 DEF RxTypes
  <1>4. /\ s4' >= s4
        /\ \A j \in DOMAIN s6' : \E i \in DOMAIN s6 : s6'[j] = s6[i]
        /\ \A i \in DOMAIN s6 : \E j \in DOMAIN s6' : s6'[j].at >= s6[i].at
    BY <1>0, <1>1, RxKnown
  <1> QED
    BY <1>1, <1>3, <1>4, RxPageFollows

LEMMA RxEditAnsweredInv == ASSUME RxInv, NEW t \in Req, Rx!EditAnswered(t) PROVE RxInv'
  <1>0. RxTypes /\ RxSound(t) /\ s5[t] \in RxRequests
    BY DEF RxInv, RxTypes
  <1>1. /\ s5' \in [Req -> RxRequests] /\ ~RxSending(t)' /\ ~RxPinning(t)' /\ RxSound(t)'
        /\ \A s \in Req \ {t} : s5'[s] = s5[s]
    BY <1>0, RxFreed DEF Rx!EditAnswered
  <1>2. UNCHANGED <<s1, s2, s6>> /\ s3' = Rx!Face(s5[t].copy)
        /\ s4' = Rx!Later(s5[t].at)
    BY DEF Rx!EditAnswered, Rx!Replaced
  <1>3. /\ s5[t].pc = "answered" /\ s5[t].op = "edit" /\ s5[t].op \in Rx!Told
        /\ ~RxSending(t) /\ ~RxPinning(t)
    BY DEF Rx!EditAnswered, RxSending, RxPinning, Rx!Told
  <1>k. /\ s2 \in Nat /\ s4 \in Nat /\ s4 <= s2 /\ s1 \in RxMarks
        /\ \A i \in DOMAIN s6 : s6[i].at \in Nat
        /\ s5[t].copy \in RxMarks /\ s5[t].at \in Nat
        /\ s5[t].at = s5[t].wrote /\ RxFaithful(s5[t].copy, s5[t].at)
    BY <1>0, <1>3, RxKnown, RxAsking DEF RxSound
  <1>a. s7' \in BOOLEAN /\ (s7' <=> s5[t].at < s4)
    <2>1. s7' = (s5[t].at < s4)
      BY DEF Rx!EditAnswered, Rx!Replaced
    <2>2. (s5[t].at < s4) \in BOOLEAN
      BY <1>k
    <2> QED
      BY <2>1, <2>2
  <1>4. s4' \in 0..s2 /\ s4' >= s4
    BY <1>2, <1>k DEF Rx!Later, RxFaithful
  <1>5. RxTypes'
    BY <1>0, <1>1, <1>2, <1>a, <1>4, <1>k, RxFaces DEF RxTypes
  <1>6. RxCarried => RxCarried'
    BY <1>1, <1>2, <1>3 DEF RxCarried, RxSending
  <1>7. ASSUME ~s7', ~RxCarried' PROVE s5[t].copy.reacts = s1.reacts
    BY <1>6, <1>7, <1>a, <1>k, RxShowing DEF RxCarried
  <1>8. ~s7' => RxCarried' \/ RxReacts'
    BY <1>2, <1>7, <1>k, RxFaces DEF RxReacts
  <1>9. ASSUME ~s7', s4' = s2' PROVE s3' = Rx!Face(s1)'
    <2>1. s5[t].at = s2
      BY <1>2, <1>9, <1>a, <1>k DEF Rx!Later
    <2>2. s5[t].copy = s1
      BY <1>k, <2>1 DEF RxFaithful
    <2> QED
      BY <1>2, <2>2 DEF Rx!Face
  <1>12. /\ \A j \in DOMAIN s6' : \E i \in DOMAIN s6 : s6'[j] = s6[i]
         /\ \A i \in DOMAIN s6 : \E j \in DOMAIN s6' : s6'[j].at >= s6[i].at
    BY <1>2, <1>k
  <1> QED
    BY <1>1, <1>2, <1>3, <1>4, <1>5, <1>8, <1>9, <1>12, RxFollows

\* What is left of the events once the first has come, or is lost.
LEMMA RxRest ==
  ASSUME RxTypes, s6 # <<>>, s6' = Tail(s6), s6[1].at <= s4'
  PROVE  /\ s6' \in Seq([copy : RxMarks, at : Nat])
         /\ 1 \in DOMAIN s6 /\ Head(s6) = s6[1]
         /\ \A j \in DOMAIN s6' : \E i \in DOMAIN s6 : s6'[j] = s6[i]
         /\ \A i \in DOMAIN s6 : i # 1 => \E j \in DOMAIN s6' : s6'[j] = s6[i]
         /\ \A i \in DOMAIN s6 : \/ s6[i].at <= s4'
                                 \/ \E j \in DOMAIN s6' : s6'[j].at >= s6[i].at
  <1>1. s6 \in Seq([copy : RxMarks, at : Nat]) /\ \A i \in DOMAIN s6 : s6[i].at \in Nat
    BY RxKnown DEF RxTypes
  <1>2. /\ s6' \in Seq([copy : RxMarks, at : Nat]) /\ 1 \in DOMAIN s6 /\ Head(s6) = s6[1]
        /\ \A i \in DOMAIN s6' : i + 1 \in DOMAIN s6 /\ s6'[i] = s6[i + 1]
        /\ \A i \in DOMAIN s6 : i # 1 => i - 1 \in DOMAIN s6' /\ s6'[i - 1] = s6[i]
    BY <1>1, Tailed
  <1>3. \A i \in DOMAIN s6 : i # 1 => \E j \in DOMAIN s6' : s6'[j].at >= s6[i].at
    <2>1. ASSUME NEW i \in DOMAIN s6, i # 1
          PROVE  \E j \in DOMAIN s6' : s6'[j].at >= s6[i].at
      <3>1. i - 1 \in DOMAIN s6' /\ s6'[i - 1].at = s6[i].at /\ s6[i].at \in Nat
        BY <1>1, <1>2, <2>1
      <3> QED
        BY <3>1
    <2> QED
      BY <2>1
  <1> QED
    BY <1>2, <1>3

LEMMA RxUpdatedInv == ASSUME RxInv, Rx!Updated PROVE RxInv'
  <1>0. RxTypes /\ s6 # <<>> /\ s6' = Tail(s6)
    BY DEF RxInv, Rx!Updated
  <1> DEFINE e == Head(s6)
  <1>1. UNCHANGED <<s1, s2, s5>> /\ s3' = Rx!Face(e.copy) /\ s4' = Rx!Later(e.at)
    BY DEF Rx!Updated, Rx!Replaced
  <1>2. e = s6[1] /\ 1 \in DOMAIN s6
    <2>1. s6 \in Seq([copy : RxMarks, at : Nat])
      BY <1>0 DEF RxTypes
    <2> QED
      BY <1>0, <2>1, Tailed
  <1> HIDE DEF e
  <1>k. /\ s2 \in Nat /\ s4 \in Nat /\ s4 <= s2 /\ s1 \in RxMarks
        /\ e \in [copy : RxMarks, at : Nat] /\ e.copy \in RxMarks /\ e.at \in Nat
        /\ RxFaithful(e.copy, e.at)
    <2>1. /\ s2 \in Nat /\ s4 \in Nat /\ s4 <= s2 /\ s1 \in RxMarks
          /\ e \in [copy : RxMarks, at : Nat]
      BY <1>0, <1>2, RxKnown
    <2>2. RxFaithful(e.copy, e.at)
      BY <1>2 DEF RxInv, RxCopies
    <2> QED
      BY <2>1, <2>2
  <1>a. s7' \in BOOLEAN /\ (s7' <=> e.at < s4)
    <2>1. s7' = (e.at < s4)
      BY DEF Rx!Updated, Rx!Replaced, e
    <2>2. (e.at < s4) \in BOOLEAN
      BY <1>k
    <2> QED
      BY <2>1, <2>2
  <1>4. s4' \in 0..s2 /\ s4' >= s4 /\ s6[1].at <= s4'
    BY <1>1, <1>2, <1>k DEF Rx!Later, RxFaithful
  <1>r. /\ s6' \in Seq([copy : RxMarks, at : Nat])
        /\ \A j \in DOMAIN s6' : \E i \in DOMAIN s6 : s6'[j] = s6[i]
        /\ \A i \in DOMAIN s6 : i # 1 => \E j \in DOMAIN s6' : s6'[j] = s6[i]
        /\ \A i \in DOMAIN s6 : \/ s6[i].at <= s4'
                                \/ \E j \in DOMAIN s6' : s6'[j].at >= s6[i].at
    BY <1>0, <1>4, RxRest
  <1>5. RxTypes'
    BY <1>0, <1>1, <1>a, <1>4, <1>r, <1>k, RxFaces DEF RxTypes
  <1>7. ASSUME ~s7', ~RxCarried' PROVE e.copy.reacts = s1.reacts
    <2>1. s6' = <<>> /\ \A s \in Req : ~RxSending(s)
      BY <1>1, <1>7 DEF RxCarried, RxSending
    <2>2. \A i \in DOMAIN s6 : i = 1
      BY <1>r, <2>1
    <2>3. \A i \in DOMAIN s6 : ~(s6[i].at > e.at)
      BY <1>2, <1>k, <2>2
    <2> QED
      BY <1>7, <1>a, <1>k, <2>1, <2>3, RxShowing
  <1>8. ~s7' => RxCarried' \/ RxReacts'
    BY <1>1, <1>7, <1>k, RxFaces DEF RxReacts
  <1>9. ASSUME ~s7', s4' = s2' PROVE s3' = Rx!Face(s1)'
    <2>1. e.at = s2
      BY <1>1, <1>9, <1>a, <1>k DEF Rx!Later
    <2>2. e.copy = s1
      BY <1>k, <2>1 DEF RxFaithful
    <2> QED
      BY <1>1, <2>2 DEF Rx!Face
  <1> QED
    BY <1>1, <1>4, <1>r, <1>5, <1>8, <1>9, RxPageFollows

LEMMA RxLoseEventInv == ASSUME RxInv, Rx!LoseEvent PROVE RxInv'
  <1>0. RxTypes /\ s6 # <<>> /\ s6' = Tail(s6)
    BY DEF RxInv, Rx!LoseEvent
  <1>1. /\ UNCHANGED <<s1, s2, s3, s5>>
        /\ s4' = Rx!Later(Head(s6).at) /\ s7' = TRUE
    BY DEF Rx!LoseEvent, Rx!Missed
  <1>2. Head(s6) = s6[1] /\ 1 \in DOMAIN s6
    <2>1. s6 \in Seq([copy : RxMarks, at : Nat])
      BY <1>0 DEF RxTypes
    <2> QED
      BY <1>0, <2>1, Tailed
  <1>4. s4' \in 0..s2 /\ s4' >= s4 /\ s6[1].at <= s4'
    <2>1. /\ s2 \in Nat /\ s4 \in Nat /\ s4 <= s2 /\ s6[1].at \in Nat
          /\ RxFaithful(s6[1].copy, s6[1].at)
      BY <1>0, <1>2, RxKnown DEF RxInv, RxCopies
    <2> QED
      BY <1>1, <1>2, <2>1 DEF Rx!Later, RxFaithful
  <1>r. /\ s6' \in Seq([copy : RxMarks, at : Nat])
        /\ \A j \in DOMAIN s6' : \E i \in DOMAIN s6 : s6'[j] = s6[i]
        /\ \A i \in DOMAIN s6 : \/ s6[i].at <= s4'
                                \/ \E j \in DOMAIN s6' : s6'[j].at >= s6[i].at
    BY <1>0, <1>4, RxRest
  <1>5. RxTypes'
    BY <1>0, <1>1, <1>4, <1>r DEF RxTypes
  <1> QED
    BY <1>1, <1>4, <1>r, <1>5, RxPageFollows

LEMMA RxEmitInv == ASSUME RxInv, NEW t \in Req, Rx!Emit(t) PROVE RxInv'
  <1>0. RxTypes /\ s5[t] \in RxRequests /\ (\A s \in Req : RxSound(s)) /\ RxCopies
        /\ (s4 < s2 => RxUnseen)
    BY DEF RxInv, RxTypes
  <1>1. /\ s5[t].pc = "copied" /\ s5[t].op \in Rx!Told /\ s5[t].by \in {"me", "other"}
        /\ s5[t].wrote \in Nat /\ s5[t].copy \in RxMarks /\ s5[t].at \in Nat
        /\ s5[t] = [pc |-> "copied", op |-> s5[t].op, by |-> s5[t].by, wrote |-> s5[t].wrote,
                      copy |-> s5[t].copy, at |-> s5[t].at]
    BY <1>0, RxAsking DEF Rx!Emit
  <1>2. UNCHANGED <<s1, s2, s3, s4, s7>>
    BY DEF Rx!Emit
  <1>s. /\ RxSending(t) /\ ~RxPinning(t)
        /\ s5[t].wrote \in 1..s2 /\ s5[t].wrote <= s5[t].at
        /\ s5[t].op = "edit" => s5[t].at = s5[t].wrote
        /\ RxFaithful(s5[t].copy, s5[t].at)
    BY <1>0, <1>1 DEF RxSending, RxPinning, RxSound
  <1> DEFINE e == [copy |-> s5[t].copy, at |-> s5[t].at]
  <1>3. /\ s6' \in Seq([copy : RxMarks, at : Nat]) /\ s6' # <<>>
        /\ DOMAIN s6' = DOMAIN s6 \cup {Len(s6) + 1}
        /\ \A i \in DOMAIN s6 : s6'[i] = s6[i]
        /\ s6'[Len(s6) + 1] = e
    <2>1. e \in [copy : RxMarks, at : Nat] /\ s6 \in Seq([copy : RxMarks, at : Nat])
      BY <1>0, <1>1 DEF RxTypes
    <2>2. s6' = Append(s6, e)
      BY DEF Rx!Emit
    <2> HIDE DEF e
    <2> QED
      BY <2>1, <2>2, Longer
  <1>4. /\ \A s \in Req \ {t} : s5'[s] = s5[s]
        /\ s5' = [s5 EXCEPT ![t] = s5'[t]]
        /\ \/ s5'[t] = Rx!Idle
           \/ s5'[t] = [pc |-> "answered", op |-> s5[t].op, by |-> s5[t].by,
                          wrote |-> s5[t].wrote, copy |-> s5[t].copy, at |-> s5[t].at]
    <2>1. /\ s5' = [s5 EXCEPT ![t] = s5'[t]]
          /\ s5'[t] = IF s5[t].by = "me" THEN [s5[t] EXCEPT !.pc = "answered"] ELSE Rx!Idle
      BY <1>0 DEF Rx!Emit, RxTypes
    <2>2. [s5[t] EXCEPT !.pc = "answered"]
            = [pc |-> "answered", op |-> s5[t].op, by |-> s5[t].by,
               wrote |-> s5[t].wrote, copy |-> s5[t].copy, at |-> s5[t].at]
      BY <1>1
    <2>3. \A s \in Req \ {t} : s5'[s] = s5[s]
      BY <1>0, <2>1 DEF RxTypes
    <2> QED
      BY <2>1, <2>2, <2>3
  <1>5. RxTypes'
    <2>1. s5'[t] \in RxRequests
      <3>1. CASE s5'[t] = Rx!Idle
        BY <3>1 DEF RxRequests
      <3>2. CASE s5'[t] = [pc |-> "answered", op |-> s5[t].op, by |-> s5[t].by,
                             wrote |-> s5[t].wrote, copy |-> s5[t].copy, at |-> s5[t].at]
        <4>1. s5'[t] \in [pc : {"copied", "answered"}, op : Rx!Told, by : {"me", "other"}, wrote : Nat,
                            copy : RxMarks, at : Nat]
          BY <1>1, <3>2
        <4> QED
          BY <4>1 DEF RxRequests
      <3> QED
        BY <1>4, <3>1, <3>2
    <2>2. s5' \in [Req -> RxRequests]
      BY <1>0, <1>4, <2>1 DEF RxTypes
    <2> QED
      BY <1>0, <1>2, <1>3, <2>2 DEF RxTypes
  <1>6. /\ s4' >= s4
        /\ \A i \in DOMAIN s6 : \E j \in DOMAIN s6' : s6'[j].at >= s6[i].at
        /\ \E j \in DOMAIN s6' : s6'[j].at >= s5[t].wrote
    <2>1. \A i \in DOMAIN s6 : s6[i].at \in Nat /\ s4 \in Nat
      BY <1>0, RxKnown
    <2>2. s6'[Len(s6) + 1].at >= s5[t].wrote /\ Len(s6) + 1 \in DOMAIN s6'
      BY <1>1, <1>3, <1>s
    <2>3. s4 \in Nat
      BY <1>0, RxKnown
    <2> QED
      BY <1>2, <1>3, <2>1, <2>2, <2>3
  <1>7. /\ \A s \in Req : RxPinning(s) => RxPinning(s)' /\ s5'[s].wrote = s5[s].wrote
        /\ \A s \in Req \ {t} : RxSending(s) => RxSending(s)' /\ s5'[s].wrote = s5[s].wrote
    BY <1>4, <1>s DEF RxSending, RxPinning
  <1>8. /\ \A copy : \A at \in Nat : RxFaithful(copy, at) => RxFaithful(copy, at)'
        /\ \A s \in Req : RxSound(s) /\ s5'[s] = s5[s] => RxSound(s)'
        /\ s4' < s2' => RxUnseen'
    BY <1>0, <1>2, <1>5, <1>6, <1>7, RxStays
  <1>9. RxSound(t)'
    <2>1. \A copy, at : copy = s5[t].copy /\ at = s5[t].at => RxFaithful(copy, at)'
      BY <1>1, <1>8, <1>s
    <2>2. CASE s5'[t] = Rx!Idle
      BY <2>2 DEF Rx!Idle, RxSound, RxSending, RxPinning
    <2>3. CASE s5'[t] # Rx!Idle
      <3>1. /\ s5'[t].pc = "answered" /\ s5'[t].op = s5[t].op /\ s5'[t].wrote = s5[t].wrote
            /\ s5'[t].copy = s5[t].copy /\ s5'[t].at = s5[t].at
        BY <1>4, <2>3
      <3>2. RxFaithful(s5[t].copy, s5[t].at)'
        BY <2>1, <3>1
      <3> QED
        BY <1>1, <1>2, <1>6, <1>s, <3>1, <3>2 DEF RxSound, RxPinning
    <2> QED
      BY <2>2, <2>3
  <1>10. RxCopies'
    <2>1. ASSUME NEW x, x.copy = s5[t].copy, x.at = s5[t].at PROVE RxFaithful(x.copy, x.at)'
      BY <1>1, <1>8, <1>s, <2>1
    <2>2. ASSUME NEW x, NEW i \in DOMAIN s6, x = s6[i] PROVE RxFaithful(x.copy, x.at)'
      <3>1. RxFaithful(x.copy, x.at) /\ x.at \in Nat
        BY <1>0, <2>2, RxKnown DEF RxCopies
      <3> QED
        BY <1>8, <3>1
    <2>3. ASSUME NEW j \in DOMAIN s6', NEW x, x = s6'[j] PROVE RxFaithful(x.copy, x.at)'
      <3>1. CASE j = Len(s6) + 1
        BY <1>3, <2>1, <2>3, <3>1
      <3>2. CASE j \in DOMAIN s6
        BY <1>3, <2>2, <2>3, <3>2
      <3> QED
        BY <1>3, <2>3, <3>1, <3>2
    <2> QED
      BY <2>3 DEF RxCopies
  <1>11. RxCarried'
    BY <1>3 DEF RxCarried
  <1> QED
    BY <1>0, <1>4, <1>5, <1>8, <1>9, <1>10, <1>11 DEF RxInv

LEMMA RxPinByOtherInv == ASSUME RxInv, Rx!PinByOther PROVE RxInv'
  <1>0. RxTypes /\ (\A s \in Req : RxSound(s)) /\ RxCopies
    BY DEF RxInv
  <1>1. UNCHANGED <<s3, s5, s6>> /\ s7' = TRUE
    BY DEF Rx!PinByOther, Rx!Missed
  <1>k. /\ s2 \in Nat /\ s4 \in Nat /\ s4 <= s2 /\ s1 \in RxMarks
        /\ s2' = s2 + 1 /\ s2' \in 0..MaxWrites
        /\ s4' = s2' /\ s4' \in 0..s2'
    <2>1. s2 \in Nat /\ s4 \in Nat /\ s4 <= s2 /\ s1 \in RxMarks
      BY <1>0, RxKnown
    <2>2. s2' = s2 + 1 /\ s2 < MaxWrites /\ s4' = Rx!Later(s2')
      BY DEF Rx!PinByOther, Rx!Missed
    <2> QED
      BY <2>1, <2>2, ScreenBounds DEF Rx!Later
  <1>2. s1' \in RxMarks
    <2>1. s1 = [reacts |-> s1.reacts, pinned |-> s1.pinned]
          /\ s1.reacts \in SUBSET {"me", "other"}
      BY <1>k DEF RxMarks
    <2>2. s1' = [reacts |-> s1.reacts, pinned |-> ~s1.pinned]
      BY <2>1 DEF Rx!PinByOther
    <2>3. (~s1.pinned) \in BOOLEAN
      OBVIOUS
    <2> QED
      BY <2>1, <2>2, <2>3 DEF RxMarks
  <1>3. RxTypes'
    BY <1>0, <1>1, <1>2, <1>k DEF RxTypes
  <1>4. ASSUME NEW copy, NEW at \in Nat, RxFaithful(copy, at) PROVE RxFaithful(copy, at)'
    <2>1. at \in 1..s2' /\ at # s2' /\ s4' > at
      BY <1>4, <1>k DEF RxFaithful
    <2> QED
      BY <2>1 DEF RxFaithful, RxNewer
  <1>5. RxCopies'
    <2>1. ASSUME NEW x, NEW i \in DOMAIN s6, x = s6[i] PROVE RxFaithful(x.copy, x.at)'
      <3>1. RxFaithful(x.copy, x.at) /\ x.at \in Nat
        BY <1>0, <2>1, RxKnown DEF RxCopies
      <3> QED
        BY <1>4, <3>1
    <2> QED
      BY <1>1, <2>1 DEF RxCopies
  <1>6. ASSUME NEW s \in Req PROVE RxSound(s)'
    <2>1. s5'[s] = s5[s] /\ RxSound(s) /\ s5[s] \in RxRequests
      BY <1>0, <1>1 DEF RxTypes
    <2>2. \A q : q = s5[s] => (q.pc \in {"copied", "answered"} /\ q.op \in Rx!Told
                                 /\ (q.pc = "copied" \/ q.op = "edit") => RxFaithful(q.copy, q.at)')
      <3> SUFFICES ASSUME NEW q, q = s5[s], q.pc \in {"copied", "answered"}, q.op \in Rx!Told,
                          q.pc = "copied" \/ q.op = "edit"
                   PROVE  RxFaithful(q.copy, q.at)'
        OBVIOUS
      <3>1. RxFaithful(q.copy, q.at) /\ q.at \in Nat
        BY <2>1, RxAsking DEF RxSound
      <3> QED
        BY <1>4, <3>1
    <2>3. s5'[s].pc \in {"copied", "answered"} /\ s5'[s].op \in Rx!Told
          /\ (s5'[s].pc = "copied" \/ s5'[s].op = "edit") => RxFaithful(s5[s].copy, s5[s].at)'
      BY <2>1, <2>2
    <2>4. RxSending(s) \/ s5[s].pc = "answered" =>
            /\ s5[s].wrote \in 1..s2' /\ s5[s].wrote # s2' /\ s5[s].wrote <= s4'
      BY <1>k, <2>1 DEF RxSound
    <2>5. /\ RxPinning(s) => s5[s].pc = "answered"
          /\ (RxSending(s)' <=> RxSending(s)) /\ (RxPinning(s)' <=> RxPinning(s))
      BY <2>1 DEF RxPinning, RxSending
    <2> QED
      BY <2>1, <2>3, <2>4, <2>5 DEF RxSound
  <1> QED
    BY <1>1, <1>3, <1>5, <1>6, <1>k DEF RxInv

LEMMA RxNextInv == ASSUME RxInv, Rx!Next PROVE RxInv'
  BY RxAskInv, RxWriteInv, RxReadInv, RxEmitInv, RxFailInv, RxReactAnsweredInv,
     RxEditAnsweredInv, RxPinAnsweredInv,
     RxPinByOtherInv, RxUpdatedInv, RxLoseEventInv, RxOtherPinnedInv DEF Rx!Next

LEMMA RxStillInv == ASSUME RxInv, UNCHANGED Rx!vars PROVE RxInv'
  BY DEF RxInv, Rx!vars, RxTypes, RxSound, RxCopies, RxUnseen, RxCarried, RxReacts,
     RxSending, RxFaithful,
         RxPinning, RxNewer

-----------------------------------------------------------------------------
(* AppData: what is shown was asked for by who is signed in.               *)

\* A request is of somebody, and of whoever is signed in unless it is late; what is
\* shown is of him as well.
AdCarried ==
  [op : {"change", "refresh", "mark", "count"}, pc : {"asked"}, of : User, late : BOOLEAN]
  \cup [op : {"change", "mark"}, pc : {"done"}, of : User, late : BOOLEAN, n : Nat]
  \cup [op : {"refresh"}, pc : {"done"}, of : User, late : BOOLEAN, n : 0 .. MaxSaves]
  \cup [op : {"count"}, pc : {"done"}, of : User, late : BOOLEAN, n : 0 .. MaxUnread]
AdTasks == {Ad!Idle} \cup AdCarried
AdOwned ==
  /\ s7 \in [Req -> AdTasks]
  /\ \A t \in Req : s7[t] # Ad!Idle => s7[t].late \/ (s7[t].of = s1 /\ s1 \in User)
  /\ ~s8 => s5 = Ad!Blank \/ (s5.of = s1 /\ s1 \in User)

AdBase == Ad!TypeOK /\ Ad!OwnData /\ AdOwned

LEMMA AdKinds ==
  /\ Ad!Idle \in AdTasks /\ Ad!Idle.op = "idle"
  /\ \A x \in AdTasks : x # Ad!Idle =>
       /\ x.op \in {"change", "refresh", "mark", "count"} /\ x.pc \in {"asked", "done"}
       /\ x.of \in User /\ x.late \in BOOLEAN
       /\ x.op = "refresh" /\ x.pc = "done" => x.n \in 0 .. MaxSaves
       /\ x.op = "count" /\ x.pc = "done" => x.n \in 0 .. MaxUnread
  /\ \A x \in AdCarried : x # Ad!Idle /\ x.op # "idle"
  <1>1. \A x \in AdCarried : x.op # "idle"
    BY DEF AdCarried
  <1>2. \A x \in AdCarried :
       /\ x.op \in {"change", "refresh", "mark", "count"} /\ x.pc \in {"asked", "done"}
       /\ x.of \in User /\ x.late \in BOOLEAN
    BY DEF AdCarried
  <1>3. \A x \in AdCarried : x.pc = "done" =>
       /\ x.op = "refresh" => x.n \in 0 .. MaxSaves
       /\ x.op = "count" => x.n \in 0 .. MaxUnread
    BY DEF AdCarried
  <1>4. Ad!Idle.op = "idle" /\ Ad!Idle \in AdTasks /\ AdTasks = {Ad!Idle} \cup AdCarried
    BY DEF Ad!Idle, AdTasks
  <1> QED
    BY <1>1, <1>2, <1>3, <1>4

\* A request as it is asked, and as it is answered.
LEMMA AdAsking ==
  ASSUME NEW op \in {"change", "refresh", "mark", "count"}, NEW u \in User
  PROVE  LET y == [Ad!Asked(op) EXCEPT !.of = u] IN
         y \in AdTasks /\ y # Ad!Idle /\ y.of = u /\ ~y.late
  <1> DEFINE x == Ad!Asked(op)
             y == [x EXCEPT !.of = u]
  <1>1. /\ x \in [op : {"change", "refresh", "mark", "count"}, pc : {"asked"},
                  of : User \cup {s1}, late : BOOLEAN]
        /\ ~x.late
    BY DEF Ad!Asked
  <1> HIDE DEF x
  <1>2. /\ y \in [op : {"change", "refresh", "mark", "count"}, pc : {"asked"},
                  of : User, late : BOOLEAN]
        /\ y.of = u /\ ~y.late
    BY <1>1
  <1> HIDE DEF y
  <1>3. y \in AdCarried
    BY <1>2 DEF AdCarried
  <1>4. y \in AdTasks /\ y # Ad!Idle
    BY <1>3, AdKinds DEF AdTasks
  <1> QED
    BY <1>2, <1>4 DEF x, y

LEMMA AdFollowing ==
  ASSUME NEW op \in {"refresh", "count"}, s1 \in User
  PROVE  Ad!Asked(op) \in AdTasks /\ Ad!Asked(op) # Ad!Idle /\ Ad!Asked(op).of = s1 /\ ~Ad!Asked(op).late
  <1>1. Ad!Asked(op) \in AdCarried /\ Ad!Asked(op).of = s1 /\ ~Ad!Asked(op).late
    BY DEF Ad!Asked, AdCarried
  <1> QED
    BY <1>1, AdKinds DEF AdTasks

LEMMA AdReplying ==
  ASSUME NEW x \in AdTasks, x # Ad!Idle, x.pc = "asked", NEW n \in Nat,
         x.op = "refresh" => n \in 0 .. MaxSaves,
         x.op = "count" => n \in 0 .. MaxUnread
  PROVE  LET y == [op |-> x.op, pc |-> "done", of |-> x.of, late |-> x.late, n |-> n] IN
         y \in AdTasks /\ y # Ad!Idle /\ y.of = x.of /\ y.late = x.late
  <1> DEFINE y == [op |-> x.op, pc |-> "done", of |-> x.of, late |-> x.late, n |-> n]
  <1>1. x.op \in {"change", "refresh", "mark", "count"} /\ x.of \in User /\ x.late \in BOOLEAN
    BY AdKinds
  <1>2. y \in AdCarried
    BY <1>1 DEF AdCarried
  <1>3. y \in AdTasks /\ y # Ad!Idle
    BY <1>2, AdKinds DEF AdTasks
  <1> QED
    BY <1>3

LEMMA AdInitBase == ASSUME Ad!Init PROVE AdBase
  <1>1. /\ s1 = Nobody /\ s5 = Ad!Blank /\ s4 = 0 /\ s6 = 0
        /\ s8 = FALSE /\ s9 = FALSE /\ s10 = FALSE
        /\ \A t \in Req : s7[t] = Ad!Idle
    BY DEF Ad!Init
  <1>2. s7 \in [Req -> AdTasks]
    BY AdKinds DEF Ad!Init
  <1>3. s2 \in [User -> 0 .. MaxSaves] /\ s3 \in [User -> 0 .. MaxUnread]
    BY ScreenBounds DEF Ad!Init
  <1>4. s5.of = Nobody /\ s5.v \in 0 .. MaxSaves
    BY <1>1, ScreenBounds DEF Ad!Blank
  <1>5. \A t \in Req : s7[t].op = "idle"
    BY <1>1, AdKinds
  <1>6. Ad!TypeOK
    BY <1>1, <1>3, <1>4, <1>5 DEF Ad!TypeOK
  <1> QED
    BY <1>1, <1>2, <1>6 DEF AdBase, Ad!OwnData, AdOwned

\* What a step must show of the requests for the types and for whose they are: one of
\* them changes, and is then of him who is signed in or as it was.
AdFits(x, new) ==
  new = Ad!Idle \/ (new.late = x.late /\ new.of = x.of /\ x # Ad!Idle) \/ (~new.late /\ new.of = s1 /\ s1 \in User)

LEMMA AdReplaced ==
  ASSUME AdBase, NEW t \in Req, NEW new \in AdTasks, s7' = [s7 EXCEPT ![t] = new],
         AdFits(s7[t], new), s1' = s1
  PROVE  /\ s7' \in [Req -> AdTasks]
         /\ \A s \in Req : s7'[s] # Ad!Idle => s7'[s].late \/ (s7'[s].of = s1 /\ s1 \in User)
         /\ \A s \in Req : s7'[s].op \in {"idle", "change", "refresh", "mark", "count"}
  <1>1. s7' \in [Req -> AdTasks] /\ s7'[t] = new /\ \A s \in Req \ {t} : s7'[s] = s7[s]
    BY DEF AdBase, AdOwned
  <1>2. \A s \in Req : s7'[s] # Ad!Idle => s7'[s].late \/ (s7'[s].of = s1 /\ s1 \in User)
    BY <1>1 DEF AdFits, AdBase, AdOwned
  <1> QED
    BY <1>1, <1>2, AdKinds

LEMMA AdNextBase == ASSUME AdBase, Ad!Next PROVE AdBase'
  <1>0. /\ s7 \in [Req -> AdTasks] /\ s2 \in [User -> 0 .. MaxSaves]
        /\ s3 \in [User -> 0 .. MaxUnread] /\ s4 \in Nat /\ s6 \in Nat
        /\ s1 \in User \cup {Nobody}
    BY DEF AdBase, AdOwned, Ad!TypeOK
  \* requests that only ask, answer or end
  <1>1. ASSUME NEW t \in Req, NEW new \in AdTasks, s7' = [s7 EXCEPT ![t] = new],
               AdFits(s7[t], new), UNCHANGED <<s1, s5, s8>>,
               s2' \in [User -> 0 .. MaxSaves], s3' \in [User -> 0 .. MaxUnread],
               s4' \in Nat, s6' \in Nat, s9' \in BOOLEAN, s10' \in BOOLEAN
        PROVE  AdBase'
    <2>1. /\ s7' \in [Req -> AdTasks]
          /\ \A s \in Req : s7'[s] # Ad!Idle => s7'[s].late \/ (s7'[s].of = s1 /\ s1 \in User)
          /\ \A s \in Req : s7'[s].op \in {"idle", "change", "refresh", "mark", "count"}
      BY <1>1, AdReplaced
    <2> QED
      BY <1>1, <2>1 DEF AdBase, Ad!TypeOK, Ad!OwnData, AdOwned
  <1>2. ASSUME NEW t \in Req, NEW op \in {"change", "mark"}, s1 # Nobody,
               s7' = [s7 EXCEPT ![t] = Ad!Asked(op)], UNCHANGED <<s1, Ad!stored, s4, Ad!shown, Ad!past>>
        PROVE  AdBase'
    <2>1. s1 \in User
      BY <1>0, <1>2
    <2>2. Ad!Asked(op) \in AdCarried /\ Ad!Asked(op).of = s1 /\ ~Ad!Asked(op).late
      BY <2>1 DEF Ad!Asked, AdCarried
    <2>3. Ad!Asked(op) \in AdTasks /\ Ad!Asked(op).of = s1 /\ ~Ad!Asked(op).late
      BY <2>2 DEF AdTasks
    <2>4. AdFits(s7[t], Ad!Asked(op))
      BY <2>1, <2>3 DEF AdFits
    <2>5. /\ UNCHANGED <<s1, s5, s8, s2, s3, s4, s6>>
          /\ s9' \in BOOLEAN /\ s10' \in BOOLEAN
      BY <1>2 DEF Ad!stored, Ad!shown, Ad!past, AdBase, Ad!TypeOK
    <2> QED
      BY <1>0, <1>1, <1>2, <2>3, <2>4, <2>5
  <1>3. ASSUME NEW t \in Req, NEW n \in Nat, Ad!Reply(t, n), s7[t] # Ad!Idle, s7[t].pc = "asked",
               s7[t].op = "refresh" => n \in 0 .. MaxSaves,
               s7[t].op = "count" => n \in 0 .. MaxUnread,
               UNCHANGED <<s1, s5, s8>>,
               s2' \in [User -> 0 .. MaxSaves], s3' \in [User -> 0 .. MaxUnread],
               s4' \in Nat, s6' \in Nat, s9' \in BOOLEAN, s10' \in BOOLEAN
        PROVE  AdBase'
    <2> DEFINE x == s7[t]
               y == [op |-> x.op, pc |-> "done", of |-> x.of, late |-> x.late, n |-> n]
    <2>1. x \in AdTasks
      BY <1>0
    <2>2. y \in AdTasks /\ y.of = x.of /\ y.late = x.late
      BY <1>3, <2>1, AdReplying
    <2>3. s7' = [s7 EXCEPT ![t] = y]
      BY <1>3, <1>0 DEF Ad!Reply
    <2>4. AdFits(s7[t], y)
      BY <1>3, <2>2 DEF AdFits
    <2> HIDE DEF y
    <2> QED
      BY <1>1, <1>3, <2>2, <2>3, <2>4
  <1>4. ASSUME NEW t \in Req, s7' = [s7 EXCEPT ![t] = Ad!Idle],
               UNCHANGED <<s1, s5, s8>>,
               s2' \in [User -> 0 .. MaxSaves], s3' \in [User -> 0 .. MaxUnread],
               s4' \in Nat, s6' \in Nat, s9' \in BOOLEAN, s10' \in BOOLEAN
        PROVE  AdBase'
    BY <1>1, <1>4, AdKinds DEF AdFits
  <1>5. ASSUME NEW t \in Req, NEW u \in User, NEW s \in Req, Ad!SignIn(u, t, s)
        PROVE  AdBase'
    <2> DEFINE a == [Ad!Asked("refresh") EXCEPT !.of = u]
               b == [Ad!Asked("count") EXCEPT !.of = u]
    <2>1. /\ a \in AdTasks /\ a.of = u /\ b \in AdTasks /\ b.of = u
      BY AdAsking
    <2>2. /\ s1 = Nobody /\ t # s /\ s1' = u /\ s7' = [s7 EXCEPT ![t] = a, ![s] = b]
          /\ s9' = FALSE /\ s10' = FALSE
          /\ UNCHANGED <<s2, s3, s4, s5, s6, s8>>
      BY <1>5 DEF Ad!SignIn, Ad!stored, Ad!shown
    <2> HIDE DEF a, b
    <2>3. /\ s7' \in [Req -> AdTasks] /\ s7'[t] = a /\ s7'[s] = b
          /\ \A r \in Req \ {t, s} : s7'[r] = s7[r]
      BY <1>0, <2>1, <2>2
    <2>4. \A r \in Req : s7'[r] # Ad!Idle => s7'[r].late \/ (s7'[r].of = u /\ u \in User)
      <3>1. \A r \in Req \ {t, s} : s7[r] # Ad!Idle => s7[r].late
        BY <2>2, NobodyAssumption DEF AdBase, AdOwned
      <3> QED
        BY <2>1, <2>3, <3>1
    <2>5. ~s8 => s5 = Ad!Blank
      BY <2>2, NobodyAssumption DEF AdBase, AdOwned
    <2> QED
      BY <2>2, <2>3, <2>4, <2>5, AdKinds DEF AdBase, Ad!TypeOK, Ad!OwnData, AdOwned
  <1>6. ASSUME Ad!SignOut PROVE AdBase'
    <2>1. /\ s1' = Nobody /\ s5' = Ad!Blank /\ s6' = 0 /\ s4' = 0 /\ s8' = FALSE
          /\ UNCHANGED <<s2, s3, s9, s10>>
          /\ s7' = [t \in Req |-> IF s7[t] = Ad!Idle THEN Ad!Idle ELSE [s7[t] EXCEPT !.late = TRUE]]
      BY <1>6 DEF Ad!SignOut, Ad!Cleared, Ad!Forget, Ad!stored
    <2>2. \A x \in AdCarried : [x EXCEPT !.late = TRUE] \in AdCarried /\ [x EXCEPT !.late = TRUE].late
      <3> TAKE x \in AdCarried
      <3>1. CASE x \in [op : {"change", "refresh", "mark", "count"}, pc : {"asked"}, of : User, late : BOOLEAN]
        BY <3>1 DEF AdCarried
      <3>2. CASE x \in [op : {"change", "mark"}, pc : {"done"}, of : User, late : BOOLEAN, n : Nat]
        BY <3>2 DEF AdCarried
      <3>3. CASE x \in [op : {"refresh"}, pc : {"done"}, of : User, late : BOOLEAN, n : 0 .. MaxSaves]
        BY <3>3 DEF AdCarried
      <3>4. CASE x \in [op : {"count"}, pc : {"done"}, of : User, late : BOOLEAN, n : 0 .. MaxUnread]
        BY <3>4 DEF AdCarried
      <3> QED
        BY <3>1, <3>2, <3>3, <3>4 DEF AdCarried
    <2>3. \A t \in Req : s7'[t] \in AdTasks /\ (s7'[t] # Ad!Idle => s7'[t].late)
      BY <1>0, <2>1, <2>2 DEF AdTasks
    <2>4. s7' \in [Req -> AdTasks]
      BY <2>1, <2>3
    <2>5. s5'.of = Nobody /\ s5'.v = 0 /\ 0 \in 0 .. MaxSaves
      BY <2>1, ScreenBounds DEF Ad!Blank
    <2>6. Ad!TypeOK'
      BY <2>1, <2>4, <2>5, AdKinds DEF AdBase, Ad!TypeOK
    <2>7. Ad!OwnData' /\ AdOwned'
      BY <2>1, <2>3, <2>4 DEF Ad!OwnData, AdOwned
    <2> QED
      BY <2>6, <2>7 DEF AdBase
  <1>7. ASSUME Ad!Notify \/ Ad!Told PROVE AdBase'
    <2>1. /\ UNCHANGED <<s1, s2, s5, s7, s8, s9>>
          /\ s3' \in [User -> 0 .. MaxUnread] /\ s4' \in Nat /\ s6' \in Nat
          /\ s10' \in BOOLEAN
      <3>1. CASE Ad!Notify
        <4>1. s1 \in User /\ s3[s1] \in 0 .. MaxUnread /\ s3[s1] < MaxUnread
          BY <1>0, <3>1 DEF Ad!Notify
        <4>2. s3[s1] + 1 \in 0 .. MaxUnread
          BY <4>1, ScreenBounds
        <4>3. s3' = [s3 EXCEPT ![s1] = s3[s1] + 1]
          BY <3>1 DEF Ad!Notify
        <4>4. s3' \in [User -> 0 .. MaxUnread]
          BY <1>0, <4>2, <4>3
        <4> QED
          BY <1>0, <3>1, <4>4 DEF Ad!Notify, Ad!shown, Ad!past, AdBase, Ad!TypeOK
      <3>2. CASE Ad!Told
        BY <1>0, <3>2 DEF Ad!Told, Ad!stored, AdBase, Ad!TypeOK
      <3> QED
        BY <1>7, <3>1, <3>2
    <2> QED
      BY <2>1 DEF AdBase, Ad!TypeOK, Ad!OwnData, AdOwned
  <1>8. ASSUME NEW t \in Req, Ad!Save(t) PROVE AdBase'
    <2>1. s7[t] # Ad!Idle /\ s7[t].op = "change" /\ s7[t].pc = "asked" /\ s7[t].of \in User
      BY <1>0, <1>8, AdKinds DEF Ad!Save, Ad!Is
    <2>2. /\ s2' = [s2 EXCEPT ![s7[t].of] = s2[s7[t].of] + 1] /\ Ad!Reply(t, 0)
          /\ s2[s7[t].of] < MaxSaves /\ UNCHANGED <<s1, s3, s4, s5, s6, s8>>
          /\ s9' \in BOOLEAN /\ s10' \in BOOLEAN
      BY <1>8 DEF Ad!Save, Ad!shown, Ad!past, AdBase, Ad!TypeOK
    <2>3. s2[s7[t].of] + 1 \in 0 .. MaxSaves
      BY <1>0, <2>1, <2>2, ScreenBounds
    <2>4. s2' \in [User -> 0 .. MaxSaves]
      BY <1>0, <2>2, <2>3
    <2> QED
      BY <1>0, <1>3, <2>1, <2>2, <2>4
  <1>9. ASSUME NEW t \in Req, Ad!Changed(t) PROVE AdBase'
    <2>1. PICK op \in {"refresh", "count"} : op = Ad!Follows(s7[t].op)
      BY DEF Ad!Follows
    <2>2. /\ UNCHANGED <<s1, s5, s8, s2, s3, s4, s6>>
          /\ s9' \in BOOLEAN /\ s10' \in BOOLEAN
      BY <1>9 DEF Ad!Changed, Ad!stored, Ad!shown, Ad!past, AdBase, Ad!TypeOK
    <2>3. CASE s1 = Nobody
      <3>1. s7' = [s7 EXCEPT ![t] = Ad!Idle]
        BY <1>9, <2>3 DEF Ad!Changed
      <3> QED
        BY <1>0, <1>4, <2>2, <3>1
    <2>4. CASE s1 # Nobody
      <3>1. s7' = [s7 EXCEPT ![t] = Ad!Asked(op)]
        BY <1>9, <2>1, <2>4 DEF Ad!Changed
      <3>2. Ad!Asked(op) \in AdTasks /\ AdFits(s7[t], Ad!Asked(op))
        BY <1>0, <2>4, AdFollowing DEF AdFits
      <3> QED
        BY <1>0, <1>1, <2>2, <3>1, <3>2
    <2> QED
      BY <2>3, <2>4
  <1>10. ASSUME NEW t \in Req, Ad!ReadDatum(t) \/ Ad!ReadCount(t) PROVE AdBase'
    <2>1. s7[t] # Ad!Idle /\ s7[t].pc = "asked" /\ s7[t].of \in User
      BY <1>0, <1>10, AdKinds DEF Ad!ReadDatum, Ad!ReadCount, Ad!Is
    <2>2. /\ UNCHANGED <<s1, s5, s8, s2, s3, s4, s6>>
          /\ s9' \in BOOLEAN /\ s10' \in BOOLEAN
      BY <1>10 DEF Ad!ReadDatum, Ad!ReadCount, Ad!stored, Ad!shown, Ad!past, AdBase,
         Ad!TypeOK
    <2>3. CASE Ad!ReadDatum(t)
      <3>1. s7[t].op = "refresh" /\ Ad!Reply(t, s2[s7[t].of])
        BY <2>3 DEF Ad!ReadDatum, Ad!Is
      <3>2. s2[s7[t].of] \in 0 .. MaxSaves /\ s2[s7[t].of] \in Nat
        BY <1>0, <2>1, ScreenBounds
      <3> QED
        BY <1>0, <1>3, <2>1, <2>2, <3>1, <3>2
    <2>4. CASE Ad!ReadCount(t)
      <3>1. s7[t].op = "count" /\ Ad!Reply(t, s3[s7[t].of])
        BY <2>4 DEF Ad!ReadCount, Ad!Is
      <3>2. s3[s7[t].of] \in 0 .. MaxUnread /\ s3[s7[t].of] \in Nat
        BY <1>0, <2>1, ScreenBounds
      <3> QED
        BY <1>0, <1>3, <2>1, <2>2, <3>1, <3>2
    <2> QED
      BY <1>10, <2>3, <2>4
  <1>11. ASSUME NEW t \in Req, Ad!Refreshed(t) PROVE AdBase'
    <2>1. /\ s7[t] # Ad!Idle /\ s7[t].of \in User /\ s7[t].n \in 0 .. MaxSaves
          /\ s7[t].late \in BOOLEAN
      BY <1>0, <1>11, AdKinds DEF Ad!Refreshed, Ad!Is
    <2>2. /\ s5' = [of |-> s7[t].of, v |-> s7[t].n] /\ s7' = [s7 EXCEPT ![t] = Ad!Idle]
          /\ s8' = s7[t].late /\ s9' \in BOOLEAN
          /\ UNCHANGED <<s1, s2, s3, s4, s6, s10>>
      BY <1>11, <2>1 DEF Ad!Refreshed, Ad!stored, AdBase, Ad!TypeOK
    <2>3. AdFits(s7[t], Ad!Idle) /\ Ad!Idle \in AdTasks
      BY AdKinds DEF AdFits
    <2>4. /\ s7' \in [Req -> AdTasks]
          /\ \A s \in Req : s7'[s] # Ad!Idle => s7'[s].late \/ (s7'[s].of = s1 /\ s1 \in User)
          /\ \A s \in Req : s7'[s].op \in {"idle", "change", "refresh", "mark", "count"}
      BY <2>2, <2>3, AdReplaced
    <2>5. s5'.of = s7[t].of /\ s5'.v = s7[t].n
      BY <2>2
    <2>6. ~s8' => s5'.of = s1 /\ s1 \in User
      BY <2>1, <2>2, <2>5 DEF AdBase, AdOwned
    <2>7. Ad!TypeOK'
      BY <2>1, <2>2, <2>4, <2>5 DEF AdBase, Ad!TypeOK
    <2> QED
      BY <2>2, <2>4, <2>6, <2>7 DEF AdBase, Ad!OwnData, AdOwned
  <1>12. ASSUME NEW t \in Req, Ad!Change(t) \/ Ad!Mark(t) PROVE AdBase'
    BY <1>2, <1>12 DEF Ad!Change, Ad!Mark
  <1>13. ASSUME NEW t \in Req, Ad!MarkRead(t) PROVE AdBase'
    <2>1. /\ s7[t] # Ad!Idle /\ s7[t].op = "mark" /\ s7[t].pc = "asked" /\ s7[t].of \in User
      BY <1>0, <1>13, AdKinds DEF Ad!MarkRead, Ad!Is
    <2>2. /\ s3' = [s3 EXCEPT ![s7[t].of] = s3[s7[t].of] - 1]
          /\ s3[s7[t].of] > 0
          /\ UNCHANGED <<s1, s2, s4, s5, s6, s8>>
          /\ s9' \in BOOLEAN /\ s10' \in BOOLEAN
          /\ Ad!Reply(t, 0) \/ s7' = [s7 EXCEPT ![t] = Ad!Idle]
      BY <1>13 DEF Ad!MarkRead, Ad!shown, AdBase, Ad!TypeOK
    <2>3. s3[s7[t].of] - 1 \in 0 .. MaxUnread
      BY <1>0, <2>1, <2>2, ScreenBounds
    <2>4. s3' \in [User -> 0 .. MaxUnread]
      BY <1>0, <2>2, <2>3
    <2>5. CASE Ad!Reply(t, 0)
      BY <1>0, <1>3, <2>1, <2>2, <2>4, <2>5
    <2>6. CASE s7' = [s7 EXCEPT ![t] = Ad!Idle]
      BY <1>0, <1>4, <2>2, <2>4, <2>6
    <2> QED
      BY <2>2, <2>5, <2>6
  <1>14. ASSUME NEW t \in Req, Ad!Counted(t) \/ Ad!Fail(t) PROVE AdBase'
    <2>1. /\ UNCHANGED <<s1, s5, s8, s2, s3, s4>>
          /\ s7' = [s7 EXCEPT ![t] = Ad!Idle]
      BY <1>14 DEF Ad!Counted, Ad!Fail, Ad!stored, Ad!shown, Ad!past
    <2>2. s9' \in BOOLEAN /\ s10' \in BOOLEAN
      BY <1>14 DEF Ad!Counted, Ad!Fail, Ad!past, AdBase, Ad!TypeOK
    <2>3. s6' \in Nat
      <3>1. CASE Ad!Counted(t)
        <4>1. s7[t].n \in 0 .. MaxUnread
          BY <1>0, <3>1, AdKinds DEF Ad!Counted, Ad!Is
        <4> QED
          BY <3>1, <4>1, ScreenBounds DEF Ad!Counted
      <3>2. CASE Ad!Fail(t)
        BY <1>0, <3>2 DEF Ad!Fail, Ad!shown
      <3> QED
        BY <1>14, <3>1, <3>2
    <2> QED
      BY <1>0, <1>4, <2>1, <2>2, <2>3
  <1> QED
    BY <1>5, <1>6, <1>7, <1>8, <1>9, <1>10, <1>11, <1>12, <1>13, <1>14 DEF Ad!Next


\* A request that will show the datum as it is stored, for good or until it fails.
AdBringing(t) ==
  \/ Ad!Is(t, "change", "done")
  \/ Ad!Is(t, "refresh", "asked") /\ s7[t].of = s1
  \/ Ad!Is(t, "refresh", "done") /\ s7[t].of = s1 /\ s7[t].n = s2[s1]
AdDatum ==
  /\ \A t \in Req : Ad!Is(t, "refresh", "done") => s7[t].n <= s2[s7[t].of]
  /\ s1 # Nobody /\ ~s9 =>
       s5 = [of |-> s1, v |-> s2[s1]] \/ \E t \in Req : AdBringing(t)

LEMMA AdInitDatum == ASSUME Ad!Init PROVE AdDatum
  <1>1. \A t \in Req : s7[t].op = "idle"
    BY AdKinds DEF Ad!Init
  <1> QED
    BY <1>1 DEF Ad!Init, AdDatum, Ad!Is

\* A step of a request that was not to bring the datum, and does not bring it next.
LEMMA AdSameDatum ==
  ASSUME AdBase, AdDatum, NEW t \in Req, NEW new, s7' = [s7 EXCEPT ![t] = new],
         ~AdBringing(t), UNCHANGED <<s1, s2, s5>>, s9 \/ ~s9',
         s9 => s9',
         new.op = "refresh" /\ new.pc = "done" => new.n <= s2[new.of]
  PROVE  AdDatum'
  <1>1. s7'[t] = new /\ \A s \in Req \ {t} : s7'[s] = s7[s]
    BY DEF AdBase, AdOwned
  <1>2. \A s \in Req \ {t} : AdBringing(s) => AdBringing(s)'
    BY <1>1 DEF AdBringing, Ad!Is
  <1>3. \A s \in Req : Ad!Is(s, "refresh", "done")' => s7'[s].n <= s2'[s7'[s].of]
    BY <1>1 DEF AdDatum, Ad!Is
  <1> QED
    BY <1>2, <1>3 DEF AdDatum

LEMMA AdNextDatum == ASSUME AdBase, AdDatum, Ad!Next PROVE AdDatum'
  <1>0. /\ s7 \in [Req -> AdTasks] /\ s2 \in [User -> 0 .. MaxSaves]
        /\ s1 \in User \cup {Nobody} /\ s9 \in BOOLEAN /\ Ad!Idle.op = "idle"
    BY AdKinds DEF AdBase, AdOwned, Ad!TypeOK
  <1>1. ASSUME NEW t \in Req, NEW u \in User, NEW s \in Req, Ad!SignIn(u, t, s)
        PROVE  AdDatum'
    <2> DEFINE a == [Ad!Asked("refresh") EXCEPT !.of = u]
               b == [Ad!Asked("count") EXCEPT !.of = u]
    <2>1. a.op = "refresh" /\ a.pc = "asked" /\ a.of = u /\ b.op = "count"
      BY DEF Ad!Asked
    <2>2. t # s /\ s1' = u /\ s2' = s2 /\ s7' = [s7 EXCEPT ![t] = a, ![s] = b]
      BY <1>1 DEF Ad!SignIn, Ad!stored
    <2> HIDE DEF a, b
    <2>3. s7'[t] = a /\ s7'[s] = b /\ \A r \in Req \ {t, s} : s7'[r] = s7[r]
      BY <1>0, <2>2
    <2>4. AdBringing(t)'
      BY <2>1, <2>2, <2>3 DEF AdBringing, Ad!Is
    <2>5. \A r \in Req : Ad!Is(r, "refresh", "done")' => s7'[r].n <= s2'[s7'[r].of]
      BY <2>1, <2>2, <2>3 DEF AdDatum, Ad!Is
    <2> QED
      BY <2>4, <2>5 DEF AdDatum
  <1>2. ASSUME Ad!SignOut PROVE AdDatum'
    <2>1. s1' = Nobody /\ s2' = s2
      BY <1>2 DEF Ad!SignOut, Ad!Cleared, Ad!Forget, Ad!stored
    <2>2. \A t \in Req : s7'[t] = Ad!Idle \/ s7'[t] = [s7[t] EXCEPT !.late = TRUE]
      BY <1>2 DEF Ad!SignOut
    <2>3. \A t \in Req : Ad!Is(t, "refresh", "done")' => s7'[t].n <= s2'[s7'[t].of]
      <3> SUFFICES ASSUME NEW t \in Req, Ad!Is(t, "refresh", "done")'
                   PROVE  s7'[t].n <= s2'[s7'[t].of]
        OBVIOUS
      <3>1. s7'[t] = [s7[t] EXCEPT !.late = TRUE]
        BY <1>0, <2>2 DEF Ad!Is
      <3>2. /\ s7'[t].op = s7[t].op /\ s7'[t].pc = s7[t].pc
            /\ s7'[t].n = s7[t].n /\ s7'[t].of = s7[t].of
        BY <3>1
      <3> QED
        BY <2>1, <3>2 DEF AdDatum, Ad!Is
    <2> QED
      BY <2>1, <2>3 DEF AdDatum
  <1>3. ASSUME Ad!Notify \/ Ad!Told PROVE AdDatum'
    BY <1>3 DEF Ad!Notify, Ad!Told, Ad!shown, Ad!stored, Ad!past, AdDatum, AdBringing, Ad!Is
  <1>4. ASSUME NEW t \in Req, Ad!Change(t) \/ Ad!Mark(t) PROVE AdDatum'
    <2>1. PICK op \in {"change", "mark"} : s7' = [s7 EXCEPT ![t] = Ad!Asked(op)]
      BY <1>4 DEF Ad!Change, Ad!Mark
    <2>2. UNCHANGED <<s1, s2, s5, s9>> /\ s7[t] = Ad!Idle
      BY <1>4 DEF Ad!Change, Ad!Mark, Ad!stored, Ad!shown, Ad!past
    <2>3. ~AdBringing(t)
      BY <1>0, <2>2 DEF AdBringing, Ad!Is
    <2>4. Ad!Asked(op).op = op
      BY DEF Ad!Asked
    <2> QED
      BY <1>0, <2>1, <2>2, <2>3, <2>4, AdSameDatum
  <1>5. ASSUME NEW t \in Req, Ad!Save(t) PROVE AdDatum'
    <2>1. /\ s7' = [s7 EXCEPT ![t] = [op |-> s7[t].op, pc |-> "done", of |-> s7[t].of,
                                          late |-> s7[t].late, n |-> 0]]
          /\ Ad!Is(t, "change", "asked") /\ UNCHANGED <<s1, s5>>
          /\ s2' = [s2 EXCEPT ![s7[t].of] = @ + 1]
      BY <1>5 DEF Ad!Save, Ad!Reply, Ad!shown
    <2>2. s7'[t].op = "change" /\ s7'[t].pc = "done" /\ \A s \in Req \ {t} : s7'[s] = s7[s]
      BY <1>0, <2>1 DEF Ad!Is
    <2>3. AdBringing(t)'
      BY <2>2 DEF AdBringing, Ad!Is
    <2>4. \A u \in User : s2[u] \in Nat /\ s2'[u] \in Nat /\ s2[u] <= s2'[u]
      BY <1>0, <2>1
    <2>5. \A s \in Req : Ad!Is(s, "refresh", "done")' => s7'[s].n <= s2'[s7'[s].of]
      <3> SUFFICES ASSUME NEW s \in Req, Ad!Is(s, "refresh", "done")'
                   PROVE  s7'[s].n <= s2'[s7'[s].of]
        OBVIOUS
      <3>1. s # t /\ s7'[s] = s7[s] /\ Ad!Is(s, "refresh", "done")
        BY <2>2 DEF Ad!Is
      <3>2. s7[s].of \in User /\ s7[s].n \in 0 .. MaxSaves /\ s7[s].n <= s2[s7[s].of]
        BY <1>0, <3>1, AdKinds DEF AdDatum, Ad!Is
      <3> QED
        BY <2>4, <3>1, <3>2
    <2> QED
      BY <2>3, <2>5 DEF AdDatum
  <1>6. ASSUME NEW t \in Req, Ad!Changed(t) PROVE AdDatum'
    <2>1. UNCHANGED <<s1, s2, s5, s9>>
      BY <1>6 DEF Ad!Changed, Ad!stored, Ad!shown, Ad!past
    <2>2. CASE s1 = Nobody
      <3>1. s7' = [s7 EXCEPT ![t] = Ad!Idle]
        BY <1>6, <2>2 DEF Ad!Changed
      <3>2. \A s \in Req : Ad!Is(s, "refresh", "done")' => s7'[s] = s7[s]
        BY <1>0, <3>1 DEF Ad!Is
      <3> QED
        BY <2>1, <2>2, <3>2 DEF AdDatum, Ad!Is
    <2>3. CASE s1 # Nobody
      <3>1. s7' = [s7 EXCEPT ![t] = Ad!Asked(Ad!Follows(s7[t].op))]
        BY <1>6, <2>3 DEF Ad!Changed
      <3>2. \A op : Ad!Asked(op).op = op /\ Ad!Asked(op).pc = "asked" /\ Ad!Asked(op).of = s1
        BY DEF Ad!Asked
      <3>3. CASE s7[t].op = "mark"
        <4>1. ~AdBringing(t) /\ Ad!Follows(s7[t].op) = "count"
          BY <3>3 DEF AdBringing, Ad!Is, Ad!Follows
        <4> QED
          BY <1>0, <2>1, <3>1, <3>2, <4>1, AdSameDatum
      <3>4. CASE s7[t].op = "change"
        <4>1. s7'[t] = Ad!Asked("refresh") /\ \A s \in Req \ {t} : s7'[s] = s7[s]
          BY <1>0, <3>1, <3>4 DEF Ad!Follows
        <4>2. AdBringing(t)'
          BY <2>1, <3>2, <4>1 DEF AdBringing, Ad!Is
        <4>3. \A s \in Req : Ad!Is(s, "refresh", "done")' => s7'[s] = s7[s]
          BY <3>2, <4>1 DEF Ad!Is
        <4> QED
          BY <2>1, <4>2, <4>3 DEF AdDatum, Ad!Is
      <3> QED
        BY <1>6, <3>3, <3>4 DEF Ad!Changed
    <2> QED
      BY <2>2, <2>3
  <1>7. ASSUME NEW t \in Req, Ad!ReadDatum(t) PROVE AdDatum'
    <2> DEFINE y == [op |-> s7[t].op, pc |-> "done", of |-> s7[t].of,
                     late |-> s7[t].late, n |-> s2[s7[t].of]]
    <2>1. s7' = [s7 EXCEPT ![t] = y] /\ UNCHANGED <<s1, s2, s5, s9>>
      BY <1>7 DEF Ad!ReadDatum, Ad!Reply, Ad!stored, Ad!shown, Ad!past
    <2>2. /\ y.op = "refresh" /\ y.pc = "done" /\ y.of = s7[t].of /\ y.n = s2[s7[t].of]
          /\ s7[t].of \in User /\ Ad!Is(t, "refresh", "asked")
      BY <1>0, <1>7, AdKinds DEF Ad!ReadDatum, Ad!Is
    <2>3. s2[s7[t].of] <= s2[s7[t].of]
      BY <1>0, <2>2
    <2> HIDE DEF y
    <2>4. CASE s7[t].of = s1
      <3>1. s7'[t] = y /\ \A s \in Req \ {t} : s7'[s] = s7[s]
        BY <1>0, <2>1
      <3>2. AdBringing(t)'
        BY <2>1, <2>2, <2>4, <3>1 DEF AdBringing, Ad!Is
      <3>3. \A s \in Req : Ad!Is(s, "refresh", "done")' => s7'[s].n <= s2'[s7'[s].of]
        BY <2>1, <2>2, <2>3, <3>1 DEF AdDatum, Ad!Is
      <3> QED
        BY <3>2, <3>3 DEF AdDatum
    <2>5. CASE s7[t].of # s1
      <3>1. ~AdBringing(t)
        BY <2>2, <2>5 DEF AdBringing, Ad!Is
      <3> QED
        BY <1>0, <2>1, <2>2, <2>3, <3>1, AdSameDatum
    <2> QED
      BY <2>4, <2>5
  <1>8. ASSUME NEW t \in Req, Ad!Refreshed(t) PROVE AdDatum'
    <2>1. /\ Ad!Is(t, "refresh", "done") /\ s7' = [s7 EXCEPT ![t] = Ad!Idle]
          /\ s5' = [of |-> s7[t].of, v |-> s7[t].n] /\ UNCHANGED <<s1, s2>>
          /\ s9' = (s9 \/ s7[t].late \/ s7[t].n < s5.v)
      BY <1>8 DEF Ad!Refreshed, Ad!stored
    <2>2. s7'[t] = Ad!Idle /\ \A s \in Req \ {t} : s7'[s] = s7[s]
      BY <1>0, <2>1
    <2>3. \A s \in Req : Ad!Is(s, "refresh", "done")' => s7'[s] = s7[s]
      BY <1>0, <2>2 DEF Ad!Is
    <2>4. ASSUME s1 # Nobody, ~s9', \A s \in Req : ~AdBringing(s)'
          PROVE  s5' = [of |-> s1, v |-> s2[s1]]
      <3>1. ~s9 /\ ~s7[t].late /\ ~(s7[t].n < s5.v)
        BY <2>1, <2>4
      <3>2. s7[t].of = s1 /\ s1 \in User /\ s7[t].n \in 0 .. MaxSaves
        BY <1>0, <2>1, <3>1, AdKinds DEF AdBase, AdOwned, Ad!Is
      <3>3. \A s \in Req \ {t} : ~AdBringing(s)
        BY <2>1, <2>2, <2>4 DEF AdBringing, Ad!Is
      <3>4. s7[t].n <= s2[s1]
        BY <2>1, <3>2 DEF AdDatum
      <3>5. CASE AdBringing(t)
        BY <2>1, <3>2, <3>5 DEF AdBringing, Ad!Is
      <3>6. CASE ~AdBringing(t)
        <4>1. s5 = [of |-> s1, v |-> s2[s1]]
          BY <2>4, <3>1, <3>3, <3>6 DEF AdDatum
        <4>2. s5.v = s2[s1] /\ s2[s1] \in Nat
          BY <1>0, <3>2, <4>1
        <4>3. s7[t].n = s2[s1]
          BY <3>1, <3>2, <3>4, <4>2
        <4> QED
          BY <2>1, <3>2, <4>3
      <3> QED
        BY <3>5, <3>6
    <2> QED
      BY <2>1, <2>3, <2>4 DEF AdDatum, Ad!Is
  <1>9. ASSUME NEW t \in Req, Ad!MarkRead(t) \/ Ad!ReadCount(t) \/ Ad!Counted(t) PROVE AdDatum'
    <2>1. /\ UNCHANGED <<s1, s2, s5, s9>> /\ s7[t].op \in {"mark", "count"}
          /\ s7' = [s7 EXCEPT ![t] = s7'[t]] /\ s7'[t].op \in {s7[t].op, "idle"}
      <3>1. CASE Ad!MarkRead(t)
        BY <1>0, <3>1 DEF Ad!MarkRead, Ad!Is, Ad!Reply, Ad!shown
      <3>2. CASE Ad!ReadCount(t)
        BY <1>0, <3>2 DEF Ad!ReadCount, Ad!Is, Ad!Reply, Ad!shown, Ad!stored
      <3>3. CASE Ad!Counted(t)
        BY <1>0, <3>3 DEF Ad!Counted, Ad!Is, Ad!stored, Ad!past
      <3> QED
        BY <1>9, <3>1, <3>2, <3>3
    <2>2. ~AdBringing(t)
      BY <2>1 DEF AdBringing, Ad!Is
    <2> QED
      BY <1>0, <2>1, <2>2, AdSameDatum
  <1>10. ASSUME NEW t \in Req, Ad!Fail(t) PROVE AdDatum'
    <2>1. /\ UNCHANGED <<s1, s2, s5>> /\ s7' = [s7 EXCEPT ![t] = Ad!Idle]
          /\ s9' = (s9 \/ s7[t].op = "refresh" \/ Ad!Is(t, "change", "done"))
      BY <1>10 DEF Ad!Fail, Ad!stored, Ad!shown
    <2>2. s7'[t] = Ad!Idle /\ \A s \in Req \ {t} : s7'[s] = s7[s]
      BY <1>0, <2>1
    <2>3. \A s \in Req : Ad!Is(s, "refresh", "done")' => s7'[s] = s7[s]
      BY <1>0, <2>2 DEF Ad!Is
    <2>4. ~s9' => ~AdBringing(t) /\ \A s \in Req \ {t} : AdBringing(s) => AdBringing(s)'
      BY <2>1, <2>2 DEF AdBringing, Ad!Is
    <2> QED
      BY <2>1, <2>3, <2>4 DEF AdDatum, Ad!Is
  <1> QED
    BY <1>1, <1>2, <1>3, <1>4, <1>5, <1>6, <1>7, <1>8, <1>9, <1>10 DEF Ad!Next

\* A request that will count the unread anew, for good or until it fails.
AdCounting(t) == Ad!Is(t, "mark", "done") \/ (Ad!Is(t, "count", "asked") /\ s7[t].of = s1)
AdAnswered(t) == Ad!Is(t, "count", "done")
AdAgrees ==
  /\ \A t \in Req : ~Ad!Is(t, "count", "asked")
  /\ \A t \in Req : AdAnswered(t) => s7[t].n + s4 = s3[s1]
  /\ s6 + s4 = s3[s1] \/ \E t \in Req : AdAnswered(t)
AdBadge == s1 # Nobody /\ ~s10 => AdAgrees \/ \E t \in Req : AdCounting(t)

LEMMA AdInitBadge == ASSUME Ad!Init PROVE AdBadge
  BY DEF Ad!Init, AdBadge

\* A step of a request that has nothing to do with the badge, before it and after it.
LEMMA AdSameBadge ==
  ASSUME AdBase, AdBadge, NEW t \in Req, NEW new, s7' = [s7 EXCEPT ![t] = new],
         ~AdCounting(t), s7[t].op # "count", new.op # "count",
         new.op = "mark" => new.pc = "asked",
         UNCHANGED <<s1, s3, s4, s6, s10>>
  PROVE  AdBadge'
  <1>1. s7'[t] = new /\ \A s \in Req \ {t} : s7'[s] = s7[s]
    BY DEF AdBase, AdOwned
  <1>2. \A s \in Req : (AdCounting(s) => AdCounting(s)') /\ (AdAnswered(s) <=> AdAnswered(s)')
                        /\ (Ad!Is(s, "count", "asked") <=> Ad!Is(s, "count", "asked")')
                        /\ (AdAnswered(s) => s7'[s] = s7[s])
    BY <1>1 DEF AdCounting, AdAnswered, Ad!Is
  <1>3. AdAgrees => AdAgrees'
    BY <1>2 DEF AdAgrees
  <1> QED
    BY <1>2, <1>3 DEF AdBadge

LEMMA AdNextBadge == ASSUME AdBase, AdBadge, Ad!Next PROVE AdBadge'
  <1>0. /\ s7 \in [Req -> AdTasks] /\ s3 \in [User -> 0 .. MaxUnread] /\ s4 \in Nat
        /\ s6 \in Nat
        /\ s1 \in User \cup {Nobody} /\ s10 \in BOOLEAN /\ Ad!Idle.op = "idle"
    BY AdKinds DEF AdBase, AdOwned, Ad!TypeOK
  <1>1. ASSUME NEW t \in Req, NEW u \in User, NEW s \in Req, Ad!SignIn(u, t, s)
        PROVE  AdBadge'
    <2> DEFINE a == [Ad!Asked("refresh") EXCEPT !.of = u]
               b == [Ad!Asked("count") EXCEPT !.of = u]
    <2>1. b.op = "count" /\ b.pc = "asked" /\ b.of = u
      BY DEF Ad!Asked
    <2>2. t # s /\ s1' = u /\ s7' = [s7 EXCEPT ![t] = a, ![s] = b]
      BY <1>1 DEF Ad!SignIn
    <2> HIDE DEF a, b
    <2>3. s7'[s] = b
      BY <1>0, <2>2
    <2>4. AdCounting(s)'
      BY <2>1, <2>2, <2>3 DEF AdCounting, Ad!Is
    <2> QED
      BY <2>4 DEF AdBadge
  <1>2. ASSUME Ad!SignOut PROVE AdBadge'
    BY <1>2 DEF Ad!SignOut, Ad!Cleared, Ad!Forget, AdBadge
  <1>3. ASSUME Ad!Notify PROVE AdBadge'
    <2>1. /\ s1 \in User /\ s4' = s4 + 1 /\ UNCHANGED <<s1, s6, s7, s10>>
          /\ s3'[s1] = s3[s1] + 1
      BY <1>0, <1>3 DEF Ad!Notify, Ad!shown, Ad!past
    <2>2. s3[s1] \in Nat
      BY <1>0, <2>1, ScreenBounds
    <2>3. \A t \in Req : (AdCounting(t) <=> AdCounting(t)') /\ (AdAnswered(t) <=> AdAnswered(t)')
                         /\ (Ad!Is(t, "count", "asked") <=> Ad!Is(t, "count", "asked")')
      BY <2>1 DEF AdCounting, AdAnswered, Ad!Is
    <2>4. \A t \in Req : AdAnswered(t) => s7[t].n \in 0 .. MaxUnread
      BY <1>0, AdKinds DEF AdAnswered, Ad!Is
    <2>5. AdAgrees => AdAgrees'
      BY <1>0, <2>1, <2>2, <2>3, <2>4, ScreenBounds DEF AdAgrees
    <2> QED
      BY <2>1, <2>3, <2>5 DEF AdBadge
  <1>4. ASSUME Ad!Told PROVE AdBadge'
    <2>1. /\ s4 > 0 /\ s4' = s4 - 1 /\ s6' = s6 + 1 /\ UNCHANGED <<s1, s3, s7>>
          /\ s10' = (s10 \/ \E t \in Req : AdAnswered(t))
      BY <1>4 DEF Ad!Told, Ad!stored, AdAnswered
    <2>2. \A t \in Req : (AdCounting(t) <=> AdCounting(t)') /\ (AdAnswered(t) <=> AdAnswered(t)')
                         /\ (Ad!Is(t, "count", "asked") <=> Ad!Is(t, "count", "asked")')
      BY <2>1 DEF AdCounting, AdAnswered, Ad!Is
    <2>3. ASSUME AdAgrees, ~s10' PROVE AdAgrees'
      <3>1. (\A t \in Req : ~AdAnswered(t)) /\ s6 + s4 = s3[s1]
        BY <2>1, <2>3 DEF AdAgrees
      <3>2. s6' + s4' = s3'[s1']
        BY <1>0, <2>1, <3>1
      <3>3. \A t \in Req : ~Ad!Is(t, "count", "asked")' /\ ~AdAnswered(t)'
        BY <2>2, <2>3, <3>1 DEF AdAgrees
      <3> QED
        BY <3>2, <3>3 DEF AdAgrees
    <2> QED
      BY <2>1, <2>2, <2>3 DEF AdBadge
  <1>5. ASSUME NEW t \in Req, Ad!Change(t) \/ Ad!Mark(t) PROVE AdBadge'
    <2>1. PICK op \in {"change", "mark"} : s7' = [s7 EXCEPT ![t] = Ad!Asked(op)]
      BY <1>5 DEF Ad!Change, Ad!Mark
    <2>2. UNCHANGED <<s1, s3, s4, s6, s10>> /\ s7[t] = Ad!Idle
      BY <1>5 DEF Ad!Change, Ad!Mark, Ad!stored, Ad!shown, Ad!past
    <2>3. ~AdCounting(t)
      BY <1>0, <2>2 DEF AdCounting, Ad!Is
    <2>4. Ad!Asked(op).op = op /\ Ad!Asked(op).pc = "asked"
      BY DEF Ad!Asked
    <2> QED
      BY <1>0, <2>1, <2>2, <2>3, <2>4, AdSameBadge
  <1>6. ASSUME NEW t \in Req, Ad!Save(t) \/ Ad!ReadDatum(t) \/ Ad!Refreshed(t) PROVE AdBadge'
    <2>1. /\ UNCHANGED <<s1, s3, s4, s6, s10>> /\ s7[t].op \in {"change", "refresh"}
          /\ s7' = [s7 EXCEPT ![t] = s7'[t]] /\ s7'[t].op \in {s7[t].op, "idle"}
      <3>1. CASE Ad!Save(t)
        BY <1>0, <3>1 DEF Ad!Save, Ad!Is, Ad!Reply, Ad!shown, Ad!past
      <3>2. CASE Ad!ReadDatum(t)
        BY <1>0, <3>2 DEF Ad!ReadDatum, Ad!Is, Ad!Reply, Ad!shown, Ad!stored, Ad!past
      <3>3. CASE Ad!Refreshed(t)
        BY <1>0, <3>3 DEF Ad!Refreshed, Ad!Is, Ad!stored
      <3> QED
        BY <1>6, <3>1, <3>2, <3>3
    <2>2. ~AdCounting(t)
      BY <2>1 DEF AdCounting, Ad!Is
    <2> QED
      BY <1>0, <2>1, <2>2, AdSameBadge
  <1>7. ASSUME NEW t \in Req, Ad!Changed(t) PROVE AdBadge'
    <2>1. UNCHANGED <<s1, s3, s4, s6, s10>>
      BY <1>7 DEF Ad!Changed, Ad!stored, Ad!shown, Ad!past
    <2>2. CASE s1 = Nobody
      BY <2>1, <2>2 DEF AdBadge
    <2>3. CASE s1 # Nobody
      <3>1. s7' = [s7 EXCEPT ![t] = Ad!Asked(Ad!Follows(s7[t].op))]
        BY <1>7, <2>3 DEF Ad!Changed
      <3>2. \A op : Ad!Asked(op).op = op /\ Ad!Asked(op).pc = "asked" /\ Ad!Asked(op).of = s1
        BY DEF Ad!Asked
      <3>3. CASE s7[t].op = "change"
        <4>1. ~AdCounting(t) /\ Ad!Follows(s7[t].op) = "refresh"
          BY <3>3 DEF AdCounting, Ad!Is, Ad!Follows
        <4> QED
          BY <1>0, <2>1, <3>1, <3>2, <3>3, <4>1, AdSameBadge
      <3>4. CASE s7[t].op = "mark"
        <4>1. s7'[t] = Ad!Asked("count")
          BY <1>0, <3>1, <3>4 DEF Ad!Follows
        <4>2. AdCounting(t)'
          BY <2>1, <3>2, <4>1 DEF AdCounting, Ad!Is
        <4> QED
          BY <4>2 DEF AdBadge
      <3> QED
        BY <1>7, <3>3, <3>4 DEF Ad!Changed
    <2> QED
      BY <2>2, <2>3
  <1>8. ASSUME NEW t \in Req, Ad!MarkRead(t) PROVE AdBadge'
    <2>1. CASE Ad!Reply(t, 0)
      <3>1. s7'[t].op = "mark" /\ s7'[t].pc = "done"
        BY <1>0, <1>8, <2>1 DEF Ad!MarkRead, Ad!Reply, Ad!Is
      <3>2. AdCounting(t)'
        BY <3>1 DEF AdCounting, Ad!Is
      <3> QED
        BY <3>2 DEF AdBadge
    <2>2. CASE s10'
      BY <2>2 DEF AdBadge
    <2> QED
      BY <1>8, <2>1, <2>2 DEF Ad!MarkRead
  <1>9. ASSUME NEW t \in Req, Ad!ReadCount(t) PROVE AdBadge'
    <2> DEFINE y == [op |-> s7[t].op, pc |-> "done", of |-> s7[t].of,
                     late |-> s7[t].late, n |-> s3[s7[t].of]]
    <2>1. s7' = [s7 EXCEPT ![t] = y] /\ UNCHANGED <<s1, s3, s4, s6>>
      BY <1>9 DEF Ad!ReadCount, Ad!Reply, Ad!stored, Ad!shown
    <2>2. /\ y.op = "count" /\ y.pc = "done" /\ y.n = s3[s7[t].of]
          /\ s7[t].of \in User /\ Ad!Is(t, "count", "asked")
          /\ s10' = (s10 \/ s4 # 0 \/ \E s \in Req \ {t} : s7[s].op = "count")
      BY <1>0, <1>9, AdKinds DEF Ad!ReadCount, Ad!Is
    <2> HIDE DEF y
    <2>3. s7'[t] = y /\ \A s \in Req \ {t} : s7'[s] = s7[s]
      BY <1>0, <2>1
    <2> SUFFICES ASSUME s1 # Nobody, ~s10', \A s \in Req : ~AdCounting(s)'
                 PROVE  AdAgrees'
      BY <2>1 DEF AdBadge
    <2>4. s4 = 0 /\ \A s \in Req \ {t} : s7[s].op # "count"
      BY <2>2
    <2>5. \A s \in Req \ {t} : ~AdCounting(s)
      BY <2>1, <2>3 DEF AdCounting, Ad!Is
    <2>6. AdCounting(t)
      BY <2>2, <2>5 DEF AdBadge, AdAgrees
    <2>7. s7[t].of = s1
      BY <2>2, <2>6 DEF AdCounting, Ad!Is
    <2>8. s3[s1] \in Nat
      BY <1>0, <2>2, <2>7, ScreenBounds
    <2> QED
      BY <2>1, <2>2, <2>3, <2>4, <2>7, <2>8 DEF AdAgrees, AdAnswered, Ad!Is
  <1>10. ASSUME NEW t \in Req, Ad!Counted(t) PROVE AdBadge'
    <2>1. /\ Ad!Is(t, "count", "done") /\ s6' = s7[t].n /\ s7' = [s7 EXCEPT ![t] = Ad!Idle]
          /\ UNCHANGED <<s1, s3, s4, s10>>
      BY <1>10 DEF Ad!Counted, Ad!stored, Ad!past
    <2>2. s7'[t] = Ad!Idle /\ \A s \in Req \ {t} : s7'[s] = s7[s]
      BY <1>0, <2>1
    <2>3. \A s \in Req : /\ AdCounting(s) => AdCounting(s)'
                         /\ Ad!Is(s, "count", "asked")' => Ad!Is(s, "count", "asked")
                         /\ AdAnswered(s)' => AdAnswered(s) /\ s7'[s] = s7[s]
      BY <1>0, <2>1, <2>2 DEF AdCounting, AdAnswered, Ad!Is
    <2>4. AdAgrees => AdAgrees'
      BY <2>1, <2>3 DEF AdAgrees, AdAnswered
    <2> QED
      BY <2>1, <2>3, <2>4 DEF AdBadge
  <1>11. ASSUME NEW t \in Req, Ad!Fail(t) PROVE AdBadge'
    <2>1. /\ UNCHANGED <<s1, s3, s4, s6>> /\ s7' = [s7 EXCEPT ![t] = Ad!Idle]
          /\ s10' = (s10 \/ s7[t].op = "count" \/ Ad!Is(t, "mark", "done"))
      BY <1>11 DEF Ad!Fail, Ad!stored, Ad!shown
    <2>2. CASE s10'
      BY <2>2 DEF AdBadge
    <2>3. CASE ~s10'
      <3>1. ~AdCounting(t) /\ s7[t].op # "count" /\ s10' = s10
        BY <1>0, <2>1, <2>3 DEF AdCounting, Ad!Is
      <3> QED
        BY <1>0, <2>1, <3>1, AdSameBadge
    <2> QED
      BY <2>2, <2>3
  <1> QED
    BY <1>1, <1>2, <1>3, <1>4, <1>5, <1>6, <1>7, <1>8, <1>9, <1>10, <1>11 DEF Ad!Next

AdInv == AdBase /\ AdDatum /\ AdBadge

LEMMA AdMeans == ASSUME AdInv PROVE Ad!TypeOK /\ Ad!OwnData /\ Ad!DataTrue
  <1>1. Ad!Idle.op = "idle" /\ s6 \in Nat
    BY AdKinds DEF AdInv, AdBase, Ad!TypeOK
  <1>2. ASSUME Ad!Quiet, s1 # Nobody, ~s9
        PROVE  s5 = [of |-> s1, v |-> s2[s1]]
    BY <1>1, <1>2 DEF AdInv, AdDatum, AdBringing, Ad!Is, Ad!Quiet
  <1>3. ASSUME Ad!Quiet, s1 # Nobody, ~s10
        PROVE  s6 = s3[s1]
    BY <1>1, <1>3 DEF AdInv, AdBadge, AdAgrees, AdCounting, AdAnswered, Ad!Is, Ad!Quiet
  <1> QED
    BY <1>2, <1>3 DEF Ad!DataTrue, AdInv, AdBase

LEMMA AdInitInv == ASSUME Ad!Init PROVE AdInv
  BY AdInitBase, AdInitDatum, AdInitBadge DEF AdInv

LEMMA AdNextInv == ASSUME AdInv, Ad!Next PROVE AdInv'
  BY AdNextBase, AdNextDatum, AdNextBadge DEF AdInv

LEMMA AdStillInv == ASSUME AdInv, UNCHANGED Ad!vars PROVE AdInv'
  BY DEF AdInv, Ad!vars, AdBase, AdDatum, AdBadge, Ad!stored, Ad!shown, Ad!past, Ad!TypeOK,
     Ad!OwnData, AdOwned, Ad!Is,
         AdBringing, AdAgrees, AdCounting, AdAnswered

-----------------------------------------------------------------------------
(* FriendList: a list that is up to date is what is stored.                *)

FlLists == [{"friend"} -> {"none", "plain", "pinned"}]
FlTasks == {Fl!Idle} \cup [pc : {"asked", "done"}, op : Fl!Ops, f : {"friend"}, prev : FlLists, next : FlLists]
FlFetches == {Fl!Idle, [pc |-> "asked"]} \cup [pc : {"read"}, data : FlLists, good : BOOLEAN]

\* What a change makes of its friend.
FlAim(op) == CASE op = "remove" -> "none" [] op = "pin" -> "pinned" [] OTHER -> "plain"

\* A change that the list shows and the server may have, and a friend without one to come.
FlLed(t) ==
  LET f == s5[t].f IN
  /\ \A s \in Fl!Ahead \ {t} : s5[s].f # f
  /\ s5[t].next = [s5[t].prev EXCEPT ![f] = FlAim(s5[t].op)]
  /\ s5[t].pc = "asked" => s3[f] = FlAim(s5[t].op) /\ s5[t].prev[f] = Fl!Listed[f]
FlPlain(f) == (\A t \in Fl!Ahead : s5[t].pc = "asked" => s5[t].f # f) => s3[f] = Fl!Listed[f]

FlTyped ==
  /\ s1 \in [{"friend"} -> {"none", "asks", "plain", "pinned"}] /\ s3 \in FlLists
  /\ s2 \in {"loading", "success", "empty", "error"} /\ s6 \in BOOLEAN
  /\ s4 \in [Req -> FlFetches] /\ s5 \in [Req -> FlTasks] /\ Req # {}

FlInv ==
  /\ FlTyped
  /\ \A f \in Req : s4[f].pc = "read" /\ s4[f].good => Fl!Ahead = {} /\ s4[f].data = Fl!Listed
  /\ ~s6 => (\A t \in Fl!Ahead : FlLed(t)) /\ (\A f \in {"friend"} : FlPlain(f))

LEMMA FlKinds ==
  /\ Fl!Idle.pc = "idle" /\ Fl!Idle \in FlTasks /\ Fl!Idle \in FlFetches
  /\ [pc |-> "asked"] \in FlFetches
  /\ \A x \in FlTasks : x # Fl!Idle => /\ x \in [pc : {"asked", "done"}, op : Fl!Ops, f : {"friend"}, prev : FlLists, next : FlLists]
                                       /\ x.pc \in {"asked", "done"} /\ x.op \in Fl!Ops
                                       /\ x.f \in {"friend"}
                                       /\ x.prev \in FlLists /\ x.next \in FlLists
  /\ \A x \in FlFetches : /\ x.pc \in {"idle", "asked", "read"}
                          /\ x.pc = "read" => /\ x \in [pc : {"read"}, data : FlLists, good : BOOLEAN]
                                              /\ x.data \in FlLists /\ x.good \in BOOLEAN
  BY DEF Fl!Idle, FlTasks, FlFetches

LEMMA FlListing ==
  ASSUME FlTyped
  PROVE  /\ Fl!Listed \in FlLists /\ \A f \in {"friend"} : Fl!Listed[f] = IF s1[f] = "asks" THEN "none" ELSE s1[f]
  BY DEF FlTyped, Fl!Listed, FlLists

\* The reads of the list that a change spoils are of no use to it.
LEMMA FlSpoils ==
  ASSUME FlTyped
  PROVE  /\ Fl!Spoiled \in [Req -> FlFetches]
         /\ \A f \in Req : Fl!Spoiled[f].pc = "read" => ~Fl!Spoiled[f].good
  <1>1. ASSUME NEW f \in Req
        PROVE  Fl!Spoiled[f] \in FlFetches /\ (Fl!Spoiled[f].pc = "read" => ~Fl!Spoiled[f].good)
    <2>1. CASE s4[f].pc = "read"
      <3>1. s4[f] \in [pc : {"read"}, data : FlLists, good : BOOLEAN]
        BY <2>1, FlKinds DEF FlTyped
      <3>2. Fl!Spoiled[f] = [s4[f] EXCEPT !.good = FALSE]
        BY <2>1 DEF Fl!Spoiled
      <3> QED
        BY <3>1, <3>2 DEF FlFetches
    <2>2. CASE s4[f].pc # "read"
      BY <2>2 DEF Fl!Spoiled, FlTyped
    <2> QED
      BY <2>1, <2>2
  <1> QED
    BY <1>1 DEF Fl!Spoiled

LEMMA FlInitInv == ASSUME Fl!Init PROVE FlInv
  <1>1. PICK f \in Req : s4 = [g \in Req |-> [pc |-> IF g = f THEN "asked" ELSE "idle"]]
    BY DEF Fl!Init
  <1>2. \A g \in Req : s4[g] \in {Fl!Idle, [pc |-> "asked"]}
    BY <1>1 DEF Fl!Idle
  <1>3. s4 \in [Req -> FlFetches] /\ \A g \in Req : s4[g].pc # "read"
    BY <1>1, <1>2, FlKinds
  <1>4. s1 \in [{"friend"} -> {"none", "asks", "plain", "pinned"}]
    BY DEF Fl!Init
  <1> QED
    BY <1>3, <1>4, FlKinds DEF Fl!Init, FlInv, FlTyped, FlLists

\* A step that changes neither what is stored nor what is shown, nor what is ahead.
LEMMA FlSame ==
  ASSUME FlInv, UNCHANGED <<s1, s3>>, Fl!Ahead' = Fl!Ahead, \A t \in Fl!Ahead : s5'[t] = s5[t],
         s6' = s6
  PROVE  ~s6' => (\A t \in Fl!Ahead' : FlLed(t)') /\ (\A f \in {"friend"} : FlPlain(f)')
  <1>1. Fl!Listed' = Fl!Listed
    BY DEF Fl!Listed
  <1> QED
    BY <1>1 DEF FlInv, FlLed, FlPlain

LEMMA FlNextInv == ASSUME FlInv, Fl!Next PROVE FlInv'
  <1>0. /\ FlTyped /\ s4 \in [Req -> FlFetches] /\ s5 \in [Req -> FlTasks] /\ s3 \in FlLists
        /\ s1 \in [{"friend"} -> {"none", "asks", "plain", "pinned"}] /\ s6 \in BOOLEAN
    BY DEF FlInv, FlTyped
  \* Of the reads that still are of use.
  <1>1. ASSUME s4' = Fl!Spoiled, FlTyped', ~s6' => (\A t \in Fl!Ahead' : FlLed(t)') /\ (\A f \in {"friend"} : FlPlain(f)')
        PROVE  FlInv'
    BY <1>0, <1>1, FlSpoils DEF FlInv
  <1>2. ASSUME NEW f \in Req, Fl!Retry(f), UNCHANGED <<s1, s3, s6>>, FlTyped', Fl!Ahead' = Fl!Ahead,
               \A t \in Fl!Ahead : s5'[t] = s5[t]
        PROVE  FlInv'
    <2>1. s4'[f] = [pc |-> "asked"] /\ \A g \in Req \ {f} : s4'[g] = Fl!Spoiled[g]
      BY <1>0, <1>2, FlSpoils DEF Fl!Retry
    <2>2. \A g \in Req : s4'[g].pc = "read" => ~s4'[g].good
      BY <1>0, <2>1, FlSpoils
    <2> QED
      BY <1>2, <2>2, FlSame DEF FlInv
  <1>3. ASSUME NEW f \in Req, Fl!RetryError(f) PROVE FlInv'
    <2>1. Fl!Retry(f) /\ UNCHANGED <<s1, s3, s5, s6>>
      BY <1>3 DEF Fl!RetryError
    <2>2. FlTyped'
      BY <1>0, <2>1, FlSpoils, FlKinds DEF FlTyped, Fl!Retry
    <2>3. Fl!Ahead' = Fl!Ahead
      BY <2>1 DEF Fl!Ahead
    <2> QED
      BY <1>2, <2>1, <2>2, <2>3
  <1>4. ASSUME NEW f \in Req, Fl!Read(f) PROVE FlInv'
    <2> DEFINE new == [pc |-> "read", data |-> Fl!Listed, good |-> Fl!Ahead = {}]
    <2>1. s4' = [s4 EXCEPT ![f] = new] /\ UNCHANGED <<s1, s2, s3, s5, s6>>
      BY <1>4 DEF Fl!Read
    <2>2. new \in FlFetches /\ new.data = Fl!Listed /\ new.good = (Fl!Ahead = {})
      BY <1>0, FlListing DEF FlFetches
    <2> HIDE DEF new
    <2>3. s4'[f] = new /\ (\A g \in Req \ {f} : s4'[g] = s4[g]) /\ s4' \in [Req -> FlFetches]
      BY <1>0, <2>1, <2>2
    <2>4. Fl!Ahead' = Fl!Ahead /\ Fl!Listed' = Fl!Listed /\ FlTyped'
      BY <1>0, <2>1, <2>3 DEF Fl!Ahead, Fl!Listed, FlTyped
    <2> QED
      BY <2>1, <2>2, <2>3, <2>4, FlSame DEF FlInv
  <1>5. ASSUME NEW f \in Req, Fl!Answer(f) PROVE FlInv'
    <2>1. /\ s4[f].pc = "read" /\ s4' = [s4 EXCEPT ![f] = Fl!Idle] /\ UNCHANGED <<s1, s5>>
          /\ s2' \in {"empty", "success"}
          /\ UNCHANGED <<s3, s6>> \/ (s3' = s4[f].data /\ s6' = ~s4[f].good)
      BY <1>5 DEF Fl!Answer
    <2>2. s4[f].data \in FlLists /\ s4[f].good \in BOOLEAN
      BY <1>0, <2>1, FlKinds
    <2>3. s4'[f] = Fl!Idle /\ (\A g \in Req \ {f} : s4'[g] = s4[g]) /\ s4' \in [Req -> FlFetches]
      BY <1>0, <2>1, FlKinds
    <2>4. Fl!Ahead' = Fl!Ahead /\ Fl!Listed' = Fl!Listed /\ FlTyped'
      BY <1>0, <2>1, <2>2, <2>3 DEF Fl!Ahead, Fl!Listed, FlTyped
    <2>5. \A g \in Req : s4'[g].pc = "read" /\ s4'[g].good => Fl!Ahead' = {} /\ s4'[g].data = Fl!Listed'
      BY <2>3, <2>4, FlKinds DEF FlInv
    <2>6. CASE UNCHANGED <<s3, s6>>
      BY <2>1, <2>4, <2>5, <2>6, FlSame DEF FlInv
    <2>7. CASE s3' = s4[f].data /\ s6' = ~s4[f].good
      <3>1. ~s6' => Fl!Ahead' = {} /\ s3' = Fl!Listed'
        BY <2>1, <2>4, <2>7 DEF FlInv
      <3> QED
        BY <2>4, <2>5, <3>1 DEF FlInv, FlPlain
    <2> QED
      BY <2>1, <2>6, <2>7
  <1>6. ASSUME NEW f \in Req, Fl!Fail(f) PROVE FlInv'
    <2>1. s4' = [s4 EXCEPT ![f] = Fl!Idle] /\ s2' = "error" /\ UNCHANGED <<s1, s3, s5, s6>>
      BY <1>6 DEF Fl!Fail
    <2>2. s4'[f] = Fl!Idle /\ (\A g \in Req \ {f} : s4'[g] = s4[g]) /\ s4' \in [Req -> FlFetches]
      BY <1>0, <2>1, FlKinds
    <2>3. Fl!Ahead' = Fl!Ahead /\ Fl!Listed' = Fl!Listed /\ FlTyped'
      BY <1>0, <2>1, <2>2 DEF Fl!Ahead, Fl!Listed, FlTyped
    <2> QED
      BY <2>1, <2>2, <2>3, FlSame, FlKinds DEF FlInv
  <1>7. ASSUME NEW t \in Req, s5[t] # Fl!Idle, s5' = [s5 EXCEPT ![t] = Fl!Idle]
        PROVE  /\ s5' \in [Req -> FlTasks] /\ Fl!Ahead' = Fl!Ahead \ {t}
               /\ s5'[t] = Fl!Idle /\ \A s \in Req \ {t} : s5'[s] = s5[s]
    <2>1. s5' \in [Req -> FlTasks] /\ s5'[t] = Fl!Idle /\ \A s \in Req \ {t} : s5'[s] = s5[s]
      BY <1>0, <1>7, FlKinds
    <2> QED
      BY <2>1 DEF Fl!Ahead
  <1>8. ASSUME NEW t \in Req, NEW f \in Req, Fl!Accepted(t, f) PROVE FlInv'
    <2>1. /\ s5[t].pc = "done" /\ s5[t].op = "accept" /\ s5' = [s5 EXCEPT ![t] = Fl!Idle]
          /\ Fl!Retry(f) /\ UNCHANGED <<s1, s3, s6>>
      BY <1>8 DEF Fl!Accepted
    <2>2. s5[t] # Fl!Idle /\ t \notin Fl!Ahead
      BY <2>1, FlKinds DEF Fl!Ahead
    <2>3. s5' \in [Req -> FlTasks] /\ Fl!Ahead' = Fl!Ahead /\ \A s \in Fl!Ahead : s5'[s] = s5[s]
      BY <1>7, <2>1, <2>2 DEF Fl!Ahead
    <2>4. FlTyped'
      BY <1>0, <2>1, <2>3, FlSpoils, FlKinds DEF FlTyped, Fl!Retry
    <2> QED
      BY <1>2, <2>1, <2>3, <2>4
  <1>9. ASSUME NEW t \in Req, Fl!Serve(t) PROVE FlInv'
    <2> DEFINE op == s5[t].op
               f == s5[t].f
    <2>1. /\ s5[t].pc = "asked" /\ s1' = [s1 EXCEPT ![f] = FlAim(op)]
          /\ s5' = [s5 EXCEPT ![t].pc = "done"] /\ s4' = Fl!Spoiled
          /\ s6' = (s6 \/ op = "accept") /\ UNCHANGED <<s2, s3>>
      BY <1>9 DEF Fl!Serve, FlAim
    <2>2. s5[t] # Fl!Idle
      BY <2>1, FlKinds
    <2>3. op \in Fl!Ops /\ f \in {"friend"} /\ FlAim(op) \in {"none", "plain", "pinned"}
      BY <1>0, <2>2, FlKinds DEF FlAim
    <2>4. s1' \in [{"friend"} -> {"none", "asks", "plain", "pinned"}]
          /\ s1'[f] = FlAim(op) /\ \A g \in {"friend"} \ {f} : s1'[g] = s1[g]
      BY <1>0, <2>1, <2>3
    <2>5. PICK new : new = [s5[t] EXCEPT !.pc = "done"]
      OBVIOUS
    <2>6. /\ new \in FlTasks /\ new.pc = "done" /\ new.op = op /\ new.f = f /\ new # Fl!Idle
          /\ new.prev = s5[t].prev /\ new.next = s5[t].next
      BY <1>0, <2>2, <2>5, FlKinds DEF FlTasks
    <2>7. s5' = [s5 EXCEPT ![t] = new]
      BY <2>1, <2>5
    <2>8. s5' \in [Req -> FlTasks] /\ s5'[t] = new /\ \A s \in Req \ {t} : s5'[s] = s5[s]
      BY <1>0, <2>6, <2>7
    <2>9. Fl!Ahead' = Fl!Ahead
      BY <2>2, <2>6, <2>8 DEF Fl!Ahead
    <2>10. FlTyped'
      BY <1>0, <2>1, <2>4, <2>8, FlSpoils DEF FlTyped
    <2>11. Fl!Listed'[f] = FlAim(op) /\ \A g \in {"friend"} \ {f} : Fl!Listed'[g] = Fl!Listed[g]
      BY <1>0, <2>3, <2>4, <2>10, FlListing DEF Fl!Listed
    <2>12. ASSUME ~s6' PROVE (\A s \in Fl!Ahead' : FlLed(s)') /\ (\A g \in {"friend"} : FlPlain(g)')
      <3>1. ~s6 /\ t \in Fl!Ahead
        BY <2>1, <2>2, <2>12 DEF Fl!Ahead
      <3>2. /\ \A s \in Fl!Ahead : FlLed(s)
            /\ \A g \in {"friend"} : FlPlain(g)
        BY <3>1 DEF FlInv
      <3>3. s3[f] = FlAim(op) /\ \A s \in Fl!Ahead \ {t} : s5[s].f # f
        BY <2>1, <3>1, <3>2 DEF FlLed
      <3>4. \A s \in Fl!Ahead : /\ s5'[s].f = s5[s].f /\ s5'[s].op = s5[s].op
                                /\ s5'[s].prev = s5[s].prev /\ s5'[s].next = s5[s].next
        BY <2>6, <2>8 DEF Fl!Ahead
      <3>5. ASSUME NEW s \in Fl!Ahead' PROVE FlLed(s)'
        <4>1. CASE s = t
          BY <2>6, <2>8, <2>9, <3>2, <3>4, <4>1 DEF FlLed
        <4>2. CASE s # t
          <5>1. s5'[s] = s5[s] /\ s5[s].f \in {"friend"} \ {f}
            BY <1>0, <2>8, <2>9, <3>3, <3>5, <4>2, FlKinds DEF Fl!Ahead
          <5>2. Fl!Listed'[s5[s].f] = Fl!Listed[s5[s].f] /\ s3' = s3
            BY <2>1, <2>11, <5>1
          <5>3. \A r \in Fl!Ahead' : s5'[r].f = s5[r].f
            BY <2>9, <3>4
          <5>4. FlLed(s)
            BY <2>9, <3>2, <3>5
          <5> QED
            BY <2>9, <3>5, <5>1, <5>2, <5>3, <5>4 DEF FlLed
        <4> QED
          BY <4>1, <4>2
      <3>6. ASSUME NEW g \in {"friend"} PROVE FlPlain(g)'
        <4>1. CASE g = f
          BY <2>1, <2>11, <3>3, <4>1 DEF FlPlain
        <4>2. CASE g # f
          <5>1. (\A s \in Fl!Ahead : s5[s].pc = "asked" => s5[s].f # g)
                  <=> (\A s \in Fl!Ahead' : s5'[s].pc = "asked" => s5'[s].f # g)
            BY <2>1, <2>6, <2>8, <2>9, <3>4, <4>2 DEF Fl!Ahead
          <5> QED
            BY <2>1, <2>11, <3>2, <4>2, <5>1 DEF FlPlain
        <4> QED
          BY <4>1, <4>2
      <3> QED
        BY <3>5, <3>6
    <2> QED
      BY <1>1, <2>1, <2>10, <2>12
  <1>10. ASSUME NEW t \in Req, Fl!Done(t) PROVE FlInv'
    <2>1. /\ s5[t].pc = "done" /\ s5[t].op # "accept" /\ s5' = [s5 EXCEPT ![t] = Fl!Idle]
          /\ UNCHANGED <<s1, s2, s3, s4, s6>>
      BY <1>10 DEF Fl!Done
    <2>2. s5[t] # Fl!Idle /\ t \in Fl!Ahead
      BY <2>1, FlKinds DEF Fl!Ahead
    <2>3. /\ s5' \in [Req -> FlTasks] /\ Fl!Ahead' = Fl!Ahead \ {t}
          /\ \A s \in Req \ {t} : s5'[s] = s5[s]
      BY <1>7, <2>1, <2>2
    <2>4. FlTyped' /\ Fl!Listed' = Fl!Listed
      BY <1>0, <2>1, <2>3 DEF FlTyped, Fl!Listed
    <2>5. \A s \in Fl!Ahead' : s5'[s] = s5[s]
      BY <2>3 DEF Fl!Ahead
    <2>6. ASSUME ~s6' PROVE (\A s \in Fl!Ahead' : FlLed(s)') /\ (\A g \in {"friend"} : FlPlain(g)')
      BY <2>1, <2>3, <2>4, <2>5, <2>6 DEF FlInv, FlLed, FlPlain
    <2> QED
      BY <2>1, <2>2, <2>4, <2>6 DEF FlInv
  <1>11. ASSUME NEW t \in Req, Fl!Refused(t) PROVE FlInv'
    <2>1. s5[t] # Fl!Idle /\ s5' = [s5 EXCEPT ![t] = Fl!Idle] /\ UNCHANGED <<s1, s2>>
      BY <1>11 DEF Fl!Refused
    <2>2. /\ s5' \in [Req -> FlTasks] /\ Fl!Ahead' = Fl!Ahead \ {t}
          /\ \A s \in Req \ {t} : s5'[s] = s5[s]
      BY <1>7, <2>1
    <2>3. Fl!Listed' = Fl!Listed /\ s5[t].prev \in FlLists /\ s5[t].f \in {"friend"}
      BY <1>0, <2>1, FlKinds DEF Fl!Listed
    <2>4. CASE s5[t].op = "accept"
      <3>1. UNCHANGED <<s3, s4, s6>>
        BY <1>11, <2>4 DEF Fl!Refused
      <3>2. Fl!Ahead' = Fl!Ahead /\ \A s \in Fl!Ahead : s5'[s] = s5[s]
        BY <2>2, <2>4 DEF Fl!Ahead
      <3>3. FlTyped'
        BY <1>0, <2>1, <2>2, <3>1 DEF FlTyped
      <3> QED
        BY <2>1, <2>3, <3>1, <3>2, <3>3, FlSame DEF FlInv
    <2>5. CASE s5[t].op # "accept"
      <3>1. /\ s3' = s5[t].prev /\ s4' = Fl!Spoiled
            /\ s6' = (s6 \/ s5[t].pc = "done" \/ s3 # s5[t].next)
        BY <1>11, <2>5 DEF Fl!Refused
      <3>2. FlTyped'
        BY <1>0, <2>1, <2>2, <2>3, <3>1, FlSpoils DEF FlTyped
      <3>3. ASSUME ~s6' PROVE (\A s \in Fl!Ahead' : FlLed(s)') /\ (\A g \in {"friend"} : FlPlain(g)')
        <4>1. ~s6 /\ s5[t].pc = "asked" /\ s3 = s5[t].next /\ t \in Fl!Ahead
          BY <1>0, <2>1, <2>5, <3>1, <3>3, FlKinds DEF Fl!Ahead
        <4>2. /\ \A s \in Fl!Ahead : FlLed(s)
              /\ \A g \in {"friend"} : FlPlain(g)
          BY <4>1 DEF FlInv
        <4>3. s3 = [s5[t].prev EXCEPT ![s5[t].f] = FlAim(s5[t].op)]
          BY <4>1, <4>2 DEF FlLed
        <4>4. s3'[s5[t].f] = Fl!Listed[s5[t].f] /\ \A g \in {"friend"} \ {s5[t].f} : s3'[g] = s3[g]
          <5>1. s5[t].prev[s5[t].f] = Fl!Listed[s5[t].f]
            BY <4>1, <4>2 DEF FlLed
          <5> QED
            BY <2>3, <3>1, <4>3, <5>1 DEF FlLists
        <4>5. ASSUME NEW s \in Fl!Ahead' PROVE FlLed(s)'
          <5>1. s5'[s] = s5[s] /\ s5[s].f \in {"friend"} \ {s5[t].f} /\ s \in Fl!Ahead
            BY <1>0, <2>2, <4>1, <4>2, <4>5, FlKinds DEF Fl!Ahead, FlLed
          <5>2. \A r \in Fl!Ahead' : s5'[r] = s5[r]
            BY <2>2 DEF Fl!Ahead
          <5> QED
            BY <2>2, <2>3, <4>2, <4>4, <5>1, <5>2 DEF FlLed
        <4>6. ASSUME NEW g \in {"friend"} PROVE FlPlain(g)'
          <5>1. CASE g = s5[t].f
            BY <2>3, <4>4, <5>1 DEF FlPlain
          <5>2. CASE g # s5[t].f
            <6>1. \A r \in Fl!Ahead' : s5'[r] = s5[r]
              BY <2>2 DEF Fl!Ahead
            <6> QED
              BY <2>2, <2>3, <4>2, <4>4, <5>2, <6>1 DEF FlPlain
          <5> QED
            BY <5>1, <5>2
        <4> QED
          BY <4>5, <4>6
      <3> QED
        BY <1>1, <3>1, <3>2, <3>3
    <2> QED
      BY <2>4, <2>5
  <1>12. ASSUME NEW t \in Req, NEW op \in Fl!Ops, NEW f \in {"friend"}, Fl!Ask(t, op, f) PROVE FlInv'
    <2> DEFINE new == [pc |-> "asked", op |-> op, f |-> f, prev |-> s3, next |-> Fl!Shown(op, f)]
    <2>1. /\ s5[t] = Fl!Idle /\ s5' = [s5 EXCEPT ![t] = new] /\ s3' = Fl!Shown(op, f)
          /\ s4' = IF op = "accept" THEN s4 ELSE Fl!Spoiled
          /\ s6' = (s6 \/ \E s \in Fl!Ahead : s5[s].f = f /\ op # "accept")
          /\ UNCHANGED <<s1, s2>>
      BY <1>12 DEF Fl!Ask
    <2>2. /\ op = "accept" => Fl!Shown(op, f) = s3
          /\ op # "accept" => Fl!Shown(op, f) = [s3 EXCEPT ![f] = FlAim(op)] /\ FlAim(op) \in {"none", "plain", "pinned"}
      BY DEF Fl!Shown, FlAim, Fl!Ops
    <2>3. Fl!Shown(op, f) \in FlLists
      BY <1>0, <2>2 DEF FlLists
    <2>4. /\ new \in FlTasks /\ new # Fl!Idle /\ new.op = op /\ new.f = f /\ new.pc = "asked"
          /\ new.prev = s3 /\ new.next = Fl!Shown(op, f)
      BY <1>0, <2>3, FlKinds DEF FlTasks
    <2> HIDE DEF new
    <2>5. s5'[t] = new /\ (\A s \in Req \ {t} : s5'[s] = s5[s]) /\ s5' \in [Req -> FlTasks]
      BY <1>0, <2>1, <2>4
    <2>6. FlTyped' /\ Fl!Listed' = Fl!Listed
      BY <1>0, <2>1, <2>3, <2>5, FlSpoils DEF FlTyped, Fl!Listed
    <2>7. t \notin Fl!Ahead /\ \A s \in Fl!Ahead : s5'[s] = s5[s]
      BY <2>1, <2>5 DEF Fl!Ahead
    <2>8. CASE op = "accept"
      <3>1. Fl!Ahead' = Fl!Ahead
        BY <2>1, <2>4, <2>5, <2>8 DEF Fl!Ahead
      <3>2. UNCHANGED <<s3, s4>> /\ s6' = s6
        BY <1>0, <2>1, <2>2, <2>8
      <3> QED
        BY <2>1, <2>6, <2>7, <3>1, <3>2, FlSame DEF FlInv
    <2>9. CASE op # "accept"
      <3>1. Fl!Ahead' = Fl!Ahead \cup {t}
        BY <2>1, <2>4, <2>5, <2>9 DEF Fl!Ahead
      <3>2. s3'[f] = FlAim(op) /\ \A g \in {"friend"} \ {f} : s3'[g] = s3[g]
        BY <1>0, <2>1, <2>2, <2>9 DEF FlLists
      <3>3. ASSUME ~s6' PROVE (\A s \in Fl!Ahead' : FlLed(s)') /\ (\A g \in {"friend"} : FlPlain(g)')
        <4>1. ~s6 /\ \A s \in Fl!Ahead : s5[s].f # f
          BY <2>1, <2>9, <3>3
        <4>2. /\ \A s \in Fl!Ahead : FlLed(s)
              /\ \A g \in {"friend"} : FlPlain(g)
          BY <4>1 DEF FlInv
        <4>3. s3[f] = Fl!Listed[f]
          BY <4>1, <4>2 DEF FlPlain
        <4>4. ASSUME NEW s \in Fl!Ahead' PROVE FlLed(s)'
          <5>1. CASE s = t
            BY <2>2, <2>4, <2>5, <2>6, <2>7, <2>9, <3>1, <3>2, <4>1, <4>3, <5>1 DEF FlLed
          <5>2. CASE s # t
            <6>1. s \in Fl!Ahead /\ s5'[s] = s5[s] /\ s5[s].f \in {"friend"} \ {f}
              BY <1>0, <2>7, <3>1, <4>1, <4>4, <5>2, FlKinds DEF Fl!Ahead
            <6> QED
              BY <2>4, <2>5, <2>6, <2>7, <3>1, <3>2, <4>2, <6>1 DEF FlLed
          <5> QED
            BY <5>1, <5>2
        <4>5. ASSUME NEW g \in {"friend"} PROVE FlPlain(g)'
          <5>1. CASE g = f
            BY <2>4, <2>5, <3>1, <5>1 DEF FlPlain
          <5>2. CASE g # f
            BY <2>6, <2>7, <3>1, <3>2, <4>2, <5>2 DEF FlPlain
          <5> QED
            BY <5>1, <5>2
        <4> QED
          BY <4>4, <4>5
      <3> QED
        BY <1>1, <2>1, <2>6, <2>9, <3>3
    <2> QED
      BY <2>8, <2>9
  <1>13. ASSUME NEW f \in {"friend"}, Fl!Other(f) PROVE FlInv'
    <2>1. s4' = Fl!Spoiled /\ s6' = TRUE /\ UNCHANGED <<s2, s3, s5>>
          /\ \E s \in {"none", "asks", "plain"} : s1' = [s1 EXCEPT ![f] = s]
      BY <1>13 DEF Fl!Other
    <2>2. FlTyped'
      BY <1>0, <2>1, FlSpoils DEF FlTyped
    <2> QED
      BY <1>1, <2>1, <2>2
  <1> QED
    BY <1>3, <1>4, <1>5, <1>6, <1>8, <1>9, <1>10, <1>11, <1>12, <1>13 DEF Fl!Next

LEMMA FlMeans == ASSUME FlInv PROVE Fl!TypeOK /\ Fl!ListTrue
  <1>1. Fl!TypeOK
    BY FlKinds DEF FlInv, FlTyped, Fl!TypeOK, FlLists
  <1>2. ASSUME Fl!Quiet, ~s6 PROVE s3 = Fl!Listed
    <2>1. Fl!Ahead = {}
      BY <1>2 DEF FlInv, FlTyped, Fl!Quiet, Fl!Ahead
    <2>2. \A f \in {"friend"} : s3[f] = Fl!Listed[f]
      BY <1>2, <2>1 DEF FlInv, FlPlain
    <2>3. FlTyped
      BY DEF FlInv
    <2>4. s3 \in FlLists /\ Fl!Listed \in FlLists
      BY <2>3, FlListing DEF FlTyped
    <2> QED
      BY <2>2, <2>4 DEF FlLists
  <1> QED
    BY <1>1, <1>2 DEF Fl!ListTrue

LEMMA FlStillInv == ASSUME FlInv, UNCHANGED Fl!vars PROVE FlInv'
  <1>1. UNCHANGED <<s1, s2, s3, s4, s5, s6>>
    BY DEF Fl!vars
  <1>2. FlTyped' /\ Fl!Ahead' = Fl!Ahead /\ Fl!Listed' = Fl!Listed
    BY <1>1 DEF FlInv, FlTyped, Fl!Ahead, Fl!Listed
  <1>3. /\ \A t \in Fl!Ahead : FlLed(t) => FlLed(t)'
        /\ \A f \in {"friend"} : FlPlain(f) => FlPlain(f)'
    BY <1>1, <1>2 DEF FlLed, FlPlain
  <1> QED
    BY <1>1, <1>2, <1>3 DEF FlInv

-----------------------------------------------------------------------------
(* CommunityForm: the form is of the community the page is at.             *)

\* Until the page goes on with something in flight, there is one fetch at a time, of
\* the community it is at, and no save meanwhile.
CfInOrder == ~s7 =>
  /\ \A f \in Req : Cf!InFlight(f) => s3 = Cf!Loading /\ s6 = Cf!Idle /\ s4[f].of = s2
  /\ \A f, g \in Req : Cf!InFlight(f) /\ Cf!InFlight(g) => f = g
  /\ s6 # Cf!Idle => Cf!Rendered /\ s6.of = s2
  /\ Cf!Rendered => s3.of = s2

\* Until a form is carried on, or opened on late data, settings stay those of their
\* community wherever they go.
CfKept == s8 \/
  /\ \A c \in Spot : s1[c].of = c
  /\ \A f \in Req : s4[f].pc = "read" => s4[f].row.of = s4[f].of
  /\ Cf!Rendered => s3.row.of = s3.of
  /\ s6.pc = "asked" => s6.row.of = s6.of
  /\ s5.open => s5.row.of = s2

\* What was read is what is stored, until a save of the page itself is written.
CfFresh == ~s7 /\ ~s9 =>
  /\ \A f \in Req : s4[f].pc = "read" => s4[f].row = s1[s2]
  /\ Cf!Rendered /\ s6.pc # "written" => s3.row = s1[s2]

CfInv == Cf!TypeOK /\ CfInOrder /\ CfKept /\ CfFresh /\ Cf!LoadingIsAwaited

LEMMA CfMeans ==
  ASSUME CfInv
  PROVE  /\ Cf!TypeOK /\ Cf!RightCommunity /\ Cf!OwnSettings /\ Cf!LoadingIsAwaited
         /\ Cf!SavedTrue
  BY DEF CfInv, CfInOrder, CfKept, CfFresh, Cf!RightCommunity, Cf!OwnSettings, Cf!SavedTrue,
     Cf!Quiet, Cf!Idle

\* The shapes of a fetch, of the page's data and of a save.
LEMMA CfShapes ==
  /\ Cf!Idle \in Cf!Fetches /\ Cf!Idle \in Cf!Saving /\ Cf!Idle.pc = "idle"
  /\ Cf!Loading \in Cf!Data /\ Cf!Error \in Cf!Data /\ Cf!Loading # Cf!Error
  /\ Cf!Loading.status = "loading" /\ Cf!Error.status = "error"
  /\ \A x \in Cf!Fetches : x # Cf!Idle <=> x.pc \in {"asked", "read"}
  /\ \A x \in Cf!Fetches : x # Cf!Idle => x.of \in Spot /\ x.by \in Cf!By /\ x.aborted \in BOOLEAN
  /\ \A x \in Cf!Fetches : x.pc = "read" => x.row \in Cf!Setting
  /\ \A x \in Cf!Saving : x # Cf!Idle <=> x.pc \in {"asked", "written", "refused"}
  /\ \A x \in Cf!Saving : x # Cf!Idle => x.of \in Spot
  /\ \A x \in Cf!Saving : x.pc = "asked" => x.row \in Cf!Setting
  /\ \A x \in Cf!Data : x.status = "success" => x.of \in Spot /\ x.row \in Cf!Setting
  <1>1. Cf!Idle \in Cf!Fetches /\ Cf!Idle \in Cf!Saving /\ Cf!Idle.pc = "idle"
    BY DEF Cf!Idle, Cf!Fetches, Cf!Saving
  <1>2. /\ Cf!Loading \in Cf!Data /\ Cf!Error \in Cf!Data /\ Cf!Loading # Cf!Error
        /\ Cf!Loading.status = "loading" /\ Cf!Error.status = "error"
    BY DEF Cf!Loading, Cf!Error, Cf!Data
  <1>3. \A x \in Cf!Fetches : x # Cf!Idle <=> x.pc \in {"asked", "read"}
    BY DEF Cf!Idle, Cf!Fetches
  <1>4. \A x \in Cf!Fetches : x # Cf!Idle => x.of \in Spot /\ x.by \in Cf!By /\ x.aborted \in BOOLEAN
    BY DEF Cf!Idle, Cf!Fetches
  <1>5. \A x \in Cf!Fetches : x.pc = "read" => x.row \in Cf!Setting
    BY DEF Cf!Idle, Cf!Fetches
  <1>6. \A x \in Cf!Saving : x # Cf!Idle <=> x.pc \in {"asked", "written", "refused"}
    BY DEF Cf!Idle, Cf!Saving
  <1>7. \A x \in Cf!Saving : x # Cf!Idle => x.of \in Spot
    BY DEF Cf!Idle, Cf!Saving
  <1>8. \A x \in Cf!Saving : x.pc = "asked" => x.row \in Cf!Setting
    BY DEF Cf!Idle, Cf!Saving
  <1>9. \A x \in Cf!Data : x.status = "success" => x.of \in Spot /\ x.row \in Cf!Setting
    BY DEF Cf!Data, Cf!Loading, Cf!Error
  <1> QED
    BY <1>1, <1>2, <1>3, <1>4, <1>5, <1>6, <1>7, <1>8, <1>9

LEMMA CfRunShape ==
  ASSUME NEW by \in Cf!By, NEW c \in Spot
  PROVE  /\ Cf!Run(by, c) \in Cf!Fetches /\ Cf!Run(by, c) # Cf!Idle /\ Cf!Run(by, c).of = c
         /\ Cf!Run(by, c).pc = "asked" /\ ~Cf!Run(by, c).aborted
  BY DEF Cf!Run, Cf!Fetches, Cf!Idle

LEMMA CfAbortedShape ==
  ASSUME NEW x \in Cf!Fetches, x # Cf!Idle
  PROVE  LET y == [x EXCEPT !.aborted = TRUE]
         IN y \in Cf!Fetches /\ y # Cf!Idle /\ y.pc = x.pc /\ y.of = x.of
            /\ (x.pc = "read" => y.row = x.row)
  <1>1. CASE x \in [pc : {"asked"}, by : Cf!By, of : Spot, aborted : BOOLEAN]
    BY <1>1 DEF Cf!Fetches, Cf!Idle
  <1>2. CASE x \in [pc : {"read"}, by : Cf!By, of : Spot, aborted : BOOLEAN, row : Cf!Setting]
    BY <1>2 DEF Cf!Fetches, Cf!Idle
  <1> QED
    BY <1>1, <1>2 DEF Cf!Fetches

LEMMA CfInitInv == ASSUME Cf!Init PROVE CfInv
  <1>1. PICK f \in Req : s4 = [g \in Req |-> IF g = f THEN Cf!Run("effect", s2) ELSE Cf!Idle]
    BY DEF Cf!Init
  <1>2. s2 \in Spot /\ "effect" \in Cf!By
    BY DEF Cf!Init, Cf!By
  <1>3. s4[f] = Cf!Run("effect", s2) /\ \A g \in Req \ {f} : s4[g] = Cf!Idle
    BY <1>1
  <1>4. s4 \in [Req -> Cf!Fetches]
    BY <1>1, <1>2, CfRunShape, CfShapes
  <1>5. \A c \in Spot : s1[c] \in Cf!Setting /\ s1[c].of = c
    BY DEF Cf!Init, Cf!Setting
  <1>6. Cf!TypeOK
    BY <1>2, <1>4, <1>5, CfShapes DEF Cf!Init, Cf!TypeOK, Cf!Forms, Cf!Closed
  <1>7. CfInOrder /\ Cf!LoadingIsAwaited
    BY <1>2, <1>3, CfRunShape, CfShapes DEF Cf!Init, CfInOrder, Cf!LoadingIsAwaited,
       Cf!InFlight, Cf!Rendered
  <1>8. CfKept /\ CfFresh
    BY <1>2, <1>3, <1>5, CfRunShape, CfShapes DEF Cf!Init, CfKept, CfFresh, Cf!Rendered,
       Cf!Closed
  <1> QED
    BY <1>6, <1>7, <1>8 DEF CfInv

\* A fetch in a slot that was free, with nothing in flight that the page knows of.
LEMMA CfRunInv ==
  ASSUME CfInv, NEW f \in Req, ~Cf!InFlight(f), NEW by \in Cf!By, NEW c \in Spot,
         s3' = Cf!Loading, s4' = [s4 EXCEPT ![f] = Cf!Run(by, c)],
         s6' \in {s6, Cf!Idle}, ~s7 => s6' = Cf!Idle, UNCHANGED <<s1, s2, s7, s8, s9>>,
         s5' = s5 \/ s5' = Cf!Closed,
         ~s7 => c = s2 /\ \A g \in Req : ~Cf!InFlight(g)
  PROVE  CfInv'
  <1>0. s4 \in [Req -> Cf!Fetches] /\ s5 \in Cf!Forms
    BY DEF CfInv, Cf!TypeOK
  <1>1. s4'[f] = Cf!Run(by, c) /\ \A g \in Req \ {f} : s4'[g] = s4[g]
    BY <1>0
  <1>2. Cf!TypeOK'
    BY <1>0, CfRunShape, CfShapes DEF CfInv, Cf!TypeOK, Cf!Forms, Cf!Closed
  <1>3. CfInOrder' /\ Cf!LoadingIsAwaited'
    BY <1>1, CfRunShape, CfShapes DEF CfInOrder, Cf!LoadingIsAwaited, Cf!InFlight,
       Cf!Rendered
  <1>4. CfKept' /\ CfFresh'
    BY <1>1, CfRunShape, CfShapes DEF CfInv, CfKept, CfFresh, Cf!Rendered, Cf!Closed,
       Cf!InFlight
  <1> QED
    BY <1>2, <1>3, <1>4 DEF CfInv

\* A fetch that ends.
LEMMA CfDoneInv ==
  ASSUME CfInv, NEW f \in Req, Cf!Answer(f) \/ Cf!Fail(f)
  PROVE  CfInv'
  <1>0. s4 \in [Req -> Cf!Fetches] /\ s3 \in Cf!Data
    BY DEF CfInv, Cf!TypeOK
  <1>1. /\ s4'[f] = Cf!Idle /\ \A g \in Req \ {f} : s4'[g] = s4[g]
        /\ s4' \in [Req -> Cf!Fetches] /\ Cf!InFlight(f)
        /\ UNCHANGED <<s1, s2, s5, s6, s7, s8, s9>>
    BY <1>0, CfShapes DEF Cf!Answer, Cf!Fail, Cf!InFlight
  <1>2. /\ s3' \in Cf!Data
        /\ s3' = Cf!Loading => s3 = Cf!Loading /\ s4[f].aborted
        /\ Cf!Rendered' => \/ s3' = s3
                           \/ /\ s4[f].pc = "read" /\ s3'.of = s4[f].of
                              /\ s3'.row = s4[f].row
    <2>1. CASE Cf!Answer(f)
      <3>1. s4[f].of \in Spot /\ s4[f].row \in Cf!Setting
        BY <1>0, <2>1, CfShapes DEF Cf!Answer
      <3> QED
        BY <2>1, <3>1 DEF Cf!Answer, Cf!Data, Cf!Loading
    <2>2. CASE Cf!Fail(f)
      BY <1>0, <2>2, CfShapes DEF Cf!Fail, Cf!Rendered
    <2> QED
      BY <2>1, <2>2
  <1>3. Cf!TypeOK'
    BY <1>1, <1>2 DEF CfInv, Cf!TypeOK
  <1>4. Cf!LoadingIsAwaited'
    BY <1>1, <1>2 DEF CfInv, Cf!LoadingIsAwaited, Cf!InFlight
  <1>5. CfInOrder'
    BY <1>0, <1>1, <1>2, CfShapes DEF CfInv, CfInOrder, Cf!InFlight, Cf!Rendered
  <1>6. CfKept' /\ CfFresh'
    BY <1>0, <1>1, <1>2, CfShapes DEF CfInv, CfKept, CfFresh, CfInOrder, Cf!InFlight,
       Cf!Rendered
  <1> QED
    BY <1>3, <1>4, <1>5, <1>6 DEF CfInv

LEMMA CfGoInv ==
  ASSUME CfInv, NEW f \in Req, NEW c \in Spot, Cf!Go(f, c)
  PROVE  CfInv'
  <1>0. s4 \in [Req -> Cf!Fetches]
    BY DEF CfInv, Cf!TypeOK
  <1>1. "effect" \in Cf!By
    BY DEF Cf!By
  <1>2. \A g \in Req : /\ Cf!Aborted[g] \in Cf!Fetches /\ (Cf!Aborted[g] # Cf!Idle <=> s4[g] # Cf!Idle)
                       /\ Cf!Aborted[g].pc = s4[g].pc /\ Cf!Aborted[g].of = s4[g].of
                       /\ s4[g].pc = "read" => Cf!Aborted[g].row = s4[g].row
    BY <1>0, CfAbortedShape DEF Cf!Aborted, Cf!InFlight
  <1>3. /\ s4'[f] = Cf!Run("effect", c) /\ \A g \in Req \ {f} : s4'[g] = Cf!Aborted[g]
        /\ s4' = [Cf!Aborted EXCEPT ![f] = Cf!Run("effect", c)]
    BY DEF Cf!Go, Cf!Aborted
  <1>4. s4' \in [Req -> Cf!Fetches]
    BY <1>1, <1>2, <1>3, CfRunShape DEF Cf!Aborted
  <1>5. Cf!TypeOK'
    BY <1>4, CfShapes DEF CfInv, Cf!TypeOK, Cf!Go, Cf!Forms, Cf!Closed
  <1>6. Cf!LoadingIsAwaited'
    BY <1>1, <1>3, CfRunShape DEF Cf!LoadingIsAwaited, Cf!InFlight
  <1>7. /\ s2' = c /\ s3' = Cf!Loading /\ s8' = (s8 \/ s5.open)
        /\ UNCHANGED <<s1, s5, s6>> /\ Cf!Loading.status # "success"
        /\ ~s7' => s6 = Cf!Idle /\ \A g \in Req : s4[g] = Cf!Idle
    BY CfShapes DEF Cf!Go, Cf!Quiet, Cf!InFlight
  <1>8. ~s7' => \A g \in Req \ {f} : s4'[g] = Cf!Idle
    BY <1>2, <1>3, <1>7
  <1>9. s4'[f] # Cf!Idle /\ s4'[f].of = c /\ s4'[f].pc = "asked"
    BY <1>1, <1>3, CfRunShape
  <1>10. CfInOrder'
    BY <1>7, <1>8, <1>9 DEF CfInOrder, Cf!InFlight, Cf!Rendered
  <1>11. CfKept'
    <2> SUFFICES ASSUME ~s8' PROVE CfKept'
      BY DEF CfKept
    <2>1. ~s8 /\ ~s5.open
      BY <1>7
    <2>2. \A g \in Req : s4'[g].pc = "read" => s4'[g].row.of = s4'[g].of
      BY <1>2, <1>3, <1>9, <2>1 DEF CfInv, CfKept
    <2> QED
      BY <1>7, <2>1, <2>2 DEF CfInv, CfKept, Cf!Rendered
  <1>12. CfFresh'
    BY <1>7, <1>8, <1>9, CfShapes DEF CfFresh, Cf!Rendered
  <1> QED
    BY <1>5, <1>6, <1>10, <1>11, <1>12 DEF CfInv

LEMMA CfReadInv ==
  ASSUME CfInv, NEW f \in Req, Cf!FetchRead(f)
  PROVE  CfInv'
  <1>0. s4 \in [Req -> Cf!Fetches] /\ s1 \in [Spot -> Cf!Setting]
    BY DEF CfInv, Cf!TypeOK
  <1>1. /\ s4[f] # Cf!Idle /\ s4[f].of \in Spot /\ s4[f].by \in Cf!By
        /\ s4[f].aborted \in BOOLEAN
    BY <1>0, CfShapes DEF Cf!FetchRead
  <1>2. /\ Cf!Reading(f) \in Cf!Fetches /\ Cf!Reading(f) # Cf!Idle /\ Cf!Reading(f).pc = "read"
        /\ Cf!Reading(f).of = s4[f].of /\ Cf!Reading(f).aborted = s4[f].aborted
        /\ Cf!Reading(f).row = s1[s4[f].of]
    BY <1>0, <1>1 DEF Cf!Reading, Cf!Fetches, Cf!Idle
  <1>3. /\ s4'[f] = Cf!Reading(f) /\ \A g \in Req \ {f} : s4'[g] = s4[g]
        /\ s4' \in [Req -> Cf!Fetches]
    BY <1>0, <1>2 DEF Cf!FetchRead
  <1>4. Cf!TypeOK'
    BY <1>3 DEF CfInv, Cf!TypeOK, Cf!FetchRead
  <1>5. CfInOrder' /\ Cf!LoadingIsAwaited'
    BY <1>1, <1>2, <1>3 DEF CfInv, CfInOrder, Cf!LoadingIsAwaited, Cf!FetchRead,
       Cf!InFlight, Cf!Rendered
  <1>6. CfKept'
    BY <1>1, <1>2, <1>3 DEF CfInv, CfKept, Cf!FetchRead, Cf!Rendered
  <1>7. CfFresh'
    BY <1>1, <1>2, <1>3 DEF CfInv, CfFresh, CfInOrder, Cf!InFlight, Cf!FetchRead,
       Cf!Rendered
  <1> QED
    BY <1>4, <1>5, <1>6, <1>7 DEF CfInv

LEMMA CfFormInv ==
  ASSUME CfInv, Cf!OpenSettings \/ Cf!Type \/ Cf!Close
  PROVE  CfInv'
  <1>1. \A row \in Cf!Setting : Cf!Opened(row) \in Cf!Forms /\ Cf!Opened(row).open /\ Cf!Opened(row).row = row
    BY DEF Cf!Opened, Cf!Forms
  <1>2. Cf!Closed \in Cf!Forms /\ ~Cf!Closed.open
    BY DEF Cf!Closed, Cf!Forms
  <1>3. UNCHANGED <<s1, s2, s3, s4, s6, s7, s9>>
    BY DEF Cf!OpenSettings, Cf!Type, Cf!Close
  <1>4. s3 \in Cf!Data /\ s2 \in Spot /\ s8 \in BOOLEAN
    BY DEF CfInv, Cf!TypeOK
  <1>5. Cf!TypeOK'
    <2>1. s5' \in Cf!Forms
      <3>1. CASE Cf!OpenSettings
        BY <1>1, <1>4, <3>1, CfShapes DEF Cf!OpenSettings, Cf!Rendered
      <3>2. CASE Cf!Type
        BY <1>1, <1>4, <3>2 DEF Cf!Type, Cf!Setting
      <3>3. CASE Cf!Close
        BY <1>2, <3>3 DEF Cf!Close
      <3> QED
        BY <3>1, <3>2, <3>3
    <2>2. s8' \in BOOLEAN
      BY <1>4 DEF Cf!OpenSettings, Cf!Type, Cf!Close, CfInv, Cf!TypeOK
    <2> QED
      BY <1>3, <2>1, <2>2 DEF CfInv, Cf!TypeOK
  <1>6. CfInOrder' /\ CfFresh' /\ Cf!LoadingIsAwaited'
    BY <1>3 DEF CfInv, CfInOrder, CfFresh, Cf!LoadingIsAwaited, Cf!InFlight, Cf!Rendered
  <1>7. CfKept'
    <2>1. CASE Cf!OpenSettings
      <3>1. s3.row \in Cf!Setting /\ s3.status = "success"
        BY <1>4, <2>1, CfShapes DEF Cf!OpenSettings, Cf!Rendered
      <3> QED
        BY <1>1, <1>3, <2>1, <3>1 DEF CfInv, CfKept, CfInOrder, Cf!OpenSettings, Cf!Rendered
    <2>2. CASE Cf!Type
      <3>1. [of |-> s2, new |-> TRUE] \in Cf!Setting
        BY <1>4 DEF Cf!Setting
      <3> QED
        BY <1>1, <1>3, <2>2, <3>1 DEF CfInv, CfKept, Cf!Type, Cf!Rendered
    <2>3. CASE Cf!Close
      BY <1>2, <1>3, <2>3 DEF CfInv, CfKept, Cf!Close, Cf!Rendered
    <2> QED
      BY <2>1, <2>2, <2>3
  <1> QED
    BY <1>5, <1>6, <1>7 DEF CfInv

LEMMA CfSaveInv ==
  ASSUME CfInv, Cf!SaveSettings \/ Cf!Update \/ Cf!Refuse \/ Cf!NotSaved
  PROVE  CfInv'
  <1>0. /\ s6 \in Cf!Saving /\ s2 \in Spot /\ s5 \in Cf!Forms /\ s9 \in BOOLEAN
        /\ s1 \in [Spot -> Cf!Setting]
    BY DEF CfInv, Cf!TypeOK
  <1>1. UNCHANGED <<s2, s3, s4, s5, s7, s8>>
    BY DEF Cf!SaveSettings, Cf!Update, Cf!Refuse, Cf!NotSaved
  <1>2. Cf!LoadingIsAwaited'
    BY <1>1 DEF CfInv, Cf!LoadingIsAwaited, Cf!InFlight
  <1>3. CASE Cf!SaveSettings
    <2>1. s5.row \in Cf!Setting
      <3>1. s5 # Cf!Closed
        BY <1>3 DEF Cf!SaveSettings, Cf!Closed
      <3> QED
        BY <1>0, <3>1 DEF Cf!Forms
    <2>2. /\ s6' \in Cf!Saving /\ s6' # Cf!Idle /\ s6'.pc = "asked"
          /\ s6'.of = s2 /\ s6'.row = s5.row
      BY <1>0, <1>3, <2>1 DEF Cf!SaveSettings, Cf!Saving, Cf!Idle
    <2>3. Cf!TypeOK'
      BY <1>1, <1>3, <2>2 DEF CfInv, Cf!TypeOK, Cf!SaveSettings
    <2>4. CfInOrder'
      BY <1>1, <1>3, <2>2, CfShapes DEF CfInv, CfInOrder, Cf!SaveSettings, Cf!InFlight,
         Cf!Rendered
    <2>5. CfKept' /\ CfFresh'
      BY <1>1, <1>3, <2>2, CfShapes DEF CfInv, CfKept, CfFresh, Cf!SaveSettings, Cf!Rendered
    <2> QED
      BY <1>2, <2>3, <2>4, <2>5 DEF CfInv
  <1>4. CASE Cf!Update
    <2>1. s6 # Cf!Idle /\ s6.of \in Spot /\ s6.row \in Cf!Setting
      BY <1>0, <1>4, CfShapes DEF Cf!Update
    <2>2. s6' \in Cf!Saving /\ s6' # Cf!Idle /\ s6'.pc = "written" /\ s6'.of = s6.of
      BY <1>4, <2>1 DEF Cf!Update, Cf!Saving, Cf!Idle
    <2>3. /\ s1' \in [Spot -> Cf!Setting] /\ s1'[s6.of] = s6.row
          /\ \A c \in Spot \ {s6.of} : s1'[c] = s1[c]
      BY <1>0, <1>4, <2>1 DEF Cf!Update
    <2>4. Cf!TypeOK'
      BY <1>1, <1>4, <2>2, <2>3 DEF CfInv, Cf!TypeOK, Cf!Update
    <2>5. CfInOrder'
      BY <1>1, <2>1, <2>2 DEF CfInv, CfInOrder, Cf!InFlight, Cf!Rendered
    <2>6. CfKept'
      BY <1>1, <1>4, <2>1, <2>2, <2>3 DEF CfInv, CfKept, Cf!Update, Cf!Rendered
    <2>7. ~s7 => \A f \in Req : s4[f].pc # "read"
      BY <2>1, CfShapes DEF CfInv, CfInOrder, Cf!TypeOK, Cf!InFlight
    <2>8. CfFresh'
      BY <1>1, <2>2, <2>7 DEF CfFresh, Cf!Rendered
    <2> QED
      BY <1>2, <2>4, <2>5, <2>6, <2>8 DEF CfInv
  <1>5. CASE Cf!Refuse
    <2>1. s6 # Cf!Idle /\ s6.of \in Spot
      BY <1>0, <1>5, CfShapes DEF Cf!Refuse
    <2>2. s6' \in Cf!Saving /\ s6' # Cf!Idle /\ s6'.pc = "refused" /\ s6'.of = s6.of
      BY <1>5, <2>1 DEF Cf!Refuse, Cf!Saving, Cf!Idle
    <2>3. Cf!TypeOK'
      BY <1>1, <1>5, <2>2 DEF CfInv, Cf!TypeOK, Cf!Refuse
    <2>4. CfInOrder'
      BY <1>1, <2>1, <2>2 DEF CfInv, CfInOrder, Cf!InFlight, Cf!Rendered
    <2>5. CfKept' /\ CfFresh'
      BY <1>1, <1>5, <2>2 DEF CfInv, CfKept, CfFresh, Cf!Refuse, Cf!Rendered
    <2> QED
      BY <1>2, <2>3, <2>4, <2>5 DEF CfInv
  <1>6. CASE Cf!NotSaved
    <2>1. s6' = Cf!Idle /\ UNCHANGED s1 /\ s9' = (s9 \/ s6.pc = "written")
      BY <1>6 DEF Cf!NotSaved
    <2>2. Cf!TypeOK'
      BY <1>0, <1>1, <2>1, CfShapes DEF CfInv, Cf!TypeOK
    <2>3. CfInOrder' /\ CfKept' /\ CfFresh'
      BY <1>1, <2>1, CfShapes DEF CfInv, CfInOrder, CfKept, CfFresh, Cf!InFlight,
         Cf!Rendered
    <2> QED
      BY <1>2, <2>2, <2>3 DEF CfInv
  <1> QED
    BY <1>3, <1>4, <1>5, <1>6

LEMMA CfOtherInv ==
  ASSUME CfInv, NEW c \in Spot, Cf!UpdateByOther(c)
  PROVE  CfInv'
  <1>0. s1 \in [Spot -> Cf!Setting] /\ s9 \in BOOLEAN
    BY DEF CfInv, Cf!TypeOK
  <1> DEFINE new == [of |-> c, new |-> TRUE]
  <1>1. new \in Cf!Setting /\ new.of = c
    BY DEF Cf!Setting
  <1>2. /\ s1' = [s1 EXCEPT ![c] = new] /\ s9' = (s9 \/ c = s2)
        /\ UNCHANGED <<s2, s3, s4, s5, s6, s7, s8>>
    BY DEF Cf!UpdateByOther
  <1> HIDE DEF new
  <1>3. s1'[c] = new /\ \A d \in Spot \ {c} : s1'[d] = s1[d]
    BY <1>0, <1>2
  <1>4. Cf!TypeOK'
    BY <1>0, <1>1, <1>2 DEF CfInv, Cf!TypeOK
  <1>5. CfInOrder' /\ Cf!LoadingIsAwaited'
    BY <1>2 DEF CfInv, CfInOrder, Cf!LoadingIsAwaited, Cf!InFlight, Cf!Rendered
  <1>6. CfKept' /\ CfFresh'
    BY <1>1, <1>2, <1>3 DEF CfInv, Cf!TypeOK, CfKept, CfFresh, Cf!Rendered
  <1> QED
    BY <1>4, <1>5, <1>6 DEF CfInv

LEMMA CfNextInv == ASSUME CfInv, Cf!Next PROVE CfInv'
  <1>1. ASSUME NEW f \in Req, Cf!Retry(f)
        PROVE  CfInv'
    <2>1. "retry" \in Cf!By /\ s2 \in Spot
      BY DEF Cf!By, CfInv, Cf!TypeOK
    <2>2. ~s7 => s6 = Cf!Idle /\ \A g \in Req : ~Cf!InFlight(g)
      BY <1>1, CfShapes DEF CfInv, CfInOrder, Cf!Retry, Cf!Rendered
    <2> QED
      BY <1>1, <2>1, <2>2, CfRunInv DEF Cf!Retry
  <1>2. ASSUME NEW f \in Req, Cf!Saved(f)
        PROVE  CfInv'
    <2>1. "retry" \in Cf!By /\ s6 \in Cf!Saving
      BY DEF Cf!By, CfInv, Cf!TypeOK
    <2>2. s6 # Cf!Idle /\ s6.of \in Spot
      BY <1>2, <2>1, CfShapes DEF Cf!Saved
    <2>3. ~s7 => s6.of = s2 /\ \A g \in Req : ~Cf!InFlight(g)
      BY <2>2 DEF CfInv, CfInOrder
    <2> QED
      BY <1>2, <2>1, <2>2, <2>3, CfRunInv DEF Cf!Saved, Cf!Again
  <1> QED
    BY <1>1, <1>2, CfGoInv, CfReadInv, CfDoneInv, CfFormInv, CfSaveInv, CfOtherInv DEF
       Cf!Next

LEMMA CfStillInv == ASSUME CfInv, UNCHANGED Cf!vars PROVE CfInv'
  BY DEF CfInv, Cf!vars, Cf!TypeOK, CfInOrder, CfKept, CfFresh, Cf!LoadingIsAwaited,
     Cf!InFlight, Cf!Rendered

-----------------------------------------------------------------------------
(* SideBar: a badge is what is unread, or word of it is on its way.        *)

SdLoads == {Sd!Asked, Sd!Done} \cup [pc : {"read"}, unread : [Spot -> 0..MaxUnread]]

\* The events of messages of others that are on their way.
SdOthers(c) == [conversation |-> c, own |-> FALSE]
SdDue(c) == Times(s9, SdOthers(c))

\* What a badge that may be trusted counts to: these bring it up to what is not read,
\* unless a mark is under way, which takes both to nothing.
SdCounts(c) ==
  /\ s6 = Sd!Done => IF s8[c] > 0 THEN s5[c] = 0 ELSE s5[c] + SdDue(c) = s1[c]
  /\ s6.pc = "read" => s8[c] = 0 /\ s6.unread[c] + SdDue(c) = s1[c]

SdInv ==
  /\ Sd!TypeOK
  /\ s2 = Nobody => s7 = "done"
  /\ s6.pc = "read" /\ s2 # Nobody => s2 \in s10
  /\ \A c \in Spot \ s10 : SdCounts(c)

LEMMA SdMeans == ASSUME SdInv PROVE Sd!TypeOK /\ Sd!BadgesTrue
  <1>1. ASSUME Sd!Quiet, NEW c \in Spot, c \notin s10 PROVE s5[c] = s1[c]
    <2>1. s6 = Sd!Done /\ s8[c] = 0 /\ s9 = <<>> /\ s5[c] \in Nat
      BY <1>1 DEF Sd!Quiet, SdInv, Sd!TypeOK
    <2>2. SdDue(c) = 0
      <3>1. s9 \in Seq(Sd!Event) /\ \A i \in DOMAIN s9 : FALSE
        BY <2>1, Nothing
      <3> QED
        BY <3>1, Counted DEF SdDue
    <2>3. s5[c] + SdDue(c) = s1[c]
      BY <1>1, <2>1 DEF SdInv, SdCounts, SdDue
    <2> QED
      BY <2>1, <2>2, <2>3
  <1> QED
    BY <1>1 DEF Sd!BadgesTrue, SdInv

LEMMA SdInitInv == ASSUME Sd!Init PROVE SdInv
  <1>1. Sd!TypeOK
    <2>1. s1 \in [Spot -> 0..MaxUnread]
      BY ScreenBounds DEF Sd!Init
    <2> QED
      BY <2>1, Nothing DEF Sd!Init, Sd!TypeOK, Sd!Asked
  <1>2. s6.pc = "asked" /\ s6 # Sd!Done
    BY DEF Sd!Init, Sd!Asked, Sd!Done
  <1> QED
    BY <1>1, <1>2 DEF Sd!Init, SdInv, SdCounts, SdDue

\* Each conversation has its own marks, and an event is of one that is the user's.
LEMMA SdMarked ==
  ASSUME Sd!TypeOK, NEW c \in Spot, Sd!Marking(c)
  PROVE  /\ s8' \in [Spot -> Nat] /\ s8'[c] > 0
         /\ \A d \in Spot \ {c} : s8'[d] = s8[d]
  BY DEF Sd!TypeOK, Sd!Marking

LEMMA SdNextInv == ASSUME SdInv, Sd!Next PROVE SdInv'
  <1>0. Sd!TypeOK
    BY DEF SdInv
  <1>k. s6 \in SdLoads /\ Sd!Done.pc = "done" /\ Sd!Asked.pc = "asked"
    BY <1>0 DEF Sd!TypeOK, SdLoads, Sd!Asked, Sd!Done
  <1>t. \A c \in Spot : /\ SdDue(c) \in Nat
                        /\ SdDue(c) = 0 <=> ~Sd!Coming(c)
                        /\ s1[c] \in 0..MaxUnread /\ s5[c] \in Nat /\ s8[c] \in Nat
    <2>1. ASSUME NEW c \in Spot
          PROVE  SdDue(c) \in Nat /\ (SdDue(c) = 0 <=> ~Sd!Coming(c))
      BY <1>0, Counted DEF Sd!TypeOK, Sd!Coming, SdDue, SdOthers
    <2> QED
      BY <1>0, <2>1 DEF Sd!TypeOK
  <1>1. CASE Sd!ReadList
    <2>1. Sd!TypeOK'
      <3>1. s6' \in [pc : {"read"}, unread : [Spot -> 0..MaxUnread]]
        BY <1>0, <1>1 DEF Sd!ReadList, Sd!TypeOK
      <3> QED
        BY <1>0, <1>1, <3>1 DEF Sd!ReadList, Sd!TypeOK
    <2>2. s6'.pc = "read" /\ s6'.unread = s1 /\ s6' # Sd!Done
      BY <1>1, <1>k DEF Sd!ReadList
    <2>3. ASSUME NEW c \in Spot, c \notin s10' PROVE SdCounts(c)'
      <3>1. s8[c] = 0 /\ SdDue(c) = 0
        BY <1>1, <1>t, <2>3 DEF Sd!ReadList, Sd!InFlight
      <3> QED
        BY <1>1, <1>t, <2>2, <3>1 DEF Sd!ReadList, SdCounts, SdDue
    <2>4. s2 # Nobody => s2 \in s10'
      BY <1>0, <1>1 DEF Sd!ReadList, Sd!TypeOK
    <2> QED
      BY <1>1, <2>1, <2>3, <2>4 DEF SdInv, Sd!ReadList
  <1>2. CASE Sd!Loaded
    <2>1. s6.unread \in [Spot -> 0..MaxUnread] /\ s6' # Sd!Asked /\ s6'.pc # "read"
      BY <1>2, <1>k DEF Sd!Loaded, SdLoads
    <2>2. s5' \in [Spot -> Nat] /\ s2' \in Spot /\ s7' \in {"asked", "done"}
      BY <1>0, <1>2, <2>1 DEF Sd!Loaded, Sd!TypeOK
    <2>3. ASSUME NEW c \in Spot, c \notin s10 PROVE SdCounts(c)'
      <3>1. s8[c] = 0 /\ s6.unread[c] + SdDue(c) = s1[c]
        BY <1>2, <2>3 DEF SdInv, SdCounts, SdDue, Sd!Loaded
      <3> QED
        BY <1>2, <2>1, <3>1 DEF SdCounts, SdDue, Sd!Loaded
    <2>4. Sd!TypeOK'
      BY <1>0, <1>2, <2>2 DEF Sd!Loaded, Sd!TypeOK
    <2> QED
      BY <1>2, <2>1, <2>2, <2>3, <2>4, NobodyAssumption DEF SdInv, Sd!Loaded
  <1>3. CASE Sd!LoadFailed
    <2>1. s6' # Sd!Done /\ s6'.pc # "read"
      BY <1>3, <1>k DEF Sd!LoadFailed, Sd!Asked, Sd!Done
    <2> QED
      BY <1>0, <1>3, <2>1 DEF Sd!LoadFailed, SdInv, Sd!TypeOK, SdCounts, SdDue
  <1>4. ASSUME NEW c \in Spot, Sd!Select(c) PROVE SdInv'
    <2>1. s6' = Sd!Done /\ s6'.pc # "read"
      BY <1>4, <1>k DEF Sd!Select
    <2>2. \A d \in Spot \ s10 : SdCounts(d)'
      BY <1>4, <2>1 DEF Sd!Select, SdInv, SdCounts, SdDue
    <2> QED
      BY <1>0, <1>4, <2>1, <2>2, NobodyAssumption DEF Sd!Select, SdInv, Sd!TypeOK
  <1>5. CASE Sd!Joined
    <2>1. \A d \in Spot \ s10 : SdCounts(d)'
      BY <1>5 DEF Sd!Joined, SdInv, SdCounts, SdDue
    <2> QED
      BY <1>0, <1>5, <2>1 DEF Sd!Joined, SdInv, Sd!TypeOK
  <1>6. CASE Sd!HistoryShown
    <2>1. s2 \in Spot /\ Sd!Marking(s2)
      BY <1>0, <1>6 DEF Sd!HistoryShown, SdInv, Sd!TypeOK
    <2>2. /\ s5' \in [Spot -> Nat] /\ s5'[s2] = 0
          /\ \A d \in Spot \ {s2} : s5'[d] = s5[d]
      BY <1>0, <1>6, <2>1 DEF Sd!HistoryShown, Sd!TypeOK
    <2>3. /\ s8' \in [Spot -> Nat] /\ s8'[s2] > 0
          /\ \A d \in Spot \ {s2} : s8'[d] = s8[d]
      BY <1>0, <2>1, SdMarked
    <2>4. Sd!TypeOK'
      <3>1. s11' \in Nat
        BY <1>0, <1>6 DEF Sd!HistoryShown, Sd!TypeOK
      <3> QED
        BY <1>0, <1>6, <2>2, <2>3, <3>1 DEF Sd!HistoryShown, Sd!TypeOK
    <2>5. /\ s10' \in {s10, s10 \ {s2}}
          /\ s6.pc = "read" => s10' = s10
      BY <1>6, <1>k DEF Sd!HistoryShown
    <2>6. ASSUME NEW d \in Spot, d \notin s10' PROVE SdCounts(d)'
      <3>1. CASE d = s2
        <4>1. s6.pc # "read"
          BY <2>1, <2>5, <2>6, <3>1, NobodyAssumption DEF SdInv
        <4> QED
          BY <1>6, <2>2, <2>3, <3>1, <4>1 DEF Sd!HistoryShown, SdCounts, SdDue
      <3>2. CASE d # s2
        BY <1>6, <2>2, <2>3, <2>5, <2>6, <3>2 DEF Sd!HistoryShown, SdCounts, SdDue, SdInv
      <3> QED
        BY <3>1, <3>2
    <2> QED
      BY <1>6, <2>4, <2>5, <2>6 DEF Sd!HistoryShown, SdInv
  <1>7. CASE Sd!HistoryFailed
    <2>1. \A d \in Spot \ s10 : SdCounts(d)'
      BY <1>7 DEF Sd!HistoryFailed, SdInv, SdCounts, SdDue
    <2> QED
      BY <1>0, <1>7, <2>1 DEF Sd!HistoryFailed, SdInv, Sd!TypeOK
  <1>8. ASSUME NEW c \in Spot, Sd!Mark(c) PROVE SdInv'
    <2>1. /\ s8' \in [Spot -> Nat] /\ s1' \in [Spot -> 0..MaxUnread]
          /\ s1'[c] = 0
          /\ \A d \in Spot \ {c} : s8'[d] = s8[d] /\ s1'[d] = s1[d]
      BY <1>0, <1>8, ScreenBounds DEF Sd!Mark, Sd!TypeOK
    <2>2. ASSUME NEW d \in Spot, d \notin s10' PROVE SdCounts(d)'
      <3>1. CASE d = c
        <4>1. SdDue(c) = 0 /\ c \notin s10 /\ s8[c] > 0
          BY <1>8, <1>t, <2>2, <3>1 DEF Sd!Mark
        <4>2. s6.pc # "read" /\ (s6 = Sd!Done => s5[c] = 0)
          BY <4>1 DEF SdInv, SdCounts, SdDue
        <4> QED
          BY <1>8, <2>1, <3>1, <4>1, <4>2 DEF Sd!Mark, SdCounts, SdDue
      <3>2. CASE d # c
        BY <1>8, <2>1, <2>2, <3>2 DEF Sd!Mark, SdCounts, SdDue, SdInv
      <3> QED
        BY <3>1, <3>2
    <2>3. Sd!TypeOK'
      BY <1>0, <1>8, <2>1 DEF Sd!Mark, Sd!TypeOK
    <2> QED
      BY <1>8, <2>2, <2>3 DEF Sd!Mark, SdInv
  <1>9. ASSUME NEW c \in Spot, Sd!MarkFailed(c) PROVE SdInv'
    <2>1. /\ s8' \in [Spot -> Nat]
          /\ \A d \in Spot \ {c} : s8'[d] = s8[d]
      BY <1>0, <1>9 DEF Sd!MarkFailed, Sd!TypeOK
    <2>2. ASSUME NEW d \in Spot, d \notin s10' PROVE SdCounts(d)'
      BY <1>9, <2>1, <2>2 DEF Sd!MarkFailed, SdCounts, SdDue, SdInv
    <2>3. Sd!TypeOK'
      BY <1>0, <1>9, <2>1 DEF Sd!MarkFailed, Sd!TypeOK
    <2> QED
      BY <1>9, <2>2, <2>3 DEF Sd!MarkFailed, SdInv
  <1>10. ASSUME NEW c \in Spot, NEW own \in BOOLEAN, Sd!Send(c, own) PROVE SdInv'
    <2> DEFINE e == [conversation |-> c, own |-> own]
    <2>1. /\ s1' \in [Spot -> 0..MaxUnread]
          /\ s1'[c] = IF own THEN s1[c] ELSE s1[c] + 1
          /\ \A d \in Spot \ {c} : s1'[d] = s1[d]
      <3>1. CASE own
        BY <1>0, <1>10, <3>1 DEF Sd!Send, Sd!TypeOK
      <3>2. CASE ~own
        BY <1>0, <1>10, <3>2, ScreenBounds DEF Sd!Send, Sd!TypeOK
      <3> QED
        BY <3>1, <3>2
    <2>2. e \in Sd!Event /\ s9 \in Seq(Sd!Event)
      BY <1>0 DEF Sd!Event, Sd!TypeOK
    <2>3. s9' = Append(s9, e) \/ s9' = s9
      BY <1>10 DEF Sd!Send
    <2>4. s9' \in Seq(Sd!Event)
      BY <2>2, <2>3, Longer
    <2>5. ASSUME NEW d \in Spot, d \notin s10'
          PROVE  SdDue(d)' = IF d = c /\ ~own THEN SdDue(d) + 1 ELSE SdDue(d)
      <3>1. e = SdOthers(d) <=> d = c /\ ~own
        BY DEF SdOthers
      <3>2. CASE c \in s3
        <4>1. s9' = Append(s9, e)
          BY <1>10, <3>2 DEF Sd!Send
        <4> HIDE DEF e
        <4> QED
          BY <2>2, <3>1, <4>1, MoreTimes DEF SdDue
      <3>3. CASE c \notin s3
        <4>1. s9' = s9 /\ (own \/ d # c)
          BY <1>10, <2>5, <3>3 DEF Sd!Send
        <4> QED
          BY <4>1 DEF SdDue
      <3> QED
        BY <3>2, <3>3
    <2> HIDE DEF e
    <2>6. ASSUME NEW d \in Spot, d \notin s10' PROVE SdCounts(d)'
      <3>1. SdCounts(d) /\ s6' = s6 /\ s8' = s8 /\ s5' = s5
        BY <1>10, <2>6 DEF Sd!Send, SdInv
      <3>2. s6.pc = "read" => s6.unread[d] \in Nat
        BY <1>k, <2>6, ScreenBounds DEF SdLoads
      <3>3. /\ SdDue(d)' = IF d = c /\ ~own THEN SdDue(d) + 1 ELSE SdDue(d)
            /\ s1'[d] = IF d = c /\ ~own THEN s1[d] + 1 ELSE s1[d]
        BY <2>1, <2>5, <2>6
      <3> QED
        BY <1>t, <2>6, <3>1, <3>2, <3>3 DEF SdCounts
    <2>7. Sd!TypeOK'
      BY <1>0, <1>10, <2>1, <2>4 DEF Sd!Send, Sd!TypeOK
    <2> QED
      BY <1>10, <2>6, <2>7 DEF Sd!Send, SdInv
  <1>11. CASE Sd!Created
    <2>1. Head(s9) \in Sd!Event /\ s9' \in Seq(Sd!Event)
      BY <1>0, <1>11, Tailed DEF Sd!Created, Sd!TypeOK
    <2>e. PICK c \in Spot, own \in BOOLEAN : Head(s9) = [conversation |-> c, own |-> own]
      BY <2>1 DEF Sd!Event
    <2>h. Head(s9).conversation = c /\ Head(s9).own = own
      BY <2>e
    <2>2. /\ s5' \in [Spot -> Nat]
          /\ s5'[c] = IF Sd!Shows(c) THEN 0 ELSE s5[c] + 1
          /\ \A d \in Spot \ {c} : s5'[d] = s5[d]
      BY <1>0, <1>11, <2>h DEF Sd!Created, Sd!TypeOK
    <2>3. PICK isKnown \in BOOLEAN :
            /\ IF Sd!Shows(c) /\ ~isKnown THEN Sd!Marking(c) ELSE UNCHANGED s8
            /\ s10' = IF Sd!Trusted(c, own, isKnown) THEN s10 ELSE s10 \cup {c}
      <3>1. {s11 > 0, s11 > 0 \/ own} \subseteq BOOLEAN
        OBVIOUS
      <3> QED
        BY <1>11, <2>h, <3>1 DEF Sd!Created
    <2>4. /\ s8' \in [Spot -> Nat]
          /\ Sd!Shows(c) /\ ~isKnown => s8'[c] > 0
          /\ Sd!Shows(c) => s8'[c] > 0 \/ s8'[c] = s8[c]
          /\ ~(Sd!Shows(c) /\ ~isKnown) => s8' = s8
          /\ \A d \in Spot \ {c} : s8'[d] = s8[d]
      <3>1. CASE Sd!Shows(c) /\ ~isKnown
        BY <1>0, <2>1, <2>3, <3>1, SdMarked
      <3>2. CASE ~(Sd!Shows(c) /\ ~isKnown)
        BY <1>0, <2>3, <3>2 DEF Sd!TypeOK
      <3> QED
        BY <3>1, <3>2
    <2>5. \A d \in Spot : /\ SdDue(d)' \in Nat
                          /\ SdDue(d) = IF d = c /\ ~own THEN SdDue(d)' + 1 ELSE SdDue(d)'
      <3>1. ASSUME NEW d \in Spot PROVE Head(s9) = SdOthers(d) <=> d = c /\ ~own
        BY <2>e DEF SdOthers
      <3>2. s9 \in Seq(Sd!Event) /\ s9 # <<>> /\ s9' = Tail(s9)
        BY <1>0, <1>11 DEF Sd!Created, Sd!TypeOK
      <3> QED
        BY <2>1, <3>1, <3>2, FewerTimes, Counted DEF SdDue
    <2>6. s6' = s6 /\ s1' = s1
      BY <1>11 DEF Sd!Created
    <2>7. /\ s10 \subseteq s10' /\ s10' \subseteq s10 \cup {c}
          /\ c \notin s10' => Sd!Trusted(c, own, isKnown)
      BY <2>3
    <2>8. s11' \in Nat
      BY <1>0, <1>11 DEF Sd!Created, Sd!TypeOK
    <2>9. ASSUME NEW d \in Spot, d \notin s10' PROVE SdCounts(d)'
      <3>1. SdCounts(d)
        BY <2>7, <2>9 DEF SdInv
      <3>2. CASE d # c
        BY <2>2, <2>4, <2>5, <2>6, <3>1, <3>2 DEF SdCounts
      <3>3. CASE d = c
        <4>1. s6 = Sd!Done /\ s6.pc # "read"
          BY <1>k, <2>7, <2>9, <3>3 DEF Sd!Trusted
        <4>2. CASE Sd!Shows(c)
          <5>1. ~isKnown \/ s8[c] > 0 \/ (own /\ s5[c] = 0)
            BY <2>7, <2>9, <3>3, <4>2 DEF Sd!Trusted
          <5>2. s5'[c] = 0
            BY <2>2, <4>2
          <5>3. CASE s8'[c] > 0
            BY <2>6, <3>3, <4>1, <5>2, <5>3 DEF SdCounts
          <5>4. CASE ~(s8'[c] > 0)
            <6>1. s8[c] = 0 /\ s8'[c] = 0 /\ own /\ s5[c] = 0
              BY <1>t, <2>1, <2>4, <4>2, <5>1, <5>4
            <6>2. SdDue(c)' = SdDue(c)
              BY <2>1, <2>5, <6>1
            <6>3. s5[c] + SdDue(c) = s1[c]
              BY <3>1, <3>3, <4>1, <6>1 DEF SdCounts
            <6> QED
              BY <2>6, <3>3, <4>1, <5>2, <6>1, <6>2, <6>3 DEF SdCounts
          <5> QED
            BY <5>3, <5>4
        <4>3. CASE ~Sd!Shows(c)
          <5>1. s8[c] = 0 /\ ~own /\ s5[c] + SdDue(c) = s1[c]
            BY <1>t, <2>1, <2>7, <2>9, <3>1, <3>3, <4>1, <4>3 DEF SdCounts, Sd!Trusted
          <5>2. s5'[c] = s5[c] + 1 /\ s8'[c] = 0
            BY <2>2, <2>4, <4>3, <5>1
          <5>3. SdDue(c) = SdDue(c)' + 1 /\ SdDue(c)' \in Nat /\ s5[c] \in Nat
            BY <1>t, <2>1, <2>5, <5>1
          <5>4. s5'[c] + SdDue(c)' = s1[c]
            BY <5>1, <5>2, <5>3
          <5> QED
            BY <2>6, <3>3, <4>1, <5>2, <5>4 DEF SdCounts
        <4> QED
          BY <4>2, <4>3
      <3> QED
        BY <3>2, <3>3
    <2>10. Sd!TypeOK'
      BY <1>0, <1>11, <2>1, <2>2, <2>4, <2>7, <2>8 DEF Sd!Created, Sd!TypeOK
    <2> QED
      BY <1>11, <2>7, <2>9, <2>10 DEF Sd!Created, SdInv
  <1>12. CASE Sd!Drop
    <2>1. s9' \in Seq(Sd!Event) /\ \A i \in DOMAIN s9' : FALSE
      BY <1>12, Nothing DEF Sd!Drop
    <2>2. Sd!TypeOK'
      BY <1>0, <1>12, <2>1 DEF Sd!Drop, Sd!TypeOK
    <2>3. ASSUME NEW d \in Spot, d \notin s10' PROVE SdCounts(d)'
      <3>1. ~Sd!Coming(d) /\ d \notin s10
        BY <1>12, <2>3 DEF Sd!Drop
      <3>2. SdDue(d) = 0
        BY <1>t, <3>1
      <3>3. SdDue(d)' = 0
        BY <2>1, Counted DEF SdDue
      <3>4. SdCounts(d) /\ s6' = s6 /\ s8' = s8 /\ s5' = s5 /\ s1' = s1
        BY <1>12, <3>1 DEF SdInv, Sd!Drop
      <3> QED
        BY <3>2, <3>3, <3>4 DEF SdCounts
    <2> QED
      BY <1>12, <2>2, <2>3 DEF Sd!Drop, SdInv
  <1>13. CASE Sd!Focus
    <2>1. \A d \in Spot \ s10 : SdCounts(d)'
      BY <1>13 DEF Sd!Focus, SdInv, SdCounts, SdDue
    <2> QED
      BY <1>0, <1>13, <2>1 DEF Sd!Focus, SdInv, Sd!TypeOK
  <1>14. ASSUME NEW c \in Spot, Sd!Delete(c) PROVE SdInv'
    <2>1. /\ s1' \in [Spot -> 0..MaxUnread]
          /\ \A d \in Spot \ {c} : s1'[d] = s1[d]
      BY <1>0, <1>14, ScreenBounds DEF Sd!Delete, Sd!TypeOK
    <2>2. ASSUME NEW d \in Spot, d \notin s10' PROVE SdCounts(d)'
      BY <1>14, <2>1, <2>2 DEF Sd!Delete, SdCounts, SdDue, SdInv
    <2>3. Sd!TypeOK'
      BY <1>0, <1>14, <2>1 DEF Sd!Delete, Sd!TypeOK
    <2> QED
      BY <1>14, <2>1, <2>2, <2>3 DEF Sd!Delete, SdInv
  <1> QED
    BY <1>1, <1>2, <1>3, <1>4, <1>5, <1>6, <1>7, <1>8, <1>9, <1>10, <1>11, <1>12, <1>13,
       <1>14 DEF Sd!Next

LEMMA SdStillInv == ASSUME SdInv, UNCHANGED Sd!vars PROVE SdInv'
  BY DEF SdInv, Sd!vars, Sd!TypeOK, SdCounts, SdDue

-----------------------------------------------------------------------------
(* Profile: a deleted account keeps neither its text nor its picture.      *)

\* The row and what is on its way to it or from it.
PlRows == [text : Spot \cup {Nobody}, pic : 0..MaxPics, deleted : BOOLEAN]
PlSaves == {Pl!Idle, Pl!Done, Pl!Refresh} \cup [pc : {"asked"}, text : Spot \cup {Nobody}]
           \cup [pc : {"got"}, profile : PlRows]
PlPics == {Pl!Idle, Pl!Asked, Pl!Done, Pl!Refresh} \cup [pc : {"got"}, profile : PlRows]
PlTyped ==
  /\ s1 \in PlRows /\ s3 \in PlRows
  /\ s4 \in PlSaves /\ s5 \in PlPics
  /\ s6 \in {Pl!Idle} \cup [pc : {"asked"}, text : Spot]
  /\ s5 = Pl!Asked => s1.pic < MaxPics

PlKept == Pl!TypeOK /\ Pl!Scrubs /\ PlTyped
LEMMA PlKinds ==
  /\ {Pl!Idle, Pl!Asked, Pl!Done, Pl!Refresh} \subseteq PlPics
  /\ {Pl!Idle, Pl!Done, Pl!Refresh} \subseteq PlSaves
  /\ Pl!Idle.pc = "idle" /\ Pl!Asked.pc = "asked" /\ Pl!Done.pc = "done"
  /\ Pl!Refresh.pc = "refresh"
  /\ \A x \in PlSaves : /\ x.pc \in {"idle", "asked", "done", "refresh", "got"}
                        /\ x.pc = "asked" => x.text \in Spot \cup {Nobody}
                        /\ x.pc = "got" => x.profile \in PlRows
  /\ \A x \in PlPics : /\ x.pc \in {"idle", "asked", "done", "refresh", "got"}
                       /\ x.pc = "asked" => x = Pl!Asked
                       /\ x.pc = "got" => x.profile \in PlRows
  /\ \A t \in Spot \cup {Nobody} : [pc |-> "asked", text |-> t] \in PlSaves
  <1>1. /\ \A x \in [pc : {"asked"}, text : Spot \cup {Nobody}] :
             x.pc = "asked" /\ x.text \in Spot \cup {Nobody}
        /\ \A x \in [pc : {"got"}, profile : PlRows] : x.pc = "got" /\ x.profile \in PlRows
    OBVIOUS
  <1>2. Pl!Idle.pc = "idle" /\ Pl!Asked.pc = "asked" /\ Pl!Done.pc = "done" /\ Pl!Refresh.pc = "refresh"
    BY DEF Pl!Idle, Pl!Asked, Pl!Done, Pl!Refresh
  <1>3. \A t \in Spot \cup {Nobody} : [pc |-> "asked", text |-> t] \in PlSaves
    BY DEF PlSaves
  <1> QED
    BY <1>1, <1>2, <1>3 DEF PlPics, PlSaves

\* What follows of the types of what is kept.
LEMMA PlTypings ==
  ASSUME PlTyped, s2 \in Spot \cup {Nobody},
         s8 \in BOOLEAN, s9 \in BOOLEAN, s10 \in BOOLEAN
  PROVE  Pl!TypeOK
  <1>1. /\ s1.text \in Spot \cup {Nobody} /\ s1.pic \in 0 .. MaxPics
        /\ s3.text \in Spot \cup {Nobody}
    BY DEF PlTyped, PlRows
  <1>2. {s4.pc, s5.pc} \subseteq {"idle", "asked", "done", "refresh", "got"}
    BY PlKinds DEF PlTyped
  <1> QED
    BY <1>1, <1>2 DEF Pl!TypeOK

LEMMA PlTypingsNext ==
  ASSUME PlTyped', s2' \in Spot \cup {Nobody},
         s8' \in BOOLEAN, s9' \in BOOLEAN, s10' \in BOOLEAN
  PROVE  Pl!TypeOK'
  <1>1. /\ s1'.text \in Spot \cup {Nobody} /\ s1'.pic \in 0 .. MaxPics
        /\ s3'.text \in Spot \cup {Nobody}
    BY DEF PlTyped, PlRows
  <1>2. {s4'.pc, s5'.pc} \subseteq {"idle", "asked", "done", "refresh", "got"}
    BY PlKinds DEF PlTyped
  <1> QED
    BY <1>1, <1>2 DEF Pl!TypeOK

LEMMA PlInitKept == ASSUME Pl!Init PROVE PlKept
  <1>1. PICK t \in Spot : s1 = Pl!Row(t, 0) /\ s2 = t
    BY DEF Pl!Init
  <1>2. s1 \in PlRows /\ ~s1.deleted
    BY <1>1, ScreenBounds DEF Pl!Row, PlRows
  <1>3. PlTyped
    BY <1>2, PlKinds DEF Pl!Init, PlTyped
  <1>4. Pl!TypeOK
    BY <1>1, <1>3, PlTypings DEF Pl!Init
  <1> QED
    BY <1>2, <1>3, <1>4 DEF PlKept, Pl!Scrubs, Pl!Init

\* The row, when a text or a picture is written to it.
LEMMA PlWrites ==
  ASSUME s1 \in PlRows
  PROVE  /\ \A t \in Spot \cup {Nobody} :
              /\ [s1 EXCEPT !.text = t] \in PlRows
              /\ [s1 EXCEPT !.text = t].deleted = s1.deleted
              /\ [s1 EXCEPT !.text = t].pic = s1.pic
         /\ s1.pic < MaxPics =>
              /\ [s1 EXCEPT !.pic = @ + 1] \in PlRows
              /\ [s1 EXCEPT !.pic = @ + 1].deleted = s1.deleted
         /\ Pl!Scrub \in PlRows /\ Pl!Scrub.pic = 0
         /\ s1.deleted \in BOOLEAN
  <1>1. s1.pic \in 0..MaxPics /\ s1.deleted \in BOOLEAN
    BY DEF PlRows
  <1>2. s1.pic < MaxPics => s1.pic + 1 \in 0..MaxPics
    BY <1>1, ScreenBounds
  <1>3. 0 \in 0..MaxPics
    BY ScreenBounds
  <1> QED
    BY <1>1, <1>2, <1>3 DEF PlRows, Pl!Scrub

LEMMA PlNextKept == ASSUME PlKept, Pl!Next PROVE PlKept'
  <1>0. /\ s1 \in PlRows /\ s3 \in PlRows /\ s4 \in PlSaves /\ s5 \in PlPics
        /\ s6 \in {Pl!Idle} \cup [pc : {"asked"}, text : Spot]
        /\ s2 \in Spot \cup {Nobody} /\ s8 \in BOOLEAN /\ s9 \in BOOLEAN /\ s10 \in BOOLEAN
        /\ s1.deleted => s10 \/ s1 = Pl!Scrub
    BY DEF PlKept, PlTyped, Pl!TypeOK, Pl!Scrubs
  <1> USE <1>0
  <1>1. ASSUME NEW t \in Spot, Pl!Type(t) \/ Pl!AskOther(t)
        PROVE  PlKept'
    <2>1. /\ UNCHANGED <<s1, s3, s4, s5, s9, s10>>
          /\ s2' \in Spot \cup {Nobody} /\ s8' \in BOOLEAN
          /\ s6' \in {s6, [pc |-> "asked", text |-> t]}
      BY <1>1 DEF Pl!Type, Pl!AskOther, Pl!requests, Pl!page
    <2>2. PlTyped'
      BY <2>1 DEF PlKept, PlTyped
    <2> QED
      BY <2>1, <2>2, PlTypingsNext DEF PlKept, Pl!Scrubs
  <1>2. ASSUME Pl!AskSave \/ Pl!AskDelete \/ Pl!AskPic \/ Pl!Await \/ Pl!ReadProfile
        PROVE  PlKept'
    <2>1. UNCHANGED <<s1, s3, s2, s8, s9, s10, s6>>
      BY <1>2 DEF Pl!AskSave, Pl!AskDelete, Pl!AskPic, Pl!Await, Pl!ReadProfile,
         Pl!requests, Pl!page
    <2>2. Pl!Got \in PlSaves /\ Pl!Got \in PlPics /\ Pl!Got.pc = "got"
      BY DEF Pl!Got, PlSaves, PlPics
    <2>3. s4' \in {s4, [pc |-> "asked", text |-> s2], Pl!Refresh, Pl!Got}
      BY <1>2 DEF Pl!AskSave, Pl!AskDelete, Pl!AskPic, Pl!Await, Pl!ReadProfile,
         Pl!requests, Pl!page
    <2>4. s5' \in {s5, Pl!Refresh, Pl!Got} \/ (s5' = Pl!Asked /\ s1.pic < MaxPics)
      BY <1>2 DEF Pl!AskSave, Pl!AskDelete, Pl!AskPic, Pl!Await, Pl!ReadProfile,
         Pl!requests, Pl!page
    <2>5. PlTyped'
      BY <2>1, <2>2, <2>3, <2>4, PlKinds DEF PlKept, PlTyped
    <2> QED
      BY <2>1, <2>5, PlTypingsNext DEF PlKept, Pl!Scrubs
  <1>3. ASSUME NEW t \in Spot \cup {Nobody}, Pl!Written(t), UNCHANGED <<Pl!page, s5>>,
               s4' \in {s4, Pl!Done}, s6' \in {s6, Pl!Idle}, s9' \in BOOLEAN
        PROVE  PlKept'
    <2>1. s1' = [s1 EXCEPT !.text = t] /\ s10' = (s10 \/ s1.deleted)
      BY <1>3 DEF Pl!Written
    <2>2. /\ s1' \in PlRows /\ s1'.deleted = s1.deleted /\ s1'.pic = s1.pic
          /\ s1.deleted \in BOOLEAN
      BY <2>1, PlWrites
    <2>3. s10' \in BOOLEAN /\ (s1'.deleted => s10')
      BY <2>1, <2>2
    <2>4. PlTyped'
      BY <1>3, <2>2, PlKinds DEF Pl!page, PlKept, PlTyped
    <2> QED
      BY <1>3, <2>3, <2>4, PlTypingsNext DEF Pl!page, PlKept, Pl!Scrubs
  <1>4. ASSUME Pl!Save PROVE PlKept'
    <2>1. s4.text \in Spot \cup {Nobody}
      BY <1>4, PlKinds DEF Pl!Save
    <2> QED
      BY <1>3, <1>4, <2>1 DEF Pl!Save
  <1>5. ASSUME Pl!SaveOther PROVE PlKept'
    <2>1. s6.text \in Spot
      BY <1>5 DEF Pl!SaveOther
    <2> QED
      BY <1>3, <1>5, <2>1 DEF Pl!SaveOther
  <1>6. ASSUME Pl!SetPic PROVE PlKept'
    <2>1. /\ s1.pic < MaxPics /\ s1' = [s1 EXCEPT !.pic = @ + 1]
          /\ s10' = (s10 \/ s1.deleted) /\ s5' = Pl!Done
          /\ UNCHANGED <<s2, s3, s8, s4, s6, s9>>
      BY <1>6 DEF Pl!SetPic, PlKept, PlTyped, Pl!page
    <2>2. s1' \in PlRows /\ s1'.deleted = s1.deleted /\ s1.deleted \in BOOLEAN
      BY <2>1, PlWrites
    <2>3. s10' \in BOOLEAN /\ (s1'.deleted => s10')
      BY <2>1, <2>2
    <2>4. PlTyped'
      BY <2>1, <2>2, PlKinds DEF PlKept, PlTyped
    <2> QED
      BY <2>1, <2>3, <2>4, PlTypingsNext DEF PlKept, Pl!Scrubs
  <1>7. ASSUME Pl!Refreshed PROVE PlKept'
    <2>1. PICK new \in PlRows : Pl!Install(new)
      BY <1>7, PlKinds DEF Pl!Refreshed
    <2>2. new.text \in Spot \cup {Nobody}
      BY DEF PlRows
    <2>3. /\ s3' = new /\ s2' = new.text /\ s8' = FALSE /\ s9' \in BOOLEAN
          /\ UNCHANGED <<s1, s6, s10>>
      BY <1>7, <2>1 DEF Pl!Refreshed, Pl!Install
    <2>4. s4' \in {s4, Pl!Idle} /\ s5' \in {s5, Pl!Idle}
      BY <1>7 DEF Pl!Refreshed
    <2>5. PlTyped'
      BY <2>3, <2>4, PlKinds DEF PlKept, PlTyped
    <2> QED
      BY <2>2, <2>3, <2>5, PlTypingsNext DEF PlKept, Pl!Scrubs
  <1>8. ASSUME Pl!Fail PROVE PlKept'
    <2>1. /\ UNCHANGED <<s1, s3, s2, s8, s6, s10>> /\ s9' \in BOOLEAN
          /\ s4' \in {s4, Pl!Idle} /\ s5' \in {s5, Pl!Idle}
      BY <1>8 DEF Pl!Fail, Pl!page
    <2>2. PlTyped'
      BY <2>1, PlKinds DEF PlKept, PlTyped
    <2> QED
      BY <2>1, <2>2, PlTypingsNext DEF PlKept, Pl!Scrubs
  <1>9. ASSUME Pl!Delete PROVE PlKept'
    <2>1. s1' = Pl!Scrub /\ UNCHANGED <<s2, s3, s8, s4, s5, s6, s9, s10>>
      BY <1>9 DEF Pl!Delete, Pl!page
    <2>2. s1' \in PlRows /\ (s5 = Pl!Asked => s1'.pic < MaxPics)
      <3>1. s1.pic \in 0..MaxPics
        BY DEF PlRows
      <3> QED
        BY <2>1, <3>1, PlWrites, ScreenBounds DEF PlKept, PlTyped
    <2>3. PlTyped'
      BY <2>1, <2>2 DEF PlKept, PlTyped
    <2> QED
      BY <2>1, <2>3, PlTypingsNext DEF PlKept, Pl!Scrubs, Pl!Scrub
  <1> QED
    BY <1>1, <1>2, <1>4, <1>5, <1>6, <1>7, <1>8, <1>9 DEF Pl!Next

\* A read of the profile is to come.
PlAwaits(request) == request.pc \in {"done", "refresh", "got"}
PlCarded ==
  /\ s8 \/ s2 = s3.text
  /\ ~s9 /\ Pl!Open /\ s3 # s1 => PlAwaits(s4) \/ PlAwaits(s5)

LEMMA PlInitCarded == ASSUME Pl!Init PROVE PlCarded
  <1>1. PICK t \in Spot : s1 = Pl!Row(t, 0) /\ s2 = t
    BY DEF Pl!Init
  <1> QED
    BY <1>1 DEF Pl!Init, Pl!Row, PlCarded

LEMMA PlNextCarded == ASSUME PlKept, PlCarded, Pl!Next PROVE PlCarded'
  <1>0. s4 \in PlSaves /\ s5 \in PlPics /\ s9 \in BOOLEAN
    BY DEF PlKept, PlTyped, Pl!TypeOK
  <1>1. ASSUME NEW t \in Spot, Pl!Type(t) PROVE PlCarded'
    BY <1>1 DEF Pl!Type, Pl!requests, PlCarded, Pl!Open
  <1>2. ASSUME NEW t \in Spot, Pl!AskOther(t) PROVE PlCarded'
    BY <1>2 DEF Pl!AskOther, Pl!page, PlCarded, Pl!Open
  <1>3. CASE Pl!AskSave
    BY <1>3, PlKinds DEF Pl!AskSave, Pl!page, PlCarded, Pl!Open, PlAwaits
  <1>4. CASE Pl!Save
    BY <1>4, PlKinds DEF Pl!Save, Pl!page, PlCarded, PlAwaits
  <1>5. CASE Pl!AskPic
    BY <1>5, PlKinds DEF Pl!AskPic, Pl!page, PlCarded, Pl!Open, PlAwaits
  <1>6. CASE Pl!SetPic
    BY <1>6, PlKinds DEF Pl!SetPic, Pl!page, PlCarded, PlAwaits
  <1>7. CASE Pl!Await
    BY <1>7, PlKinds DEF Pl!Await, Pl!page, PlCarded, Pl!Open, PlAwaits
  <1>8. CASE Pl!ReadProfile
    <2>1. Pl!Got.pc = "got"
      BY DEF Pl!Got
    <2> QED
      BY <1>8, <2>1, PlKinds DEF Pl!ReadProfile, Pl!page, PlCarded, Pl!Open, PlAwaits
  <1>9. CASE Pl!Refreshed
    <2>1. PICK new \in PlRows : Pl!Install(new)
      BY <1>0, <1>9, PlKinds DEF Pl!Refreshed
    <2> QED
      BY <1>9, <2>1 DEF Pl!Refreshed, Pl!Install, PlCarded
  <1>10. CASE Pl!Fail
    BY <1>10 DEF Pl!Fail, Pl!page, PlCarded
  <1>11. CASE Pl!SaveOther
    BY <1>11 DEF Pl!SaveOther, Pl!page, PlCarded
  <1>12. CASE Pl!AskDelete
    BY <1>12, PlKinds DEF Pl!AskDelete, Pl!page, PlCarded, Pl!Open, PlAwaits
  <1>13. CASE Pl!Delete
    BY <1>13 DEF Pl!Delete, Pl!page, PlCarded, Pl!Open
  <1> QED
    BY <1>1, <1>2, <1>3, <1>4, <1>5, <1>6, <1>7, <1>8, <1>9, <1>10, <1>11, <1>12, <1>13 DEF
       Pl!Next

PlInv == PlKept /\ PlCarded

LEMMA PlMeans == ASSUME PlInv PROVE Pl!TypeOK /\ Pl!Scrubs /\ Pl!CardTrue
  BY PlKinds DEF PlInv, PlKept, PlCarded, Pl!CardTrue, Pl!Quiet, PlAwaits

LEMMA PlInitInv == ASSUME Pl!Init PROVE PlInv
  BY PlInitKept, PlInitCarded DEF PlInv

LEMMA PlNextInv == ASSUME PlInv, Pl!Next PROVE PlInv'
  BY PlNextKept, PlNextCarded DEF PlInv

LEMMA PlStillInv == ASSUME PlInv, UNCHANGED Pl!vars PROVE PlInv'
  BY DEF PlInv, Pl!vars, PlKept, PlCarded, Pl!page, Pl!requests, Pl!TypeOK, Pl!Scrubs,
     PlTyped, Pl!Open, PlSaves,
         PlPics

-----------------------------------------------------------------------------
(* InviteQueue: an invitation that is open is in the queue or on its way.  *)

\* What is in a sequence, when its first goes, one is put at its end, or one is taken out.
LEMMA IqTaken ==
  ASSUME NEW S, NEW q \in Seq(S), q # <<>>, Iq!IsInjective(q)
  PROVE  /\ Iq!ToSet(Tail(q)) = Iq!ToSet(q) \ {Head(q)} /\ Iq!IsInjective(Tail(q))
         /\ Head(q) \in Iq!ToSet(q)
  <1>1. Len(q) \in Nat /\ DOMAIN q = 1..Len(q) /\ Len(q) # 0
    OBVIOUS
  <1>2. /\ Head(q) = q[1] /\ 1 \in DOMAIN q
        /\ DOMAIN Tail(q) = 1..(Len(q) - 1)
        /\ \A i \in DOMAIN Tail(q) : i + 1 \in DOMAIN q /\ Tail(q)[i] = q[i + 1]
        /\ \A i \in DOMAIN q : i # 1 => i - 1 \in DOMAIN Tail(q) /\ Tail(q)[i - 1] = q[i]
    BY <1>1, Tailed
  <1>3. \A i \in DOMAIN Tail(q) : i + 1 # 1 /\ q[i + 1] # q[1]
    <2>1. \A i \in DOMAIN Tail(q) : i + 1 # 1
      BY <1>1, <1>2
    <2> QED
      BY <1>2, <2>1 DEF Iq!IsInjective
  <1>4. \A i, j \in DOMAIN Tail(q) : Tail(q)[i] = Tail(q)[j] => i = j
    <2>1. \A i, j \in DOMAIN Tail(q) : i + 1 = j + 1 => i = j
      BY <1>1, <1>2
    <2> QED
      BY <1>2, <2>1 DEF Iq!IsInjective
  <1> QED
    BY <1>2, <1>3, <1>4 DEF Iq!ToSet, Iq!IsInjective

LEMMA IqAdded ==
  ASSUME NEW S, NEW q \in Seq(S), NEW x \in S
  PROVE  /\ Iq!ToSet(Append(q, x)) = Iq!ToSet(q) \cup {x}
         /\ Iq!IsInjective(q) /\ x \notin Iq!ToSet(q) => Iq!IsInjective(Append(q, x))
  <1>1. /\ DOMAIN Append(q, x) = DOMAIN q \cup {Len(q) + 1}
        /\ \A i \in DOMAIN q : Append(q, x)[i] = q[i]
        /\ Append(q, x)[Len(q) + 1] = x
    BY Longer
  <1> QED
    BY <1>1 DEF Iq!ToSet, Iq!IsInjective

LEMMA IqDropped ==
  ASSUME NEW S, NEW q \in Seq(S), NEW x
  PROVE  /\ Iq!Without(q, x) \in Seq(S) /\ Iq!ToSet(Iq!Without(q, x)) = Iq!ToSet(q) \ {x}
         /\ Iq!IsInjective(q) => Iq!IsInjective(Iq!Without(q, x))
  <1> DEFINE rest == Iq!Without(q, x)
  <1>1. /\ rest \in Seq(S)
        /\ \A i \in DOMAIN rest : \E j \in DOMAIN q : q[j] # x /\ rest[i] = q[j]
        /\ \A j \in DOMAIN q : q[j] # x => \E i \in DOMAIN rest : rest[i] = q[j]
        /\ Iq!IsInjective(q) => Iq!IsInjective(rest)
    BY IqLacking
  <1> HIDE DEF rest
  <1>2. Iq!ToSet(rest) = Iq!ToSet(q) \ {x}
    BY <1>1 DEF Iq!ToSet
  <1> QED
    BY <1>1, <1>2 DEF rest

\* What a sequence contains are the members of its set.
LEMMA IqContaining ==
  ASSUME NEW S, NEW q \in Seq(S)
  PROVE  \A x : Iq!Contains(q, x) <=> x \in Iq!ToSet(q)
  <1>1. DOMAIN q = 1..Len(q)
    OBVIOUS
  <1> QED
    BY <1>1 DEF Iq!Contains, Iq!ToSet

IqComing == Iq!ToSet(s4)
IqQueued == Iq!ToSet(s5)

\* An invite that is queued or on its way there, and not answered.
IqOffered(i) == i \in IqComing \cup IqQueued /\ ~(s6.pc = "served" /\ s6.invite = i)

IqInv ==
  /\ Iq!TypeOK
  /\ Iq!IsInjective(s4) /\ IqComing \cap IqQueued = {}
  /\ s2 \cap (IqComing \cup IqQueued \cup s1) = {}
  /\ \A i \in Spot \ s7 : i \in s1 <=> IqOffered(i)
  /\ s6 # Iq!Idle => s6.invite \in IqQueued \cup s7

LEMMA IqKinds ==
  ASSUME Iq!TypeOK
  PROVE  /\ Iq!Idle.pc = "idle"
         /\ s6 # Iq!Idle => /\ s6.pc \in {"asked", "served"} /\ s6.invite \in Spot
                            /\ s6.accept \in BOOLEAN
                            /\ s6 \in [pc : {"asked", "served"}, invite : Spot, accept : BOOLEAN]
         /\ IqComing \subseteq Spot /\ IqQueued \subseteq Spot
  BY DEF Iq!TypeOK, Iq!Idle, IqComing, IqQueued, Iq!ToSet

\* The invites a step leaves alone are as they were.
LEMMA IqInitInv == ASSUME Iq!Init PROVE IqInv
  <1>1. \A s : s = <<>> => Iq!ToSet(s) = {} /\ Iq!IsInjective(s)
    BY DEF Iq!ToSet, Iq!IsInjective
  <1>2. s4 = <<>> /\ s5 = <<>>
    BY DEF Iq!Init
  <1>3. Iq!TypeOK
    BY <1>1, <1>2 DEF Iq!Init, Iq!TypeOK
  <1> QED
    BY <1>1, <1>2, <1>3 DEF Iq!Init, IqInv, IqComing, IqQueued, IqOffered, Iq!Idle

LEMMA IqNextInv == ASSUME IqInv, Iq!Next PROVE IqInv'
  <1>0. /\ Iq!TypeOK /\ s4 \in Seq(Spot) /\ s5 \in Seq(Spot)
        /\ Iq!IsInjective(s4) /\ Iq!IsInjective(s5)
    BY DEF IqInv, Iq!TypeOK
  <1>1. ASSUME NEW i \in Spot, Iq!Create(i) PROVE IqInv'
    <2>1. /\ i \in s2 /\ s2' = s2 \ {i} /\ s1' = s1 \cup {i}
          /\ UNCHANGED <<s3, s5, s6>>
      BY <1>1 DEF Iq!Create
    <2>2. CASE s3
      <3>1. s4' = Append(s4, i) /\ UNCHANGED s7
        BY <1>1, <2>2 DEF Iq!Create
      <3>2. IqComing' = IqComing \cup {i} /\ s4' \in Seq(Spot) /\ Iq!IsInjective(s4')
        BY <1>0, <2>1, <3>1, IqAdded, Longer DEF IqInv, IqComing
      <3>3. Iq!TypeOK'
        BY <1>0, <2>1, <3>1, <3>2 DEF Iq!TypeOK
      <3>4. IqQueued' = IqQueued /\ i \notin IqQueued /\ ~(s6.pc = "served" /\ s6.invite = i /\ i \notin s7)
        BY <1>0, <2>1, IqKinds DEF IqInv, IqQueued
      <3> QED
        BY <2>1, <3>1, <3>2, <3>3, <3>4 DEF IqInv, IqOffered
    <2>3. CASE ~s3
      <3>1. s7' = s7 \cup {i} /\ UNCHANGED s4
        BY <1>1, <2>3 DEF Iq!Create
      <3>2. Iq!TypeOK'
        BY <1>0, <2>1, <3>1 DEF Iq!TypeOK
      <3> QED
        BY <2>1, <3>1, <3>2 DEF IqInv, IqOffered, IqComing, IqQueued
    <2> QED
      BY <2>2, <2>3
  <1>2. ASSUME NEW i \in Spot, Iq!ClosedElsewhere(i) PROVE IqInv'
    <2>1. Iq!TypeOK'
      BY <1>0, <1>2 DEF Iq!ClosedElsewhere, Iq!TypeOK
    <2> QED
      BY <1>2, <2>1 DEF Iq!ClosedElsewhere, IqInv, IqOffered, IqComing, IqQueued
  <1>3. CASE Iq!Receive
    <2>1. /\ s4 # <<>> /\ s4' = Tail(s4) /\ UNCHANGED <<s1, s2, s3, s6, s7>>
          /\ s5' = IF Iq!Contains(s5, Head(s4)) THEN s5 ELSE Append(s5, Head(s4))
      BY <1>3 DEF Iq!Receive
    <2> DEFINE h == Head(s4)
    <2>2. /\ IqComing' = IqComing \ {h} /\ Iq!IsInjective(s4') /\ h \in IqComing /\ h \in Spot
          /\ s4' \in Seq(Spot)
      BY <1>0, <2>1, IqTaken, Tailed DEF IqComing
    <2>3. ~Iq!Contains(s5, h)
      BY <1>0, <2>2, IqContaining DEF IqInv, IqQueued
    <2>4. IqQueued' = IqQueued \cup {h} /\ Iq!IsInjective(s5') /\ s5' \in Seq(Spot)
      BY <1>0, <2>1, <2>2, <2>3, IqAdded, Longer, IqContaining DEF IqQueued
    <2>5. Iq!TypeOK'
      BY <1>0, <2>1, <2>2, <2>4 DEF Iq!TypeOK
    <2> QED
      BY <2>1, <2>2, <2>4, <2>5 DEF IqInv, IqOffered
  <1>4. CASE Iq!Lose
    <2>1. s4' = <<>> /\ s7' = s7 \cup IqComing /\ UNCHANGED <<s1, s2, s3, s5, s6>>
      BY <1>4 DEF Iq!Lose, IqComing
    <2>2. IqComing' = {} /\ Iq!IsInjective(s4') /\ s4' \in Seq(Spot) /\ IqQueued' = IqQueued
      BY <2>1 DEF IqComing, IqQueued, Iq!ToSet, Iq!IsInjective
    <2>3. Iq!TypeOK'
      BY <1>0, <2>1, <2>2, IqKinds DEF Iq!TypeOK
    <2> QED
      BY <2>1, <2>2, <2>3 DEF IqInv, IqOffered
  <1>5. CASE Iq!Serve
    <2>1. /\ s6.pc = "asked" /\ s6.invite \in s1 /\ s1' = s1 \ {s6.invite}
          /\ s6' = [s6 EXCEPT !.pc = "served"] /\ UNCHANGED <<s2, s3, s4, s5, s7>>
      BY <1>5 DEF Iq!Serve
    <2>2. s6 # Iq!Idle
      BY <1>0, <2>1, IqKinds
    <2>3. /\ s6' \in [pc : {"asked", "served"}, invite : Spot, accept : BOOLEAN]
          /\ s6'.pc = "served" /\ s6'.invite = s6.invite
      BY <1>0, <2>1, <2>2, IqKinds
    <2>4. Iq!TypeOK'
      BY <1>0, <2>1, <2>3 DEF Iq!TypeOK
    <2> QED
      BY <2>1, <2>2, <2>3, <2>4 DEF IqInv, IqOffered, IqComing, IqQueued
  <1>6. CASE Iq!Served
    <2>1. /\ s6.pc = "served" /\ s5' = Iq!Without(s5, s6.invite) /\ s6' = Iq!Idle
          /\ UNCHANGED <<s1, s2, s3, s4, s7>>
      BY <1>6 DEF Iq!Served
    <2>2. s6 # Iq!Idle
      BY <1>0, <2>1, IqKinds
    <2>3. /\ IqQueued' = IqQueued \ {s6.invite} /\ Iq!IsInjective(s5') /\ s5' \in Seq(Spot)
          /\ IqComing' = IqComing
      BY <1>0, <2>1, IqDropped DEF IqQueued, IqComing
    <2>4. Iq!TypeOK'
      BY <1>0, <2>1, <2>3 DEF Iq!TypeOK
    <2> QED
      BY <1>0, <2>1, <2>2, <2>3, <2>4, IqKinds DEF IqInv, IqOffered
  <1>7. CASE Iq!Failed
    <2>1. s6 # Iq!Idle /\ s6' = Iq!Idle /\ UNCHANGED <<s1, s2, s3, s4>> /\ IqComing' = IqComing
      BY <1>7 DEF Iq!Failed, IqComing
    <2>2. CASE s6.accept
      <3>1. /\ s7' = IF s6.pc = "served" THEN s7 \cup {s6.invite} ELSE s7
            /\ UNCHANGED s5 /\ IqQueued' = IqQueued
        BY <1>7, <2>2 DEF Iq!Failed, IqQueued
      <3>2. Iq!TypeOK'
        BY <1>0, <2>1, <3>1, IqKinds DEF Iq!TypeOK
      <3> QED
        BY <1>0, <2>1, <3>1, <3>2, IqKinds DEF IqInv, IqOffered
    <2>3. CASE ~s6.accept
      <3>1. s5' = Iq!Without(s5, s6.invite) /\ s7' = s7 \cup {s6.invite}
        BY <1>7, <2>3 DEF Iq!Failed
      <3>2. IqQueued' = IqQueued \ {s6.invite} /\ Iq!IsInjective(s5') /\ s5' \in Seq(Spot)
        BY <1>0, <3>1, IqDropped DEF IqQueued
      <3>3. Iq!TypeOK'
        BY <1>0, <2>1, <3>1, <3>2, IqKinds DEF Iq!TypeOK
      <3> QED
        BY <1>0, <2>1, <3>1, <3>2, <3>3, IqKinds DEF IqInv, IqOffered
    <2> QED
      BY <2>2, <2>3
  <1>8. CASE Iq!SignOut
    <2>1. /\ s5' = <<>> /\ s4' = <<>> /\ s7' = s7 \cup IqQueued \cup IqComing
          /\ UNCHANGED <<s1, s2, s6>> /\ s3' = FALSE
      BY <1>8 DEF Iq!SignOut, IqQueued, IqComing
    <2>2. /\ IqComing' = {} /\ IqQueued' = {} /\ Iq!IsInjective(s4') /\ Iq!IsInjective(s5')
          /\ s4' \in Seq(Spot) /\ s5' \in Seq(Spot)
      BY <2>1 DEF IqComing, IqQueued, Iq!ToSet, Iq!IsInjective
    <2>3. Iq!TypeOK'
      BY <1>0, <2>1, <2>2, IqKinds DEF Iq!TypeOK
    <2> QED
      BY <2>1, <2>2, <2>3 DEF IqInv, IqOffered
  <1>9. CASE Iq!SignIn
    <2>1. Iq!TypeOK'
      BY <1>0, <1>9 DEF Iq!SignIn, Iq!TypeOK
    <2> QED
      BY <1>9, <2>1 DEF Iq!SignIn, IqInv, IqOffered, IqComing, IqQueued
  <1>10. ASSUME NEW accept \in BOOLEAN, Iq!Respond(accept) PROVE IqInv'
    <2>1. /\ s5 # <<>> /\ s6' = [pc |-> "asked", invite |-> Head(s5), accept |-> accept]
          /\ s6 = Iq!Idle
          /\ UNCHANGED <<s1, s2, s3, s4, s5, s7>>
      BY <1>10 DEF Iq!Respond
    <2>2. Head(s5) \in IqQueued /\ Head(s5) \in Spot
      BY <1>0, <2>1, IqTaken, Tailed DEF IqQueued
    <2>3. Iq!TypeOK'
      BY <1>0, <2>1, <2>2 DEF Iq!TypeOK
    <2> QED
      BY <1>0, <2>1, <2>2, <2>3, IqKinds DEF IqInv, IqOffered, IqComing, IqQueued
  <1> QED
    BY <1>1, <1>2, <1>3, <1>4, <1>5, <1>6, <1>7, <1>8, <1>9, <1>10 DEF Iq!Next

LEMMA IqMeans == ASSUME IqInv PROVE Iq!TypeOK /\ Iq!InvitesTrue
  <1>1. ASSUME Iq!Quiet PROVE \A i \in Spot \ s7 : Iq!Contains(s5, i) <=> i \in s1
    <2>1. IqComing = {} /\ s6.pc = "idle"
      BY <1>1 DEF Iq!Quiet, IqComing, Iq!ToSet, Iq!Idle
    <2>2. \A i : Iq!Contains(s5, i) <=> i \in IqQueued
      BY IqContaining DEF IqInv, Iq!TypeOK, IqQueued
    <2> QED
      BY <2>1, <2>2 DEF IqInv, IqOffered
  <1> QED
    BY <1>1 DEF Iq!InvitesTrue, IqInv

LEMMA IqStillInv == ASSUME IqInv, UNCHANGED Iq!vars PROVE IqInv'
  BY DEF IqInv, Iq!vars, Iq!TypeOK, IqComing, IqQueued, IqOffered

-----------------------------------------------------------------------------
(* PartyScreen: the party on the screen is the active one, or will be.     *)

\* What may be left of a chain.
PxPrivate2 == <<"refresh">>
PxPublic2 == <<"updateSettings", "inviteAllFriends", "refresh">>
PxPublic3 == <<"inviteAllFriends", "refresh">>
PxChains == {<<>>, Px!Private, PxPrivate2, Px!Public, PxPublic2, PxPublic3, Px!Leaving}

\* A turn of the switch that is alone, or none.
PxTurned ==
  \/ Px!Pending = {} /\ s3 = s1
  \/ \E t \in Req : Px!Pending = {t} /\ s5[t].to = s3 /\ s1 = ~s3

PxInv ==
  /\ s4 \in PxChains
  /\ {s1, s2} \subseteq {Nobody, TRUE, FALSE} /\ {s3, s6, s7} \subseteq BOOLEAN
  /\ s5 \in [Req -> {Px!Idle} \cup [pc : {"asked"}, to : BOOLEAN]]
  /\ s6 \/ (s2 = Nobody <=> s1 = Nobody) \/ s4 = PxPrivate2
  /\ ~s7 /\ s1 # Nobody => PxTurned
  /\ s4 \in {Px!Private, Px!Public, PxPublic2} => s2 = Nobody
  /\ s4 = PxPublic2 => s7 \/ (Px!Pending = {} /\ s3 = TRUE)

LEMMA PxChained ==
  /\ Px!Private # <<>> /\ Head(Px!Private) = "create" /\ Tail(Px!Private) = PxPrivate2
  /\ PxPrivate2 # <<>> /\ Head(PxPrivate2) = "refresh" /\ Tail(PxPrivate2) = <<>>
  /\ Px!Public # <<>> /\ Head(Px!Public) = "create" /\ Tail(Px!Public) = PxPublic2
  /\ PxPublic2 # <<>> /\ Head(PxPublic2) = "updateSettings" /\ Tail(PxPublic2) = PxPublic3
  /\ PxPublic3 # <<>> /\ Head(PxPublic3) = "inviteAllFriends" /\ Tail(PxPublic3) = PxPrivate2
  /\ Px!Leaving # <<>> /\ Head(Px!Leaving) = "leave" /\ Tail(Px!Leaving) = PxPrivate2
  BY DEF Px!Private, PxPrivate2, Px!Public, PxPublic2, PxPublic3, Px!Leaving

LEMMA PxTypings ==
  ASSUME s4 \in PxChains
  PROVE  \E c \in {Px!Private, Px!Public, Px!Leaving} : \E n \in 0..4 : s4 = SubSeq(c, n + 1, Len(c))
  <1>1. /\ <<>> = SubSeq(Px!Private, 3, 2) /\ Px!Private = SubSeq(Px!Private, 1, 2)
        /\ PxPrivate2 = SubSeq(Px!Private, 2, 2) /\ Len(Px!Private) = 2
    BY DEF Px!Private, PxPrivate2
  <1>2. /\ Px!Public = SubSeq(Px!Public, 1, 4) /\ PxPublic2 = SubSeq(Px!Public, 2, 4)
        /\ PxPublic3 = SubSeq(Px!Public, 3, 4) /\ Len(Px!Public) = 4
    BY DEF Px!Public, PxPublic2, PxPublic3
  <1>3. Px!Leaving = SubSeq(Px!Leaving, 1, 2) /\ Len(Px!Leaving) = 2
    BY DEF Px!Leaving
  <1> HIDE DEF Px!Private, PxPrivate2, Px!Public, PxPublic2, PxPublic3, Px!Leaving
  <1>5. CASE s4 = <<>>
    <2>1. s4 = SubSeq(Px!Private, 2 + 1, Len(Px!Private))
      BY <1>1, <1>5
    <2> QED
      BY <2>1
  <1>6. CASE s4 = Px!Private \/ s4 = Px!Public \/ s4 = Px!Leaving
    <2>1. \A c \in {Px!Private, Px!Public, Px!Leaving} : c = SubSeq(c, 0 + 1, Len(c))
      BY <1>1, <1>2, <1>3
    <2> QED
      BY <1>6, <2>1
  <1>7. CASE s4 = PxPrivate2
    <2>1. s4 = SubSeq(Px!Private, 1 + 1, Len(Px!Private))
      BY <1>1, <1>7
    <2> QED
      BY <2>1
  <1>8. CASE s4 = PxPublic2
    <2>1. s4 = SubSeq(Px!Public, 1 + 1, Len(Px!Public))
      BY <1>2, <1>8
    <2> QED
      BY <2>1
  <1>9. CASE s4 = PxPublic3
    <2>1. s4 = SubSeq(Px!Public, 2 + 1, Len(Px!Public))
      BY <1>2, <1>9
    <2> QED
      BY <2>1
  <1> QED
    BY <1>5, <1>6, <1>7, <1>8, <1>9 DEF PxChains

LEMMA PxInitInv == ASSUME Px!Init PROVE PxInv
  <1>1. Px!Pending = {}
    BY DEF Px!Init, Px!Pending
  <1> QED
    BY <1>1, PxChained, NobodyAssumption DEF Px!Init, PxInv, PxChains, PxTurned

\* Which chain a request is the first of.
LEMMA PxFirst ==
  ASSUME s4 \in PxChains, NEW request, Px!Done(request)
  PROVE  /\ s4' \in PxChains
         /\ request = "create" => s4 \in {Px!Private, Px!Public} /\ s4' \in {PxPrivate2, PxPublic2}
         /\ request = "updateSettings" => s4 = PxPublic2 /\ s4' = PxPublic3
         /\ request = "inviteAllFriends" => s4 = PxPublic3 /\ s4' = PxPrivate2
         /\ request = "leave" => s4 = Px!Leaving /\ s4' = PxPrivate2
         /\ request = "refresh" => s4 = PxPrivate2 /\ s4' = <<>>
  BY PxChained DEF Px!Done, PxChains

\* The chains are told apart by their first request.
LEMMA PxApart ==
  /\ PxPrivate2 \notin {Px!Private, Px!Public, PxPublic2, <<>>}
  /\ PxPublic3 \notin {Px!Private, Px!Public, PxPublic2, PxPrivate2}
  /\ <<>> \notin {Px!Private, Px!Public, PxPublic2, PxPrivate2}
  /\ Px!Leaving \notin {Px!Private, Px!Public, PxPublic2, PxPrivate2}
  /\ PxPublic2 \notin {Px!Private, Px!Public, PxPrivate2}
  /\ {Px!Private, Px!Public} \cap {PxPrivate2, PxPublic2} = {}
  BY PxChained

LEMMA PxNextInv == ASSUME PxInv, Px!Next PROVE PxInv'
  <1>0. /\ s4 \in PxChains /\ s5 \in [Req -> {Px!Idle} \cup [pc : {"asked"}, to : BOOLEAN]]
        /\ s3 \in BOOLEAN /\ s7 \in BOOLEAN /\ s6 \in BOOLEAN
        /\ s1 \in {Nobody, TRUE, FALSE} /\ s2 \in {Nobody, TRUE, FALSE}
    BY DEF PxInv
  <1>1. CASE Px!Mount
    BY <1>0, <1>1, NobodyAssumption, PxApart DEF Px!Mount, PxInv, PxTurned, Px!Pending
  <1>2. CASE Px!Start
    <2>1. s4' \in {Px!Private, Px!Public, Px!Leaving} /\ (s4' \in {Px!Private, Px!Public} => s2 = Nobody) /\ s4 = <<>>
          /\ UNCHANGED <<s1, s2, s3, s5, s6, s7>>
      BY <1>2, PxApart DEF Px!Start
    <2> QED
      BY <2>1, PxApart DEF PxInv, PxTurned, Px!Pending, PxChains
  <1>3. CASE Px!Create
    <2>1. s4 \in {Px!Private, Px!Public} /\ s4' \in {PxPrivate2, PxPublic2} /\ s4' \in PxChains
      BY <1>0, <1>3, PxFirst DEF Px!Create
    <2>2. /\ s1' = TRUE /\ s6' = TRUE /\ s7' = (Px!Pending # {} \/ s3 # TRUE)
          /\ UNCHANGED <<s2, s3, s5>>
      BY <1>3 DEF Px!Create, Px!Begin
    <2>3. s2 = Nobody /\ Px!Pending' = Px!Pending
      BY <2>1, <2>2 DEF PxInv, Px!Pending
    <2> QED
      BY <1>0, <2>1, <2>2, <2>3 DEF PxInv, PxTurned
  <1>4. CASE Px!UpdateSettings
    <2>1. s4 = PxPublic2 /\ s4' = PxPublic3
      BY <1>0, <1>4, PxFirst DEF Px!UpdateSettings
    <2>2. s1 # Nobody /\ s1' = TRUE /\ UNCHANGED <<s2, s3, s5, s6, s7>> /\ Px!Pending' = Px!Pending
      BY <1>4 DEF Px!UpdateSettings, Px!Pending
    <2> QED
      BY <1>0, <2>1, <2>2, PxApart, NobodyAssumption DEF PxInv, PxTurned, PxChains
  <1>5. CASE Px!InviteAll
    <2>1. s4 = PxPublic3 /\ s4' = PxPrivate2
      BY <1>0, <1>5, PxFirst DEF Px!InviteAll
    <2> QED
      BY <1>0, <1>5, <2>1, PxApart DEF Px!InviteAll, PxInv, PxTurned, Px!Pending, PxChains
  <1>6. CASE Px!Leave
    <2>1. s4 = Px!Leaving /\ s4' = PxPrivate2
      BY <1>0, <1>6, PxFirst DEF Px!Leave
    <2> QED
      BY <1>0, <1>6, <2>1, PxApart DEF Px!Leave, PxInv, Px!Pending, PxChains
  <1>7. CASE Px!Refresh
    <2>1. s4 = PxPrivate2 /\ s4' = <<>>
      BY <1>0, <1>7, PxFirst DEF Px!Refresh
    <2> QED
      BY <1>0, <1>7, <2>1, PxApart DEF Px!Refresh, PxInv, PxTurned, Px!Pending, PxChains
  <1>8. CASE Px!Updated
    BY <1>0, <1>8 DEF Px!Updated, PxInv, PxTurned, Px!Pending
  <1>9. CASE Px!ChainFailed
    <2>1. s4' = <<>> /\ s4 # PxPrivate2 /\ UNCHANGED <<s1, s2, s3, s5, s6, s7>>
      BY <1>9, PxChained DEF Px!ChainFailed
    <2> QED
      BY <1>0, <2>1, PxApart DEF PxInv, PxTurned, Px!Pending, PxChains
  <1>10. CASE Px!Reload
    BY <1>0, <1>10, PxApart DEF Px!Reload, Px!Quiet, PxInv, PxTurned, Px!Pending
  <1>11. ASSUME NEW t \in Req, Px!Toggle(t) PROVE PxInv'
    <2> DEFINE new == [pc |-> "asked", to |-> ~s3]
    <2>1. /\ s2 # Nobody /\ s5[t] = Px!Idle /\ s3' = ~s3 /\ s5' = [s5 EXCEPT ![t] = new]
          /\ s7' = (s7 \/ Px!Pending # {}) /\ UNCHANGED <<s1, s2, s4, s6>>
      BY <1>11 DEF Px!Toggle
    <2>2. new \in [pc : {"asked"}, to : BOOLEAN] /\ new # Px!Idle /\ new.to = ~s3
      BY <1>0 DEF Px!Idle
    <2> HIDE DEF new
    <2>3. s5'[t] = new /\ \A s \in Req \ {t} : s5'[s] = s5[s]
      BY <1>0, <2>1
    <2>4. /\ s5' \in [Req -> {Px!Idle} \cup [pc : {"asked"}, to : BOOLEAN]]
          /\ Px!Pending = {} => Px!Pending' = {t}
      BY <1>0, <2>1, <2>2, <2>3 DEF Px!Pending
    <2>5. ~s7' /\ s1' # Nobody => PxTurned'
      BY <1>0, <2>1, <2>2, <2>3, <2>4 DEF PxInv, PxTurned
    <2> QED
      BY <1>0, <2>1, <2>4, <2>5 DEF PxInv
  <1>12. ASSUME NEW t \in Req, s5[t] # Px!Idle, s5' = [s5 EXCEPT ![t] = Px!Idle],
                 UNCHANGED <<s2, s4, s6>>, s7' \in BOOLEAN, s7 => s7',
                 (s1' \in BOOLEAN /\ s1 # Nobody) \/ s1' = s1,
                 s3' \in BOOLEAN,
                 ~s7' /\ s1 # Nobody /\ s5[t].to = s3 /\ s1 = ~s3 => s3' = s1'
         PROVE  PxInv'
    <2>1. s5'[t] = Px!Idle /\ \A s \in Req \ {t} : s5'[s] = s5[s]
      BY <1>0, <1>12
    <2>2. /\ s5' \in [Req -> {Px!Idle} \cup [pc : {"asked"}, to : BOOLEAN]]
          /\ Px!Pending' = Px!Pending \ {t} /\ t \in Px!Pending
      BY <1>0, <1>12, <2>1 DEF Px!Pending
    <2>3. (s1' = Nobody <=> s1 = Nobody) /\ s1' \in {Nobody, TRUE, FALSE}
      BY <1>0, <1>12, NobodyAssumption
    <2>4. ASSUME ~s7', s1' # Nobody PROVE PxTurned'
      <3>1. ~s7 /\ s1 # Nobody
        BY <1>0, <1>12, <2>3, <2>4
      <3>2. Px!Pending = {t} /\ s5[t].to = s3 /\ s1 = ~s3
        BY <2>2, <3>1 DEF PxInv, PxTurned
      <3>3. s3' = s1' /\ Px!Pending' = {}
        BY <1>12, <2>2, <2>4, <3>1, <3>2
      <3> QED
        BY <3>3 DEF PxTurned
    <2>5. s4' = PxPublic2 => s7'
      BY <1>0, <1>12, <2>2 DEF PxInv
    <2>6. s6' \/ (s2' = Nobody <=> s1' = Nobody) \/ s4' = PxPrivate2
      BY <1>12, <2>3 DEF PxInv
    <2> QED
      BY <1>0, <1>12, <2>2, <2>3, <2>4, <2>5, <2>6 DEF PxInv
  <1>13. ASSUME NEW t \in Req, s5[t] # Px!Idle PROVE s5[t].to \in BOOLEAN
    BY <1>0, <1>13
  <1>14. ASSUME NEW t \in Req, Px!Saved(t) PROVE PxInv'
    BY <1>0, <1>12, <1>13, <1>14 DEF Px!Saved
  <1>15. ASSUME NEW t \in Req, Px!Refused(t) PROVE PxInv'
    <2>1. /\ s5[t] # Px!Idle /\ s3' = ~s5[t].to /\ s5' = [s5 EXCEPT ![t] = Px!Idle]
          /\ UNCHANGED <<s2, s4, s6>> /\ s5[t].to \in BOOLEAN
      BY <1>13, <1>15 DEF Px!Refused
    <2>2. CASE UNCHANGED <<s1, s7>>
      <3>1. s5[t].to = s3 /\ s1 = ~s3 => s3' = s1'
        BY <2>1, <2>2
      <3> QED
        BY <1>0, <1>12, <2>1, <2>2, <3>1
    <2>3. CASE s1 # Nobody /\ s1' = s5[t].to /\ s7' = TRUE
      BY <1>0, <1>12, <2>1, <2>3
    <2> QED
      BY <1>15, <2>2, <2>3 DEF Px!Refused
  <1> QED
    BY <1>1, <1>2, <1>3, <1>4, <1>5, <1>6, <1>7, <1>8, <1>9, <1>10, <1>11, <1>14, <1>15 DEF
       Px!Next

LEMMA PxMeans == ASSUME PxInv PROVE Px!TypeOK /\ Px!ScreenTrue
  <1>1. Px!TypeOK
    BY PxTypings DEF PxInv, Px!TypeOK
  <1>2. Px!Quiet => s4 # PxPrivate2
    BY PxApart DEF Px!Quiet
  <1> QED
    BY <1>1, <1>2 DEF PxInv, Px!ScreenTrue, Px!Quiet, PxTurned

LEMMA PxStillInv == ASSUME PxInv, UNCHANGED Px!vars PROVE PxInv'
  BY DEF PxInv, Px!vars, PxTurned, Px!Pending

-----------------------------------------------------------------------------
(* Preferences: a choice that is shown is stored, on its way or refused.   *)

\* The saves in flight of one field.
PpOf(f) == {t \in Req : s4[t] # Pp!Idle /\ s4[t].field = f}

\* A field that is not astray is as stored or has one save, of what is shown.
PpFollowed(f) ==
  /\ PpOf(f) = {} => s2[f] = s1[f]
  /\ \A t \in PpOf(f) : PpOf(f) = {t} /\ s4[t].to = s2[f]

\* What a load has read of it is what is stored.
PpUnmoved(f) == PpOf(f) = {} /\ s3.prefs[f] = s1[f]

PpInv ==
  /\ Pp!TypeOK
  /\ s3 = Pp!Loaded => \A f \in {"enabled", "opacity"} \ s5 : PpFollowed(f)
  /\ s3.pc = "read" => \A f \in {"enabled", "opacity"} \ s5 : PpUnmoved(f)

LEMMA PpKinds ==
  /\ Pp!Idle.pc = "idle" /\ Pp!Asked.pc = "asked" /\ Pp!Loaded.pc = "loaded"
  /\ \A f, v : Pp!Save(f, v).pc = "asked" /\ Pp!Save(f, v).field = f /\ Pp!Save(f, v).to = v
  /\ \A f, v : Pp!Save(f, v) # Pp!Idle
  BY DEF Pp!Idle, Pp!Asked, Pp!Loaded, Pp!Save

LEMMA PpReading ==
  ASSUME Pp!TypeOK
  PROVE  /\ s3 = Pp!Loaded \/ s3 = Pp!Asked \/ (s3.pc = "read" /\ s3.prefs \in Pp!Prefs)
         /\ \A t \in Req : s4[t] # Pp!Idle => s4[t].field \in {"enabled", "opacity"} /\ s4[t].to \in BOOLEAN
  BY PpKinds DEF Pp!TypeOK

LEMMA PpInSaving == \A f : f \in Pp!Saving <=> PpOf(f) # {}
  BY DEF Pp!Saving, PpOf

LEMMA PpInitInv == ASSUME Pp!Init PROVE PpInv
  BY PpKinds DEF Pp!Init, PpInv, Pp!TypeOK, Pp!Default, Pp!Prefs

\* A save that ends leaves the other fields as they were.
LEMMA PpEnding ==
  ASSUME Pp!TypeOK, NEW t \in Req, s4[t] # Pp!Idle, s4' = [s4 EXCEPT ![t] = Pp!Idle]
  PROVE  /\ s4[t].field \in {"enabled", "opacity"}
         /\ \A f \in {"enabled", "opacity"} : f # s4[t].field => PpOf(f)' = PpOf(f)
         /\ \A f \in {"enabled", "opacity"}, s \in Req : s \in PpOf(f)' => s \in PpOf(f) /\ s4'[s] = s4[s]
         /\ \A f : f = s4[t].field => PpOf(f)' = PpOf(f) \ {t}
  <1>1. s4'[t] = Pp!Idle /\ \A s \in Req \ {t} : s4'[s] = s4[s]
    BY DEF Pp!TypeOK
  <1>2. ASSUME NEW f PROVE \A s \in Req : s \in PpOf(f)' <=> s \in PpOf(f) /\ s # t
    BY <1>1 DEF PpOf
  <1>3. \A f : PpOf(f)' = PpOf(f) \ {t}
    BY <1>2 DEF PpOf
  <1>4. \A f : f # s4[t].field => t \notin PpOf(f)
    BY DEF PpOf
  <1> QED
    BY <1>1, <1>2, <1>3, <1>4, PpReading

LEMMA PpNextInv == ASSUME PpInv, Pp!Next PROVE PpInv'
  <1>0. /\ Pp!TypeOK
        /\ s4 \in [Req -> {Pp!Idle} \cup [pc : {"asked"}, field : {"enabled", "opacity"}, to : BOOLEAN]]
        /\ s1 \in Pp!Prefs /\ s2 \in Pp!Prefs
    BY DEF PpInv, Pp!TypeOK
  <1>1. CASE Pp!Open
    <2>1. Pp!TypeOK'
      BY <1>0, <1>1 DEF Pp!Open, Pp!TypeOK, Pp!Default, Pp!Prefs
    <2> QED
      BY <1>1, <2>1, PpKinds DEF Pp!Open, PpInv
  <1>2. CASE Pp!Read
    <2>1. s3' = [pc |-> "read", prefs |-> s1] /\ s5' = Pp!Saving /\ UNCHANGED <<s1, s2, s4>>
      BY <1>2 DEF Pp!Read
    <2>2. Pp!Saving \in SUBSET {"enabled", "opacity"}
      BY <1>0, PpReading DEF Pp!Saving
    <2>3. Pp!TypeOK'
      BY <1>0, <2>1, <2>2 DEF Pp!TypeOK
    <2>4. \A f \in {"enabled", "opacity"} \ s5' : PpOf(f)' = {} /\ s3'.prefs[f] = s1'[f]
      BY <2>1, PpInSaving DEF PpOf
    <2> QED
      BY <2>1, <2>3, <2>4, PpKinds DEF PpInv, PpUnmoved
  <1>3. CASE Pp!Answer
    <2>1. Pp!TypeOK'
      BY <1>0, <1>3, PpReading, PpKinds DEF Pp!Answer, Pp!TypeOK
    <2>2. \A f \in {"enabled", "opacity"} \ s5 : PpOf(f)' = {} /\ s2'[f] = s1'[f]
      BY <1>3 DEF Pp!Answer, PpInv, PpUnmoved, PpOf
    <2> QED
      BY <1>3, <2>1, <2>2, PpKinds DEF Pp!Answer, PpInv, PpFollowed
  <1>4. CASE Pp!Unread
    <2>1. Pp!TypeOK'
      BY <1>0, <1>4 DEF Pp!Unread, Pp!TypeOK
    <2> QED
      BY <1>4, <2>1, PpKinds DEF Pp!Unread, PpInv
  <1>5. ASSUME NEW t \in Req, Pp!Write(t) PROVE PpInv'
    <2> DEFINE g == s4[t].field
    <2>1. /\ s4[t] # Pp!Idle /\ s4' = [s4 EXCEPT ![t] = Pp!Idle] /\ UNCHANGED <<s2, s3, s5>>
          /\ s1' = [s1 EXCEPT ![g] = s4[t].to]
      BY <1>5 DEF Pp!Write
    <2>2. g \in {"enabled", "opacity"} /\ s4[t].to \in BOOLEAN
      BY <1>0, <2>1, PpReading
    <2>3. s1' \in Pp!Prefs /\ s1'[g] = s4[t].to /\ \A f \in {"enabled", "opacity"} \ {g} : s1'[f] = s1[f]
      BY <1>0, <2>1, <2>2 DEF Pp!Prefs
    <2>4. Pp!TypeOK'
      BY <1>0, <2>1, <2>3 DEF Pp!TypeOK
    <2>5. t \in PpOf(g)
      BY <2>1 DEF PpOf
    <2>6. ASSUME s3 = Pp!Loaded, NEW f \in {"enabled", "opacity"} \ s5 PROVE PpFollowed(f)'
      <3>1. PpFollowed(f)
        BY <2>6 DEF PpInv
      <3>2. CASE f = g
        <4>1. PpOf(f) = {t} /\ s4[t].to = s2[f]
          BY <2>5, <3>1, <3>2 DEF PpFollowed
        <4>2. PpOf(f)' = PpOf(f) \ {t}
          BY <1>0, <2>1, <3>2, PpEnding
        <4> QED
          BY <2>1, <2>3, <3>2, <4>1, <4>2 DEF PpFollowed
      <3>3. CASE f # g
        <4>1. PpOf(f)' = PpOf(f)
          BY <1>0, <2>1, <3>3, PpEnding
        <4>2. \A s \in PpOf(f) : s4'[s] = s4[s]
          BY <1>0, <2>1, <4>1, PpEnding DEF PpOf
        <4> QED
          BY <2>1, <2>3, <3>1, <3>3, <4>1, <4>2 DEF PpFollowed
      <3> QED
        BY <3>2, <3>3
    <2>7. ASSUME s3.pc = "read", NEW f \in {"enabled", "opacity"} \ s5 PROVE PpUnmoved(f)'
      <3>1. PpUnmoved(f) /\ f # g
        BY <2>5, <2>7 DEF PpInv, PpUnmoved
      <3> QED
        BY <1>0, <2>1, <2>3, <3>1, PpEnding DEF PpUnmoved
    <2> QED
      BY <2>1, <2>4, <2>6, <2>7 DEF PpInv
  <1>6. ASSUME NEW t \in Req, Pp!Refuse(t) PROVE PpInv'
    <2> DEFINE g == s4[t].field
    <2>1. /\ s4[t] # Pp!Idle /\ s4' = [s4 EXCEPT ![t] = Pp!Idle] /\ UNCHANGED <<s1, s2, s3>>
          /\ s5' = s5 \cup {g}
      BY <1>6 DEF Pp!Refuse
    <2>2. g \in {"enabled", "opacity"}
      BY <1>0, <2>1, PpReading
    <2>3. Pp!TypeOK'
      BY <1>0, <2>1, <2>2 DEF Pp!TypeOK
    <2>4. \A f \in {"enabled", "opacity"} \ s5' : PpOf(f)' = PpOf(f) /\ \A s \in PpOf(f) : s4'[s] = s4[s]
      <3>1. \A f \in {"enabled", "opacity"} \ {g} : PpOf(f)' = PpOf(f)
        BY <1>0, <2>1, PpEnding
      <3>2. \A s \in Req \ {t} : s4'[s] = s4[s]
        BY <1>0, <2>1
      <3> QED
        BY <2>1, <3>1, <3>2 DEF PpOf
    <2> QED
      BY <2>1, <2>3, <2>4 DEF PpInv, PpFollowed, PpUnmoved
  <1>7. ASSUME NEW t \in Req, NEW g \in {"enabled", "opacity"}, Pp!Set(t, g) PROVE PpInv'
    <2>1. /\ s4[t] = Pp!Idle /\ s4' = [s4 EXCEPT ![t] = Pp!Save(g, ~s2[g])]
          /\ UNCHANGED <<s1, s3>>
          /\ s2' = [s2 EXCEPT ![g] = ~s2[g]]
          /\ s5' = IF g \in Pp!Saving \/ (g \in {"opacity"} /\ s3 # Pp!Loaded) THEN s5 \cup {g} ELSE s5 \ {g}
          /\ s3 = Pp!Loaded \/ g \in {"opacity"}
      BY <1>7 DEF Pp!Set, Pp!Offered
    <2>2. s2' \in Pp!Prefs /\ s2'[g] = ~s2[g] /\ \A f \in {"enabled", "opacity"} \ {g} : s2'[f] = s2[f]
      BY <1>0, <2>1 DEF Pp!Prefs
    <2>3. /\ s4'[t] = Pp!Save(g, ~s2[g]) /\ \A s \in Req \ {t} : s4'[s] = s4[s]
          /\ Pp!Save(g, ~s2[g]) \in [pc : {"asked"}, field : {"enabled", "opacity"}, to : BOOLEAN]
      BY <1>0, <2>1 DEF Pp!Save
    <2>4. Pp!TypeOK'
      BY <1>0, <2>1, <2>2, <2>3 DEF Pp!TypeOK
    <2>5. /\ \A f \in {"enabled", "opacity"} \ {g} : PpOf(f)' = PpOf(f) /\ \A s \in PpOf(f) : s4'[s] = s4[s]
          /\ PpOf(g) = {} => PpOf(g)' = {t}
      BY <2>1, <2>3, PpKinds DEF PpOf
    <2>6. ASSUME s3 = Pp!Loaded, NEW f \in {"enabled", "opacity"} \ s5' PROVE PpFollowed(f)'
      <3>1. CASE f = g
        <4>1. PpOf(g)' = {t} /\ s4'[t].to = s2'[g]
          BY <2>1, <2>2, <2>3, <2>5, <2>6, <3>1, PpInSaving, PpKinds
        <4> QED
          BY <3>1, <4>1 DEF PpFollowed
      <3>2. CASE f # g
        <4>1. PpFollowed(f)
          BY <2>1, <2>6, <3>2 DEF PpInv
        <4> QED
          BY <2>1, <2>2, <2>5, <3>2, <4>1 DEF PpFollowed
      <3> QED
        BY <3>1, <3>2
    <2>7. ASSUME s3.pc = "read", NEW f \in {"enabled", "opacity"} \ s5' PROVE PpUnmoved(f)'
      <3>1. f # g
        BY <2>1, <2>7, PpKinds
      <3>2. PpUnmoved(f)
        BY <2>1, <2>7, <3>1 DEF PpInv
      <3> QED
        BY <2>1, <2>5, <3>1, <3>2 DEF PpUnmoved
    <2> QED
      BY <2>1, <2>4, <2>6, <2>7 DEF PpInv
  <1>8. ASSUME NEW g \in {"enabled", "opacity"}, Pp!Slide(g) PROVE PpInv'
    <2>1. /\ s3 = Pp!Loaded /\ s2' = [s2 EXCEPT ![g] = ~s2[g]] /\ s5' = s5 \cup {g}
          /\ UNCHANGED <<s1, s3, s4>>
      BY <1>8 DEF Pp!Slide
    <2>2. s2' \in Pp!Prefs /\ \A f \in {"enabled", "opacity"} \ {g} : s2'[f] = s2[f]
      BY <1>0, <2>1 DEF Pp!Prefs
    <2>3. Pp!TypeOK'
      BY <1>0, <2>1, <2>2 DEF Pp!TypeOK
    <2> QED
      BY <2>1, <2>2, <2>3, PpKinds DEF PpInv, PpFollowed, PpOf
  <1>9. ASSUME NEW g \in {"enabled", "opacity"}, Pp!WriteElsewhere(g) PROVE PpInv'
    <2>1. /\ s1' = [s1 EXCEPT ![g] = ~s1[g]] /\ s5' = s5 \cup {g}
          /\ UNCHANGED <<s2, s3, s4>>
      BY <1>9 DEF Pp!WriteElsewhere
    <2>2. s1' \in Pp!Prefs /\ \A f \in {"enabled", "opacity"} \ {g} : s1'[f] = s1[f]
      BY <1>0, <2>1 DEF Pp!Prefs
    <2>3. Pp!TypeOK'
      BY <1>0, <2>1, <2>2 DEF Pp!TypeOK
    <2> QED
      BY <2>1, <2>2, <2>3 DEF PpInv, PpFollowed, PpUnmoved, PpOf
  <1> QED
    BY <1>1, <1>2, <1>3, <1>4, <1>5, <1>6, <1>7, <1>8, <1>9 DEF Pp!Next

LEMMA PpMeans == ASSUME PpInv PROVE Pp!PrefsTrue
  BY PpInSaving DEF PpInv, Pp!PrefsTrue, Pp!Quiet, PpFollowed

LEMMA PpStillInv == ASSUME PpInv, UNCHANGED Pp!vars PROVE PpInv'
  BY DEF PpInv, Pp!vars, Pp!TypeOK, PpFollowed, PpUnmoved, PpOf

-----------------------------------------------------------------------------
(* SearchBox: the search that may still answer is of the query typed.      *)

\* What the page waits for is what stands in the box, unless the pause runs; an aborted
\* search before its second try is remembered.
SbCurrent == \A s \in Task : ~s2 /\ Sb!Awaited(s) => s3[s].of = s1 \/ s6
SbLate == \A s \in Task : s3[s].pc = "refused" /\ s3[s].aborted => s6

\* The pause runs for something to search for.
SbPaused == s2 => s1 \in Spot

SbInv == Sb!TypeOK /\ SbPaused /\ SbCurrent /\ SbLate /\ Sb!RightResults /\ Sb!LoadingIsAwaited

LEMMA SbShapes ==
  /\ Sb!Idle \in Sb!Searches /\ Sb!Idle.pc = "idle"
  /\ \A x \in Sb!Searches : /\ x # Sb!Idle <=> x.pc \in {"asked", "refused"}
                            /\ x # Sb!Idle => x.of \in Spot /\ x.aborted \in BOOLEAN
  /\ \A x \in Sb!Searches \ {Sb!Idle} : LET y == [x EXCEPT !.aborted = TRUE]
       IN y \in Sb!Searches /\ y # Sb!Idle /\ y.aborted /\ y.pc = x.pc /\ y.of = x.of
  /\ \A x \in Sb!Searches \ {Sb!Idle} : LET y == [x EXCEPT !.pc = "refused"]
       IN y \in Sb!Searches /\ y # Sb!Idle /\ y.aborted = x.aborted /\ y.of = x.of /\ y.pc = "refused"
  <1>1. \A x \in Sb!Searches \ {Sb!Idle} : x \in [pc : {"asked", "refused"}, of : Spot, aborted : BOOLEAN]
    BY DEF Sb!Searches
  <1>2. Sb!Idle \in Sb!Searches /\ Sb!Idle.pc = "idle"
    BY DEF Sb!Idle, Sb!Searches
  <1>3. \A x \in [pc : {"asked", "refused"}, of : Spot, aborted : BOOLEAN] :
          x # Sb!Idle /\ x \in Sb!Searches
    BY DEF Sb!Idle, Sb!Searches
  <1>4. \A x \in Sb!Searches : /\ x # Sb!Idle <=> x.pc \in {"asked", "refused"}
                               /\ x # Sb!Idle => x.of \in Spot /\ x.aborted \in BOOLEAN
    BY <1>1, <1>2
  <1>5. ASSUME NEW x \in Sb!Searches \ {Sb!Idle}
        PROVE  LET y == [x EXCEPT !.aborted = TRUE]
               IN y \in Sb!Searches /\ y # Sb!Idle /\ y.aborted /\ y.pc = x.pc /\ y.of = x.of
    BY <1>1, <1>3
  <1>6. ASSUME NEW x \in Sb!Searches \ {Sb!Idle}
        PROVE  LET y == [x EXCEPT !.pc = "refused"]
               IN y \in Sb!Searches /\ y # Sb!Idle /\ y.aborted = x.aborted /\ y.of = x.of
                  /\ y.pc = "refused"
    BY <1>1, <1>3
  <1> QED
    BY <1>2, <1>4, <1>5, <1>6

LEMMA SbInitInv == ASSUME Sb!Init PROVE SbInv
  BY SbShapes DEF Sb!Init, SbInv, Sb!TypeOK, SbPaused, Sb!Looks, SbCurrent, SbLate,
     Sb!RightResults, Sb!LoadingIsAwaited,
                Sb!Awaited, Sb!InFlight

LEMMA SbNextInv == ASSUME SbInv, Sb!Next PROVE SbInv'
  <1> USE DEF SbInv
  <1> DEFINE Rest == Sb!TypeOK /\ SbCurrent /\ SbLate /\ Sb!RightResults /\ Sb!LoadingIsAwaited
  <1>0. /\ s3 \in [Task -> Sb!Searches] /\ s1 \in Spot \cup {Sb!Blank}
        /\ s5 \in [loading : BOOLEAN, error : BOOLEAN]
    BY DEF Sb!TypeOK
  <1>1. ASSUME NEW q \in Spot \cup {Sb!Blank}, Sb!Type(q)
        PROVE  Rest'
    <2>1. Sb!TypeOK'
      BY <1>1 DEF Sb!Type, Sb!TypeOK, Sb!Looks
    <2> QED
      BY <1>1, <2>1 DEF Sb!Type, Sb!Looks, SbCurrent, SbLate, Sb!RightResults,
         Sb!LoadingIsAwaited, Sb!Awaited, Sb!InFlight
  <1>2. ASSUME NEW s \in Task, Sb!Fire(s)
        PROVE  Rest'
    <2> DEFINE new == [pc |-> "asked", of |-> s1, aborted |-> FALSE]
    <2>1. /\ s1 \in Spot => new \in Sb!Searches
          /\ new # Sb!Idle /\ new.of = s1 /\ ~new.aborted /\ new.pc = "asked"
      BY DEF Sb!Idle, Sb!Searches
    <2> HIDE DEF new
    <2>2. /\ \A t \in Task \ {s} : s3'[t] = Sb!Aborted[t]
          /\ s3'[s] = new /\ s3' = [Sb!Aborted EXCEPT ![s] = new]
      BY <1>2 DEF Sb!Fire, Sb!Aborted, new
    <2>3. \A t \in Task : /\ Sb!Aborted[t] \in Sb!Searches
                          /\ Sb!Aborted[t] # Sb!Idle <=> s3[t] # Sb!Idle
                          /\ Sb!Aborted[t] # Sb!Idle => Sb!Aborted[t].aborted
                          /\ Sb!Aborted[t].pc = s3[t].pc
      BY <1>0, SbShapes DEF Sb!Aborted, Sb!InFlight
    <2>4. s1 \in Spot
      BY <1>2 DEF Sb!Fire, SbPaused
    <2>5. Sb!TypeOK'
      BY <1>2, <2>1, <2>2, <2>3, <2>4 DEF Sb!Fire, Sb!TypeOK, Sb!Aborted
    <2>6. Sb!Awaited(s)' /\ \A t \in Task \ {s} : ~Sb!Awaited(t)'
      BY <2>1, <2>2, <2>3 DEF Sb!Awaited, Sb!InFlight
    <2>7. SbLate'
      BY <1>2, <2>1, <2>2, <2>3 DEF SbLate, Sb!Fire
    <2> QED
      BY <1>2, <2>1, <2>2, <2>5, <2>6, <2>7 DEF Sb!Fire, SbCurrent, Sb!RightResults,
         Sb!LoadingIsAwaited
  <1>3. ASSUME NEW s \in Task, Sb!Refuse(s)
        PROVE  Rest'
    <2>1. s3[s] \in Sb!Searches \ {Sb!Idle}
      BY <1>0, <1>3, SbShapes DEF Sb!Refuse
    <2> DEFINE y == [s3[s] EXCEPT !.pc = "refused"]
    <2>2. /\ s3' = [s3 EXCEPT ![s] = y]
          /\ s3'[s] = y /\ \A t \in Task \ {s} : s3'[t] = s3[t]
      BY <1>0, <1>3 DEF Sb!Refuse
    <2>3. y \in Sb!Searches /\ y # Sb!Idle /\ y.aborted = s3[s].aborted /\ y.of = s3[s].of
      BY <2>1, SbShapes
    <2> HIDE DEF y
    <2>4. \A t \in Task : Sb!Awaited(t)' <=> Sb!Awaited(t)
      BY <2>1, <2>2, <2>3 DEF Sb!Awaited, Sb!InFlight
    <2>5. Sb!TypeOK'
      BY <1>3, <2>2, <2>3 DEF Sb!TypeOK, Sb!Refuse
    <2>6. SbLate' /\ SbCurrent'
      BY <1>3, <2>2, <2>3, <2>4 DEF SbLate, SbCurrent, Sb!Refuse
    <2> QED
      BY <1>3, <2>4, <2>5, <2>6 DEF Sb!Refuse, Sb!RightResults, Sb!LoadingIsAwaited
  <1>4. ASSUME NEW s \in Task, Sb!Answer(s) \/ Sb!Fail(s)
        PROVE  Rest'
    <2>1. /\ s3' = [s3 EXCEPT ![s] = Sb!Idle]
          /\ s3'[s] = Sb!Idle /\ \A t \in Task \ {s} : s3'[t] = s3[t]
          /\ UNCHANGED <<s1, s2, s6>> /\ Sb!InFlight(s)
      BY <1>0, <1>4 DEF Sb!Answer, Sb!Fail, Sb!End
    <2>2. s3[s].of \in Spot /\ s3[s] # Sb!Idle
      BY <1>0, <2>1, SbShapes DEF Sb!InFlight
    <2>3. Sb!TypeOK'
      <3>1. s3' \in [Task -> Sb!Searches]
        BY <1>0, <2>1, SbShapes
      <3>2. s5' \in [loading : BOOLEAN, error : BOOLEAN]
        <4>1. /\ [s5 EXCEPT !.loading = FALSE] \in [loading : BOOLEAN, error : BOOLEAN]
              /\ Sb!Failed \in [loading : BOOLEAN, error : BOOLEAN]
          BY <1>0 DEF Sb!Failed, Sb!Looks
        <4>2. s5' \in {s5, [s5 EXCEPT !.loading = FALSE], Sb!Failed}
          BY <1>4 DEF Sb!Answer, Sb!Fail
        <4> QED
          BY <1>0, <4>1, <4>2
      <3>3. s4' \in Spot \cup {Sb!Blank}
        BY <1>4, <2>2 DEF Sb!TypeOK, Sb!Answer, Sb!Fail
      <3> QED
        BY <2>1, <3>1, <3>2, <3>3 DEF Sb!TypeOK
    <2>4. SbLate' /\ SbCurrent'
      BY <2>1, SbShapes DEF SbLate, SbCurrent, Sb!Awaited, Sb!InFlight
    <2>5. \A t \in Task : Sb!Awaited(t)' <=> Sb!Awaited(t) /\ t # s
      BY <2>1 DEF Sb!Awaited, Sb!InFlight
    <2>6. Sb!RightResults'
      <3>1. CASE s3[s].aborted /\ Sb!Answer(s)
        BY <2>1, <2>2, <3>1 DEF SbLate, Sb!RightResults, Sb!Answer
      <3>2. CASE s3[s].aborted /\ Sb!Fail(s)
        BY <2>1, <2>5, <3>2 DEF Sb!RightResults, Sb!Fail, Sb!Awaited
      <3>3. CASE ~s3[s].aborted /\ Sb!Answer(s)
        BY <2>1, <2>5, <3>3 DEF Sb!RightResults, Sb!Answer, SbCurrent, Sb!Awaited
      <3>4. CASE ~s3[s].aborted /\ Sb!Fail(s)
        BY <3>4 DEF Sb!RightResults, Sb!Fail, Sb!Failed, Sb!Looks
      <3> QED
        BY <1>4, <3>1, <3>2, <3>3, <3>4
    <2>7. Sb!LoadingIsAwaited'
      BY <1>0, <1>4, <2>1, <2>5 DEF Sb!LoadingIsAwaited, Sb!Awaited, Sb!Answer, Sb!Fail,
         Sb!Failed, Sb!Looks
    <2> QED
      BY <2>3, <2>4, <2>6, <2>7
  <1>5. SbPaused'
    BY DEF Sb!Next, SbPaused, Sb!Type, Sb!Fire, Sb!Refuse, Sb!Answer, Sb!Fail
  <1> QED
    BY <1>1, <1>2, <1>3, <1>4, <1>5 DEF Sb!Next

LEMMA SbStillInv == ASSUME SbInv, UNCHANGED Sb!vars PROVE SbInv'
  BY DEF SbInv, Sb!vars, Sb!TypeOK, SbPaused, SbCurrent, SbLate, Sb!RightResults,
     Sb!LoadingIsAwaited,
         Sb!Awaited, Sb!InFlight

-----------------------------------------------------------------------------
(* PageData: the fetch that may still answer is of the subject shown.      *)

\* A fetch of another subject is one that the page went on from.
PdFollowed == \A f \in Task : Pd!InFlight(f) => s3[f].of = s1 \/ s4

PdInv == Pd!TypeOK /\ PdFollowed /\ Pd!RightSubject /\ Pd!LoadingIsAwaited

LEMMA PdShapes ==
  /\ Pd!Idle \in Pd!Fetches /\ Pd!Idle.by = "nobody"
  /\ \A by \in {"effect", "retry"}, s \in Spot :
       /\ Pd!Run(by, s) \in Pd!Fetches /\ Pd!Run(by, s) # Pd!Idle
       /\ Pd!Run(by, s).of = s /\ ~Pd!Run(by, s).aborted
  /\ \A x \in Pd!Fetches : x.by = "effect" => /\ [x EXCEPT !.aborted = TRUE] \in Pd!Fetches
                                              /\ [x EXCEPT !.aborted = TRUE] # Pd!Idle
                                              /\ [x EXCEPT !.aborted = TRUE].of = x.of
  BY DEF Pd!Idle, Pd!Run, Pd!Fetches

LEMMA PdInitInv == ASSUME Pd!Init PROVE PdInv
  <1>1. PICK f \in Task : s3 = [g \in Task |-> IF g = f THEN Pd!Run("effect", s1) ELSE Pd!Idle]
    BY DEF Pd!Init
  <1>2. s3[f] = Pd!Run("effect", s1) /\ \A g \in Task : Pd!InFlight(g) => g = f
    BY <1>1 DEF Pd!InFlight
  <1>3. Pd!TypeOK
    BY <1>1, PdShapes DEF Pd!Init, Pd!TypeOK, Pd!Loading, Pd!Nothing
  <1>4. Pd!Awaited(f)
    BY <1>2, PdShapes DEF Pd!Init, Pd!Awaited, Pd!InFlight
  <1> QED
    BY <1>2, <1>3, <1>4, PdShapes DEF Pd!Init, PdInv, PdFollowed, Pd!RightSubject,
       Pd!LoadingIsAwaited, Pd!Loading

LEMMA PdNextInv == ASSUME PdInv, Pd!Next PROVE PdInv'
  <1> USE DEF PdInv
  <1>0. s3 \in [Task -> Pd!Fetches] /\ s1 \in Spot
    BY DEF Pd!TypeOK
  <1>1. ASSUME NEW f \in Task, NEW s \in Spot, Pd!Change(f, s)
        PROVE  PdInv'
    <2>1. /\ \A g \in Task \ {f} : s3'[g] = Pd!Aborted[g]
          /\ s3'[f] = Pd!Run("effect", s)
      BY <1>1 DEF Pd!Change, Pd!Aborted
    <2>2. \A g \in Task : /\ Pd!Aborted[g] \in Pd!Fetches
                          /\ Pd!Aborted[g] # Pd!Idle <=> s3[g] # Pd!Idle
                          /\ Pd!Aborted[g].of = s3[g].of
      BY <1>0, PdShapes DEF Pd!Aborted
    <2>3. s3' \in [Task -> Pd!Fetches]
      <3>1. Pd!Aborted \in [Task -> Pd!Fetches]
        BY <2>2 DEF Pd!Aborted
      <3>2. s3' = [Pd!Aborted EXCEPT ![f] = Pd!Run("effect", s)]
        BY <1>1 DEF Pd!Change
      <3> QED
        BY <3>1, <3>2, PdShapes
    <2>4. Pd!TypeOK'
      BY <1>1, <2>3 DEF Pd!TypeOK, Pd!Change, Pd!Started, Pd!Loading, Pd!Nothing
    <2>5. Pd!Awaited(f)' /\ Pd!LoadingIsAwaited' /\ Pd!RightSubject'
      BY <1>1, <2>1, PdShapes
         DEF Pd!Awaited, Pd!InFlight, Pd!LoadingIsAwaited, Pd!RightSubject, Pd!Change, Pd!Started, Pd!Loading
    <2>6. PdFollowed'
      <3>1. s3'[f].of = s1'
        BY <1>1, <2>1, PdShapes DEF Pd!Change
      <3>2. \A g \in Task \ {f} : Pd!InFlight(g)' => Pd!InFlight(g) /\ s3'[g].of = s3[g].of
        BY <2>1, <2>2 DEF Pd!InFlight
      <3> QED
        BY <1>1, <3>1, <3>2 DEF Pd!Change, PdFollowed
    <2> QED
      BY <2>4, <2>5, <2>6
  <1>2. ASSUME NEW f \in Task, Pd!Retry(f)
        PROVE  PdInv'
    <2>1. /\ \A g \in Task \ {f} : s3'[g] = s3[g]
          /\ s3'[f] = Pd!Run("retry", s1)
      BY <1>0, <1>2 DEF Pd!Retry
    <2>2. Pd!TypeOK'
      BY <1>2, PdShapes DEF Pd!TypeOK, Pd!Retry, Pd!Started, Pd!Loading, Pd!Nothing
    <2>3. Pd!Awaited(f)'
      BY <1>0, <2>1, PdShapes DEF Pd!Awaited, Pd!InFlight
    <2>4. PdFollowed'
      BY <1>0, <1>2, <2>1, PdShapes DEF Pd!Retry, PdFollowed, Pd!InFlight
    <2> QED
      BY <1>2, <2>2, <2>3, <2>4 DEF Pd!Retry, Pd!LoadingIsAwaited, Pd!RightSubject,
         Pd!Started, Pd!Loading
  <1>3. ASSUME NEW f \in Task, Pd!Answer(f) \/ Pd!Fail(f)
        PROVE  PdInv'
    <2>1. /\ \A g \in Task \ {f} : s3'[g] = s3[g]
          /\ s3'[f] = Pd!Idle /\ s3' = [s3 EXCEPT ![f] = Pd!Idle]
          /\ Pd!InFlight(f) /\ UNCHANGED <<s1, s4>>
      BY <1>0, <1>3 DEF Pd!Answer, Pd!Fail
    <2>2. s3[f].of \in Spot
      BY <1>0, <2>1 DEF Pd!InFlight, Pd!Fetches
    <2>3. Pd!TypeOK'
      BY <1>3, <2>1, <2>2, PdShapes DEF Pd!TypeOK, Pd!Answer, Pd!Fail, Pd!Failed, Pd!Nothing
    <2>4. PdFollowed'
      BY <2>1 DEF PdFollowed, Pd!InFlight
    <2>5. Pd!RightSubject'
      BY <1>3, <2>1 DEF Pd!RightSubject, PdFollowed, Pd!Answer, Pd!Fail, Pd!Failed
    <2>6. Pd!LoadingIsAwaited'
      BY <1>3, <2>1 DEF Pd!LoadingIsAwaited, Pd!Awaited, Pd!InFlight, Pd!Answer, Pd!Fail,
         Pd!Failed
    <2> QED
      BY <2>3, <2>4, <2>5, <2>6
  <1> QED
    BY <1>1, <1>2, <1>3 DEF Pd!Next

LEMMA PdStillInv == ASSUME PdInv, UNCHANGED Pd!vars PROVE PdInv'
  BY DEF PdInv, Pd!vars, Pd!TypeOK, PdFollowed, Pd!RightSubject, Pd!LoadingIsAwaited,
     Pd!InFlight, Pd!Awaited

=============================================================================
