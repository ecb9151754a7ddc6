--------------------------- MODULE CommandLineProofs ---------------------------
(***************************************************************************)
(* What is registered for the event processor is what it gets on its       *)
(* command line, for a buffer of any length and values of any content: the *)
(* walk over the registered arguments stays inside the data and the second *)
(* one inside the array that the first one made room in (ListInv, RoomInv),*)
(* the strings it finds are the ones of the list (ChainInv), and the       *)
(* command line has room for all of them (LineInv).                        *)
(***************************************************************************)
EXTENDS CommandLine, FiniteSetTheorems, SequenceTheorems, WellFoundedInduction,
        TLAPS

USE BufferAssumption, DataAssumption

(* A list that ends with two nulls has, behind a string that is not empty,  *)
(* at least one more character.                                             *)
LEMMA PastStringInside ==
  ASSUME ListInv, pc \in {"count", "store"}, AtString, PastString
  PROVE  pwsz' \in 1 .. cch /\ cchMax' = cch - pwsz' + 1
<1> USE DEF ListInv, WalkStaysInside
<1>1. PICK n \in StringCchLength(pwsz, cchMax) :
        pwsz' = pwsz + n + 1 /\ cchMax' = cchMax - (n + 1)
  BY DEF PastString
<1>2. /\ n \in 0 .. cchMax - 1
      /\ m_bufArgData(pwsz + n) = NUL
      /\ \A k \in 0 .. n - 1 : m_bufArgData(pwsz + k) # NUL
  BY DEF StringCchLength
<1>3. n # 0
  BY <1>2 DEF AtString
<1>4. pwsz + n # cch
  <2> SUFFICES ASSUME pwsz + n = cch PROVE FALSE
    OBVIOUS
  <2>1. m_bufArgData(pwsz + (n - 1)) # NUL
    BY <1>2, <1>3
  <2>2. cch > 1 /\ pwsz + (n - 1) = cch - 1
    BY <1>2, <1>3
  <2> QED
    BY <2>1, <2>2 DEF m_bufArgData
<1>5. pwsz + n + 1 \in 1 .. cch
  BY <1>2, <1>4
<1>6. /\ pwsz \in Int /\ n \in Int /\ cch \in Int
      /\ cchMax = cch - pwsz + 1
  BY <1>2
<1> QED
  BY <1>1, <1>5, <1>6

(* Nothing has been read.                                                   *)
LEMMA InitListInv == Init => ListInv
  BY DEF Init, ListStart, ListInv, WalkStaysInside

(* The query lets in only what ends as a list.                              *)
LEMMA QueryKeeps == ListInv /\ QueryArguments => ListInv'
<1> SUFFICES ASSUME ListInv, QueryArguments PROVE ListInv'
  OBVIOUS
<1>1. CASE pc' = "count"
  <2>1. /\ QueryMultiStringValue(data)
        /\ data' = data /\ cch' = Len(data) /\ cchMax' = Len(data) /\ pwsz' = 1
    BY <1>1 DEF QueryArguments, ListInv
  <2> QED
    BY <1>1, <2>1 DEF QueryMultiStringValue, ListInv, WalkStaysInside
<1>2. CASE pc' = "build"
  BY <1>2 DEF QueryArguments, ListInv, WalkStaysInside
<1> QED
  BY <1>1, <1>2 DEF QueryArguments

(* Either way out of the loop leaves the data alone.                        *)
LEMMA CountKeeps == ListInv /\ CountArgument => ListInv'
<1> SUFFICES ASSUME ListInv, CountArgument PROVE ListInv'
  OBVIOUS
<1> USE DEF CountArgument
<1>1. CASE pc' = "count"
  <2>1. pwsz' \in 1 .. cch /\ cchMax' = cch - pwsz' + 1
    BY <1>1, PastStringInside
  <2> QED
    BY <1>1, <2>1 DEF ListInv, WalkStaysInside
<1>2. CASE pc' = "alloc"
  BY <1>2 DEF ListInv, WalkStaysInside
<1> QED
  BY <1>1, <1>2

(* The second walk starts where the first one did.                          *)
LEMMA AllocKeeps == ListInv /\ AllocArguments => ListInv'
  BY DEF AllocArguments, ListInv, WalkStaysInside

(* The second walk is as the first one.                                     *)
LEMMA StoreKeeps == ListInv /\ StoreArgument => ListInv'
<1> SUFFICES ASSUME ListInv, StoreArgument PROVE ListInv'
  OBVIOUS
<1> USE DEF StoreArgument
<1>1. CASE pc' = "store"
  <2>1. pwsz' \in 1 .. cch /\ cchMax' = cch - pwsz' + 1
    BY <1>1, PastStringInside
  <2> QED
    BY <1>1, <2>1 DEF ListInv, WalkStaysInside
<1>2. CASE pc' # "store"
  <2>1. pc' \in {"build", "failed"}
    BY <1>2
  <2> QED
    BY <2>1 DEF ListInv, WalkStaysInside
<1> QED
  BY <1>1, <1>2

(* Behind the walk nothing touches it.                                      *)
LEMMA FormatKeeps ==
  ListInv /\ (BuildArguments \/ FormatApplication \/ FormatArgument) => ListInv'
<1> SUFFICES ASSUME ListInv,
                    BuildArguments \/ FormatApplication \/ FormatArgument
             PROVE  ListInv'
  OBVIOUS
<1>1. /\ UNCHANGED <<data, cch, pwsz, cchMax>>
      /\ pc' \in {"application", "arguments", "launched", "failed"}
  BY DEF BuildArguments, FormatApplication, FormatArgument
<1> QED
  BY <1>1 DEF ListInv, WalkStaysInside

LEMMA ListInvKept == ListInv /\ [Next]_vars => ListInv'
<1> SUFFICES ASSUME ListInv, [Next]_vars PROVE ListInv'
  OBVIOUS
<1>1. CASE ListNext
  BY <1>1, QueryKeeps, CountKeeps, AllocKeeps, StoreKeeps DEF ListNext
<1>2. CASE BuildArguments \/ FormatApplication \/ FormatArgument
  BY <1>2, FormatKeeps
<1>3. CASE UNCHANGED vars
  BY <1>3 DEF vars, listVars, ListInv, WalkStaysInside
<1> QED
  BY <1>1, <1>2, <1>3 DEF Next

(* Whatever is in the registry, the walk reads what came from there and     *)
(* nothing behind it.                                                       *)
THEOREM WalkInside == Spec => []WalkStaysInside
<1>1. ListInv => WalkStaysInside
  BY DEF ListInv
<1> QED
  BY InitListInv, ListInvKept, <1>1, PTL DEF Spec

-----------------------------------------------------------------------------
(* How many strings there are                                               *)

LEMMA StartsFinite ==
  ASSUME NEW p \in Nat
  PROVE  IsFiniteSet(Starts(p)) /\ Cardinality(Starts(p)) \in Nat
<1>1. IsFiniteSet(1 .. p - 1)
  BY FS_Interval
<1>2. Starts(p) \subseteq 1 .. p - 1
  BY DEF Starts
<1> QED
  BY <1>1, <1>2, FS_Subset, FS_CardinalityType

(* A string that begins at p, with n characters, is one more.               *)
LEMMA StartsPast ==
  ASSUME NEW p \in Nat \ {0}, NEW n \in Nat \ {0}, NotOver(p),
         m_bufArgData(p + n) = NUL,
         \A k \in 0 .. n - 1 : m_bufArgData(p + k) # NUL
  PROVE  /\ NotOver(p + n + 1)
         /\ Cardinality(Starts(p + n + 1)) = Cardinality(Starts(p)) + 1
<1> DEFINE D(i) == m_bufArgData(i)
<1>0. \A i \in p .. p + n - 1 : D(i) # NUL
  <2> SUFFICES ASSUME NEW i \in p .. p + n - 1 PROVE D(i) # NUL
    OBVIOUS
  <2>1. i - p \in 0 .. n - 1 /\ p + (i - p) = i
    OBVIOUS
  <2> QED
    BY <2>1
<1>1. D(p + n) = NUL /\ AtStart(p) /\ \A i \in 1 .. p - 1 : ~ EmptyAt(i)
  BY DEF NotOver
<1>2. \A i \in p + 1 .. p + n : ~ AtStart(i)
  <2> SUFFICES ASSUME NEW i \in p + 1 .. p + n PROVE ~ AtStart(i)
    OBVIOUS
  <2>1. i - 1 \in p .. p + n - 1 /\ i # 1
    OBVIOUS
  <2> QED
    BY <1>0, <2>1 DEF AtStart
<1>3. NotOver(p + n + 1)
  <2>1. AtStart(p + n + 1)
    <3>1. (p + n + 1) - 1 = p + n
      OBVIOUS
    <3> QED
      BY <1>1, <3>1 DEF AtStart
  <2>2. ASSUME NEW i \in 1 .. (p + n + 1) - 1
        PROVE  ~ EmptyAt(i)
    <3>1. i \in 1 .. p - 1 \/ i = p \/ i \in p + 1 .. p + n
      OBVIOUS
    <3> QED
      BY <1>0, <1>1, <1>2, <3>1 DEF EmptyAt
  <2> QED
    BY <2>1, <2>2 DEF NotOver
<1>4. Starts(p + n + 1) = Starts(p) \cup {p}
  <2>1. \A i : i \in 1 .. (p + n + 1) - 1 <=>
               i \in 1 .. p - 1 \/ i = p \/ i \in p + 1 .. p + n
    OBVIOUS
  <2> QED
    BY <1>0, <1>1, <1>2, <2>1 DEF Starts
<1>5. p \notin Starts(p)
  BY DEF Starts
<1> QED
  BY <1>3, <1>4, <1>5, StartsFinite, FS_AddElement

(* Where the string that PastString goes past begins and ends.              *)
LEMMA PastStringStarts ==
  ASSUME ListInv, pc \in {"count", "store"}, AtString, PastString, NotOver(pwsz)
  PROVE  /\ pwsz' \in Nat \ {0}
         /\ NotOver(pwsz')
         /\ Cardinality(Starts(pwsz')) = Cardinality(Starts(pwsz)) + 1
<1>1. PICK n \in StringCchLength(pwsz, cchMax) : pwsz' = pwsz + n + 1
  BY DEF PastString
<1>2. /\ pwsz \in 1 .. cch /\ cch \in Nat /\ cchMax = cch - pwsz + 1
  BY DEF ListInv, WalkStaysInside
<1>3. /\ n \in 0 .. cchMax - 1
      /\ m_bufArgData(pwsz + n) = NUL
      /\ \A k \in 0 .. n - 1 : m_bufArgData(pwsz + k) # NUL
  BY DEF StringCchLength
<1>4. n # 0
  BY <1>2, <1>3 DEF AtString
<1>5. pwsz \in Nat \ {0} /\ n \in Nat \ {0}
  BY <1>2, <1>3, <1>4
<1>6. /\ NotOver(pwsz + n + 1)
      /\ Cardinality(Starts(pwsz + n + 1)) = Cardinality(Starts(pwsz)) + 1
  BY <1>3, <1>5, StartsPast
<1>7. NotOver(pwsz') /\ Starts(pwsz') = Starts(pwsz + n + 1)
  BY <1>1, <1>6 DEF NotOver, Starts
<1>8. pwsz' \in Nat \ {0}
  BY <1>1, <1>5
<1> QED
  BY <1>6, <1>7, <1>8

(* Every string of a list ends: there is a null behind it, and a first one. *)
LEMMA StringEnds ==
  ASSUME ListInv, pc \in {"count", "store"}
  PROVE  StringCchLength(pwsz, cchMax) # {}
<1> DEFINE S == {n \in 0 .. cchMax - 1 : m_bufArgData(pwsz + n) = NUL}
           R == OpToRel(<, Nat)
<1>1. /\ pwsz \in 1 .. cch /\ cch \in Nat /\ cchMax = cch - pwsz + 1
      /\ data[cch] = NUL
  BY DEF ListInv, WalkStaysInside
<1>2. cch - pwsz \in S
  <2>1. cch - pwsz \in 0 .. cchMax - 1 /\ pwsz + (cch - pwsz) = cch
    BY <1>1
  <2> QED
    BY <1>1, <2>1 DEF m_bufArgData
<1>3. S \subseteq Nat
  BY <1>1
<1>4. \A a, b \in Nat : a < b => <<a, b>> \in R
  BY DEF OpToRel
<1>5. IsWellFoundedOn(R, Nat)
  BY NatLessThanWellFounded, Zenon
<1> HIDE DEF R, S
<1>6. PICK n \in S : \A k \in S : ~ (<<k, n>> \in R)
  BY <1>2, <1>3, <1>5, WFMin
<1>7. \A k \in S : ~ (k < n)
  BY <1>3, <1>4, <1>6
<1>8. \A k \in 0 .. n - 1 : k \notin S /\ k \in 0 .. cchMax - 1
  BY <1>1, <1>3, <1>7 DEF S
<1> QED
  BY <1>8 DEF S, StringCchLength

(* Of two places that the walk can be at, the first end is not behind one.  *)
LEMMA EndAhead ==
  ASSUME NEW p \in Nat \ {0}, NEW e \in Nat \ {0}, NotOver(p), NotOver(e),
         EmptyAt(e)
  PROVE  /\ p <= e
         /\ EmptyAt(p) => p = e
<1>1. p <= e
  <2>1. e \notin 1 .. p - 1
    BY DEF NotOver
  <2> QED
    BY <2>1
<1>2. EmptyAt(p) => p = e
  <2>1. EmptyAt(p) => p \notin 1 .. e - 1
    BY DEF NotOver
  <2> QED
    BY <1>1, <2>1
<1> QED
  BY <1>1, <1>2

(* A string at p is counted where the walk ends.                            *)
LEMMA StartsAhead ==
  ASSUME NEW p \in Nat \ {0}, NEW e \in Nat \ {0}, NotOver(p), NotOver(e),
         EmptyAt(e), m_bufArgData(p) # NUL
  PROVE  Cardinality(Starts(p)) + 1 <= Cardinality(Starts(e))
<1>1. p < e
  <2>1. p # e
    BY DEF EmptyAt
  <2> QED
    BY <2>1, EndAhead
<1>2. Starts(p) \cup {p} \subseteq Starts(e)
  BY <1>1 DEF Starts, NotOver
<1>3. p \notin Starts(p)
  BY DEF Starts
<1>4. IsFiniteSet(Starts(p)) /\ IsFiniteSet(Starts(e))
  BY StartsFinite
<1>5. Cardinality(Starts(p) \cup {p}) = Cardinality(Starts(p)) + 1
  BY <1>3, <1>4, FS_AddElement
<1> QED
  BY <1>2, <1>4, <1>5, FS_Subset

-----------------------------------------------------------------------------
(* The room for each                                                        *)

LEMMA RoomFrame ==
  ASSUME UNCHANGED <<data, cch>>
  PROVE  \A p : /\ Starts(p)' = Starts(p)
                /\ NotOver(p)' = NotOver(p)
                /\ EmptyAt(p)' = EmptyAt(p)
<1>1. \A p : m_bufArgData(p)' = m_bufArgData(p)
  BY DEF m_bufArgData
<1>2. \A p : AtStart(p)' = AtStart(p)
  BY <1>1 DEF AtStart
<1>3. \A p : EmptyAt(p)' = EmptyAt(p)
  BY <1>1, <1>2 DEF EmptyAt
<1> QED
  BY <1>1, <1>2, <1>3 DEF Starts, NotOver

LEMMA QueryRoom == ListInv /\ RoomInv /\ QueryArguments => RoomInv'
<1> SUFFICES ASSUME ListInv, RoomInv, QueryArguments PROVE RoomInv'
  OBVIOUS
<1>1. /\ pc = "query" /\ pwsz = 1
      /\ UNCHANGED <<nIndex, cArgs, m_bufArguments, pwsz>>
      /\ nIndex = 1 /\ cArgs = 0 /\ m_bufArguments = <<>>
      /\ pc' \in {"count", "build"}
  BY DEF QueryArguments, ListInv, RoomInv
<1>2. NotOver(pwsz)' /\ Starts(pwsz)' = {}
  BY <1>1 DEF NotOver, AtStart, Starts
<1>3. Cardinality(Starts(pwsz)') = 0
  BY <1>2, FS_EmptySet
<1> QED
  BY <1>1, <1>2, <1>3 DEF RoomInv

LEMMA CountRoom == ListInv /\ RoomInv /\ CountArgument => RoomInv'
<1> SUFFICES ASSUME ListInv, RoomInv, CountArgument PROVE RoomInv'
  OBVIOUS
<1>1. /\ pc = "count" /\ UNCHANGED <<data, cch, m_bufArguments, nIndex>>
      /\ nIndex = 1 /\ m_bufArguments = <<>>
      /\ NotOver(pwsz) /\ cArgs = Cardinality(Starts(pwsz))
      /\ pwsz \in 1 .. cch /\ cch \in Nat
  BY DEF CountArgument, ListInv, RoomInv, WalkStaysInside
<1>2. CASE AtString /\ PastString /\ cArgs' = cArgs + 1 /\ pc' = pc
  <2>1. NotOver(pwsz') /\ Cardinality(Starts(pwsz')) = cArgs + 1
    BY <1>1, <1>2, PastStringStarts
  <2>2. NotOver(pwsz)' /\ cArgs' = Cardinality(Starts(pwsz))'
    BY <1>1, <1>2, <2>1, RoomFrame
  <2> QED
    BY <1>1, <1>2, <2>2 DEF RoomInv
<1>3. CASE AtString /\ NoEnd
  BY <1>1, <1>3, StringEnds DEF NoEnd
<1>4. CASE ~ AtString /\ pc' = "alloc" /\ UNCHANGED <<hr, cArgs, pwsz, cchMax>>
  <2>1. EmptyAt(pwsz)
    BY <1>1, <1>4 DEF AtString, EmptyAt, NotOver
  <2>2. \E e \in 1 .. cch : EmptyAt(e) /\ NotOver(e) /\ cArgs = Cardinality(Starts(e))
    BY <1>1, <2>1
  <2>3. \E e \in 1 .. cch' :
          EmptyAt(e)' /\ NotOver(e)' /\ cArgs' = Cardinality(Starts(e)')
    BY <1>1, <1>4, <2>2, RoomFrame
  <2> QED
    BY <1>1, <1>4, <2>3 DEF RoomInv
<1> QED
  BY <1>2, <1>3, <1>4 DEF CountArgument

LEMMA AllocRoom == ListInv /\ RoomInv /\ AllocArguments => RoomInv'
<1> SUFFICES ASSUME ListInv, RoomInv, AllocArguments PROVE RoomInv'
  OBVIOUS
<1>1. /\ pc = "alloc" /\ pc' = "store" /\ pwsz' = 1 /\ nIndex' = 1
      /\ UNCHANGED <<data, cch, cArgs>>
      /\ m_bufArguments' = [i \in 1 .. cArgs |-> 0]
  BY DEF AllocArguments, RoomInv
<1>2. PICK e \in 1 .. cch : EmptyAt(e) /\ NotOver(e) /\ cArgs = Cardinality(Starts(e))
  BY <1>1 DEF RoomInv
<1>3. EmptyAt(e)' /\ NotOver(e)' /\ cArgs' = Cardinality(Starts(e)')
  BY <1>1, <1>2, RoomFrame
<1>4. NotOver(pwsz)' /\ Starts(pwsz)' = {}
  BY <1>1 DEF NotOver, AtStart, Starts
<1>5. Cardinality(Starts(pwsz)') = 0
  BY <1>4, FS_EmptySet
<1> QED
  BY <1>1, <1>3, <1>4, <1>5 DEF RoomInv

(* The second walk finds room for the string it is at.                      *)
LEMMA RoomHere ==
  ASSUME ListInv, RoomInv, pc = "store"
  PROVE  /\ AtString => nIndex \in 1 .. cArgs
         /\ ~ AtString => nIndex = cArgs + 1
         /\ nIndex \in Nat \ {0} /\ cArgs \in Nat
<1>1. PICK e \in 1 .. cch : EmptyAt(e) /\ NotOver(e) /\ cArgs = Cardinality(Starts(e))
  BY DEF RoomInv
<1>2. /\ pwsz \in 1 .. cch /\ cch \in Nat /\ NotOver(pwsz)
      /\ nIndex = Cardinality(Starts(pwsz)) + 1
  BY DEF ListInv, RoomInv, WalkStaysInside
<1>3. pwsz \in Nat \ {0} /\ e \in Nat \ {0}
  BY <1>2
<1>4. Cardinality(Starts(pwsz)) \in Nat /\ cArgs \in Nat
  BY <1>1, <1>3, StartsFinite
<1>5. AtString => nIndex \in 1 .. cArgs
  BY <1>1, <1>2, <1>3, <1>4, StartsAhead DEF AtString
<1>6. ~ AtString => nIndex = cArgs + 1
  <2>1. ~ AtString => EmptyAt(pwsz)
    BY <1>2 DEF AtString, EmptyAt, NotOver
  <2> QED
    BY <1>1, <1>2, <1>3, <2>1, EndAhead
<1> QED
  BY <1>2, <1>4, <1>5, <1>6

LEMMA StoreRoom == ListInv /\ RoomInv /\ StoreArgument => RoomInv'
<1> SUFFICES ASSUME ListInv, RoomInv, StoreArgument PROVE RoomInv'
  OBVIOUS
<1>1. /\ pc = "store" /\ UNCHANGED <<data, cch, cArgs>>
      /\ DOMAIN m_bufArguments = 1 .. cArgs
      /\ NotOver(pwsz) /\ nIndex = Cardinality(Starts(pwsz)) + 1
      /\ \A i \in 1 .. nIndex - 1 : m_bufArguments[i] # 0
      /\ pwsz \in 1 .. cch /\ cch \in Nat
  BY DEF StoreArgument, ListInv, RoomInv, WalkStaysInside
<1>2. CASE /\ AtString /\ PastString
           /\ m_bufArguments' = [m_bufArguments EXCEPT ![nIndex] = pwsz]
           /\ nIndex' = nIndex + 1
           /\ pc' = pc
  <2>1. nIndex \in 1 .. cArgs /\ cArgs \in Nat
    BY <1>1, <1>2, RoomHere
  <2>2. NotOver(pwsz') /\ Cardinality(Starts(pwsz')) = Cardinality(Starts(pwsz)) + 1
    BY <1>1, <1>2, PastStringStarts
  <2>3. NotOver(pwsz)' /\ nIndex' = Cardinality(Starts(pwsz))' + 1
    BY <1>1, <1>2, <2>2, RoomFrame
  <2>4. /\ DOMAIN m_bufArguments' = 1 .. cArgs'
        /\ \A i \in 1 .. nIndex' - 1 : m_bufArguments'[i] # 0
    <3>1. \A i \in 1 .. nIndex' - 1 : i \in 1 .. nIndex - 1 \/ i = nIndex
      BY <1>2, <2>1
    <3>2. pwsz # 0 /\ 1 .. nIndex - 1 \subseteq 1 .. cArgs
      BY <1>1, <2>1
    <3> QED
      BY <1>1, <1>2, <2>1, <3>1, <3>2
  <2>5. PICK e \in 1 .. cch : EmptyAt(e) /\ NotOver(e) /\ cArgs = Cardinality(Starts(e))
    BY <1>1 DEF RoomInv
  <2>6. e \in 1 .. cch' /\ EmptyAt(e)' /\ NotOver(e)' /\ cArgs' = Cardinality(Starts(e)')
    BY <1>1, <2>5, RoomFrame
  <2> QED
    BY <1>1, <1>2, <2>3, <2>4, <2>6 DEF RoomInv
<1>3. CASE /\ AtString /\ NoEnd /\ pc' = "failed"
           /\ UNCHANGED <<m_bufArguments, nIndex>>
  BY <1>3 DEF RoomInv
<1>4. CASE /\ ~ AtString
           /\ pc' = IF hr = "S_OK" THEN "build" ELSE "failed"
           /\ UNCHANGED <<hr, m_bufArguments, nIndex, pwsz, cchMax>>
  <2>1. nIndex = cArgs + 1 /\ cArgs \in Nat
    BY <1>1, <1>4, RoomHere
  <2>2. \A i \in DOMAIN m_bufArguments' : m_bufArguments'[i] # 0
    BY <1>1, <1>4, <2>1
  <2>3. pc' \in {"build", "failed"}
    BY <1>4
  <2> QED
    BY <2>2, <2>3 DEF RoomInv
<1> QED
  BY <1>2, <1>3, <1>4 DEF StoreArgument

-----------------------------------------------------------------------------
(* The pointers are a chain                                                 *)

LEMMA QueryChain == ListInv /\ RoomInv /\ QueryArguments => ChainInv'
<1> SUFFICES ASSUME ListInv, RoomInv, QueryArguments PROVE ChainInv'
  OBVIOUS
<1>1. /\ pwsz' = 1 /\ nIndex' = 1 /\ m_bufArguments' = <<>>
  BY DEF QueryArguments, ListInv, RoomInv
<1> QED
  BY <1>1 DEF ChainInv, Place

LEMMA CountChain == CountArgument => ChainInv'
BY DEF CountArgument, ChainInv

LEMMA AllocChain == RoomInv /\ AllocArguments => ChainInv'
<1> SUFFICES ASSUME RoomInv, AllocArguments PROVE ChainInv'
  OBVIOUS
<1>1. pc' = "store" /\ pwsz' = 1 /\ nIndex' = 1
  BY DEF AllocArguments, RoomInv
<1> QED
  BY <1>1 DEF ChainInv, Place

(* The string that was gone past is stored with its beginning.              *)
LEMMA StoreChain == ListInv /\ RoomInv /\ ChainInv /\ StoreArgument => ChainInv'
<1> SUFFICES ASSUME ListInv, RoomInv, ChainInv, StoreArgument PROVE ChainInv'
  OBVIOUS
<1>1. /\ pc = "store" /\ UNCHANGED <<data, cch, cArgs>>
      /\ DOMAIN m_bufArguments = 1 .. cArgs
      /\ pwsz \in 1 .. cch /\ cch \in Nat /\ cchMax = cch - pwsz + 1
      /\ nIndex \in Nat \ {0} /\ Place(1) = 1
      /\ \A k \in 1 .. nIndex - 1 :
           Place(k) \in 1 .. pwsz /\ StringBetween(Place(k), Place(k + 1))
  BY DEF StoreArgument, ListInv, RoomInv, WalkStaysInside, ChainInv
<1>2. \A i : m_bufArgData(i)' = m_bufArgData(i)
  BY <1>1 DEF m_bufArgData
<1>3. \A p, q : StringBetween(p, q) =>
        /\ q >= p + 2
        /\ m_bufArgData(q - 1)' = NUL
        /\ \A i \in p .. q - 2 : m_bufArgData(i)' # NUL
  BY <1>2 DEF StringBetween
<1>4. CASE /\ AtString /\ PastString
           /\ m_bufArguments' = [m_bufArguments EXCEPT ![nIndex] = pwsz]
           /\ nIndex' = nIndex + 1
           /\ pc' = pc
  <2>1. PICK n \in StringCchLength(pwsz, cchMax) : pwsz' = pwsz + n + 1
    BY <1>4 DEF PastString
  <2>2. /\ n \in 0 .. cchMax - 1
        /\ m_bufArgData(pwsz + n) = NUL
        /\ \A k \in 0 .. n - 1 : m_bufArgData(pwsz + k) # NUL
    BY <2>1 DEF StringCchLength
  <2>3. n \in Nat \ {0}
    BY <1>1, <1>4, <2>2 DEF AtString
  <2>4. \A i \in pwsz .. pwsz + n - 1 : m_bufArgData(i) # NUL
    <3> SUFFICES ASSUME NEW i \in pwsz .. pwsz + n - 1
                 PROVE  m_bufArgData(i) # NUL
      OBVIOUS
    <3>1. i - pwsz \in 0 .. n - 1 /\ pwsz + (i - pwsz) = i
      BY <1>1, <2>3
    <3> QED
      BY <2>2, <3>1
  <2>5. nIndex \in 1 .. cArgs
    BY <1>1, <1>4, RoomHere
  <2>6. /\ \A k \in 1 .. nIndex : Place(k)' = Place(k)
        /\ Place(nIndex) = pwsz
        /\ \A k : k = nIndex + 1 => Place(k)' = pwsz + n + 1
    BY <1>1, <1>4, <2>1, <2>5 DEF Place
  <2>7. ASSUME NEW k \in 1 .. nIndex' - 1
        PROVE  Place(k)' \in 1 .. pwsz' /\ StringBetween(Place(k), Place(k + 1))'
    <3>1. CASE k = nIndex
      <4>1. Place(k)' = pwsz /\ Place(k + 1)' = pwsz + n + 1
        BY <1>1, <2>6, <3>1
      <4>2. /\ pwsz + n + 1 >= pwsz + 2
            /\ (pwsz + n + 1) - 1 = pwsz + n /\ (pwsz + n + 1) - 2 = pwsz + n - 1
            /\ pwsz \in 1 .. pwsz'
        BY <1>1, <2>1, <2>3
      <4> QED
        BY <1>2, <2>2, <2>4, <4>1, <4>2 DEF StringBetween
    <3>2. CASE k \in 1 .. nIndex - 1
      <4>1. k \in 1 .. nIndex /\ k + 1 \in 1 .. nIndex
        BY <1>1, <3>2
      <4>2. Place(k)' = Place(k) /\ Place(k + 1)' = Place(k + 1)
        BY <2>6, <4>1
      <4>3. pwsz' \in Nat /\ pwsz <= pwsz'
        BY <1>1, <2>1, <2>3
      <4>4. Place(k) \in 1 .. pwsz /\ StringBetween(Place(k), Place(k + 1))
        BY <1>1, <3>2
      <4>5. Place(k)' \in 1 .. pwsz'
        BY <1>1, <4>2, <4>3, <4>4
      <4> QED
        BY <1>3, <4>2, <4>4, <4>5 DEF StringBetween
    <3> QED
      BY <1>1, <1>4, <3>1, <3>2
  <2>8. Place(1)' = 1
    BY <1>1, <2>6
  <2>9. nIndex' \in Nat \ {0} /\ pwsz' \in Nat
    BY <1>1, <1>4, <2>1, <2>3
  <2> QED
    BY <1>1, <1>4, <2>7, <2>8, <2>9 DEF ChainInv
<1>5. CASE /\ pc' \in {"build", "failed"}
           /\ UNCHANGED <<m_bufArguments, nIndex, pwsz>>
           /\ pc' = "build" => ~ AtString
  <2>1. \A k : Place(k)' = Place(k)
    BY <1>5 DEF Place
  <2>2. pc' = "build" =>
          DOMAIN m_bufArguments' = 1 .. nIndex' - 1 /\ m_bufArgData(pwsz)' = NUL
    <3> SUFFICES ASSUME pc' = "build"
                 PROVE  DOMAIN m_bufArguments' = 1 .. nIndex' - 1
                        /\ m_bufArgData(pwsz)' = NUL
      OBVIOUS
    <3>1. nIndex = cArgs + 1 /\ cArgs \in Nat
      BY <1>1, <1>5, RoomHere
    <3>2. m_bufArgData(pwsz)' = NUL
      BY <1>1, <1>5 DEF m_bufArgData, AtString
    <3> QED
      BY <1>1, <1>5, <3>1, <3>2
  <2>3. \A k \in 1 .. nIndex - 1 : StringBetween(Place(k), Place(k + 1))'
    BY <1>1, <1>3, <2>1 DEF StringBetween
  <2> QED
    BY <1>1, <1>5, <2>1, <2>2, <2>3 DEF ChainInv
<1> QED
  BY <1>4, <1>5 DEF StoreArgument, NoEnd

LEMMA ChainFrame ==
  ASSUME ChainInv, pc \notin {"query", "count", "alloc"},
         UNCHANGED <<data, cch, m_bufArguments, nIndex, pwsz>>,
         \/ pc' = pc
         \/ /\ pc \notin {"store", "failed"}
            /\ pc' \notin {"query", "count", "alloc"}
  PROVE  ChainInv'
<1>1. \A k : m_bufArgData(k)' = m_bufArgData(k)
  BY DEF m_bufArgData
<1>2. \A k : Place(k)' = Place(k)
  BY DEF Place
<1>3. \A k : StringBetween(Place(k), Place(k + 1))
               => StringBetween(Place(k), Place(k + 1))'
  BY <1>1, <1>2 DEF StringBetween
<1>4. m_bufArgData(pwsz) = NUL => m_bufArgData(pwsz)' = NUL
  BY DEF m_bufArgData
<1> QED
  BY <1>2, <1>3, <1>4 DEF ChainInv

LEMMA InvKept == WalkInv /\ [Next]_vars => WalkInv'
<1> SUFFICES ASSUME WalkInv, [Next]_vars PROVE RoomInv' /\ ChainInv'
  BY ListInvKept DEF WalkInv
<1> USE DEF WalkInv
<1>1. CASE ListNext
  BY <1>1, QueryRoom, CountRoom, AllocRoom, StoreRoom, QueryChain, CountChain,
     AllocChain, StoreChain
     DEF ListNext
<1>2. CASE BuildArguments \/ FormatApplication \/ FormatArgument
  <2>1. /\ pc \in {"build", "application", "arguments"}
        /\ pc' \in {"application", "arguments", "launched", "failed"}
        /\ UNCHANGED <<data, cch, m_bufArguments, nIndex, pwsz>>
    BY <1>2 DEF BuildArguments, FormatApplication, FormatArgument
  <2> QED
    BY <2>1, ChainFrame DEF RoomInv
<1>3. CASE UNCHANGED vars
  <2>1. UNCHANGED listVars
    BY <1>3 DEF vars
  <2>2. UNCHANGED <<data, pc, cch, cArgs, m_bufArguments, nIndex, pwsz>>
    BY <2>1 DEF listVars
  <2>3. ChainInv'
    BY <2>2, ChainFrame DEF ChainInv
  <2>4. \A p : /\ Starts(p)' = Starts(p)
               /\ NotOver(p)' = NotOver(p)
               /\ EmptyAt(p)' = EmptyAt(p)
    BY <2>2, RoomFrame
  <2> QED
    BY <2>2, <2>3, <2>4 DEF RoomInv
<1> QED
  BY <1>1, <1>2, <1>3 DEF Next

(* The list is walked inside its allocation and stored without losing       *)
(* count, whatever the registry holds.                                      *)
THEOREM Invariance == Spec => []WalkInv
<1>1. Init => WalkInv
  BY InitListInv DEF Init, ListStart, RoomInv, ChainInv, WalkInv
<1> QED
  BY <1>1, InvKept, PTL DEF Spec

(* Whatever is in the registry, the pointers that the second walk stores    *)
(* are as many as the array has room for, no more and no fewer.             *)
THEOREM RoomHolds == Spec => []RoomForEach
<1>1. WalkInv => RoomForEach
  <2> SUFFICES ASSUME WalkInv PROVE RoomForEach
    OBVIOUS
  <2>1. CASE pc = "store"
    BY <2>1, RoomHere DEF WalkInv, RoomInv, RoomForEach
  <2>2. CASE pc # "store"
    BY <2>2 DEF WalkInv, RoomInv, RoomForEach
  <2> QED
    BY <2>1, <2>2
<1> QED
  BY <1>1, Invariance, PTL

-----------------------------------------------------------------------------
(* Sequences of characters.  The provers do not know of a literal that it   *)
(* is a string, so the ones that the code writes are named here.            *)

Word ==
  {"certissued", "-subjectkeyidentifier", "-serialnumber", "5e", "-rawcertpath"}
Char == STRING \cup {NUL, Apostrophe} \cup Word

LEMMA StringIsChars ==
  ASSUME NEW s \in Seq(STRING)
  PROVE  s \in Seq(Char) /\ Len(s) \in Nat
BY DEF Char

LEMMA One ==
  ASSUME NEW S, NEW a \in S
  PROVE  <<a>> \in Seq(S) /\ Len(<<a>>) = 1
OBVIOUS

LEMMA Joined ==
  ASSUME NEW S
  PROVE  \A s, t \in Seq(S) :
           s \o t \in Seq(S) /\ Len(s \o t) = Len(s) + Len(t)
OBVIOUS

LEMMA JoinedLists ==
  ASSUME NEW s \in Seq(Seq(Char)), NEW t \in Seq(Seq(Char)), NEW u, u = s \o t
  PROVE  /\ u \in Seq(Seq(Char)) /\ Len(u) = Len(s) + Len(t)
         /\ \A i \in 1 .. Len(s) + Len(t) :
              u[i] = IF i <= Len(s) THEN s[i] ELSE t[i - Len(s)]
BY ConcatProperties

LEMMA PartOf ==
  ASSUME NEW s \in Seq(Char), NEW a \in Int, NEW b \in Int,
         1 <= a, b <= Len(s), a <= b + 1
  PROVE  /\ SubSeq(s, a, b) \in Seq(Char)
         /\ Len(SubSeq(s, a, b)) = b - a + 1
<1>1. \A i \in a .. b : s[i] \in Char
  OBVIOUS
<1>2. /\ SubSeq(s, a, b) \in Seq(Char)
      /\ Len(SubSeq(s, a, b)) = IF a <= b THEN b - a + 1 ELSE 0
  BY <1>1, SubSeqProperties
<1> QED
  BY <1>2

LEMMA Seven ==
  ASSUME NEW S, NEW a \in S, NEW b \in S, NEW c \in S, NEW d \in S,
         NEW e \in S, NEW f \in S, NEW g \in S
  PROVE  LET t == <<a, b, c, d, e, f, g>>
         IN  /\ t \in Seq(S) /\ Len(t) = 7
             /\ t[1] = a /\ t[2] = b /\ t[3] = c /\ t[4] = d /\ t[5] = e
             /\ t[6] = f /\ t[7] = g
OBVIOUS

-----------------------------------------------------------------------------
(* The arguments, read off the chain                                        *)

(* Where the chain says that a string is, that string is found.             *)
LEMMA CStringAt ==
  ASSUME ListInv, NEW p \in 1 .. cch, NEW q \in 1 .. cch, StringBetween(p, q)
  PROVE  CString(p) = SubSeq(data, p, q - 2)
<1> DEFINE m == (q - p) - 1
<1>1. /\ cch \in Nat /\ m \in Nat /\ m <= cch - p
      /\ p + m = q - 1 /\ p + m - 1 = q - 2
  BY DEF ListInv, StringBetween
<1>2. /\ m_bufArgData(p + m) = NUL
      /\ \A k \in 0 .. m - 1 : m_bufArgData(p + k) # NUL
  <2>1. ASSUME NEW k \in 0 .. m - 1
        PROVE  m_bufArgData(p + k) # NUL
    <3>1. p + k \in p .. q - 2
      BY <1>1
    <3> QED
      BY <3>1 DEF StringBetween
  <2> QED
    BY <1>1, <2>1 DEF StringBetween
<1>3. m \in 0 .. (cch - p + 1) - 1
  BY <1>1
<1> HIDE DEF m
<1>4. ASSUME NEW n \in StringCchLength(p, cch - p + 1)
      PROVE  n = m
  <2>1. /\ n \in Nat
        /\ m_bufArgData(p + n) = NUL
        /\ \A k \in 0 .. n - 1 : m_bufArgData(p + k) # NUL
    BY <1>1 DEF StringCchLength
  <2>2. ~ (n < m)
    <3>1. n < m => n \in 0 .. m - 1
      BY <1>1, <2>1
    <3> QED
      BY <1>2, <2>1, <3>1
  <2>3. ~ (m < n)
    <3>1. m < n => m \in 0 .. n - 1
      BY <1>1, <2>1
    <3> QED
      BY <1>2, <2>1, <3>1
  <2> QED
    BY <1>1, <2>1, <2>2, <2>3
<1>5. m \in StringCchLength(p, cch - p + 1)
  BY <1>2, <1>3 DEF StringCchLength
<1>6. (CHOOSE n \in StringCchLength(p, cch - p + 1) : TRUE) = m
  BY <1>4, <1>5
<1> QED
  BY <1>1, <1>6 DEF CString

(* The list has been walked through.                                        *)
Walked == pc \notin {"query", "count", "alloc", "store", "failed"}

LEMMA Places ==
  ASSUME ListInv, ChainInv, Walked
  PROVE  /\ nIndex \in Nat \ {0} /\ pwsz \in Nat /\ cch \in Nat
         /\ DOMAIN m_bufArguments = 1 .. nIndex - 1
         /\ Place(1) = 1 /\ Place(nIndex) = pwsz
         /\ pwsz = 1 \/ pwsz \in 1 .. cch
         /\ \A k \in 1 .. nIndex - 1 :
              /\ m_bufArguments[k] = Place(k)
              /\ Place(k) \in 1 .. cch /\ Place(k + 1) \in 1 .. cch
              /\ Place(k) \in 1 .. pwsz /\ Place(k + 1) \in 1 .. pwsz
              /\ StringBetween(Place(k), Place(k + 1))
<1>1. /\ nIndex \in Nat \ {0} /\ pwsz \in Nat /\ cch \in Nat
      /\ DOMAIN m_bufArguments = 1 .. nIndex - 1
      /\ Place(1) = 1
      /\ \A k \in 1 .. nIndex - 1 :
           Place(k) \in 1 .. pwsz /\ StringBetween(Place(k), Place(k + 1))
      /\ nIndex > 1 => m_bufArgData(pwsz) = NUL
  BY DEF Walked, ChainInv, ListInv
<1>2. Place(nIndex) = pwsz /\ \A k \in 1 .. nIndex - 1 : Place(k) = m_bufArguments[k]
  BY <1>1 DEF Place
<1>3. nIndex > 1 => pwsz \in 1 .. cch
  BY <1>1 DEF m_bufArgData, NUL, Garbage
<1>4. nIndex = 1 => pwsz = 1
  BY <1>1, <1>2
<1>5. ASSUME NEW k \in 1 .. nIndex - 1
      PROVE  /\ Place(k) \in 1 .. cch /\ Place(k + 1) \in 1 .. cch
             /\ Place(k + 1) \in 1 .. pwsz
  <2>1. nIndex > 1 /\ pwsz \in 1 .. cch /\ Place(k) \in 1 .. pwsz
    BY <1>1, <1>3, <1>5
  <2>2. Place(k + 1) \in 1 .. pwsz
    <3>1. k + 1 \in 1 .. nIndex - 1 \/ k + 1 = nIndex
      BY <1>1
    <3> QED
      BY <1>1, <1>2, <2>1, <3>1
  <2> QED
    BY <1>1, <2>1, <2>2
<1> QED
  BY <1>1, <1>2, <1>3, <1>4, <1>5

LEMMA BaseFacts ==
  ASSUME ListInv, ChainInv, Walked
  PROVE  /\ BaseArguments \in Seq(Seq(Char))
         /\ Len(BaseArguments) = nIndex - 1
         /\ \A k \in 1 .. nIndex - 1 :
              /\ BaseArguments[k] = SubSeq(data, Place(k), Place(k + 1) - 2)
              /\ BaseArguments[k] \in Seq(Char)
              /\ Len(BaseArguments[k]) = (Place(k + 1) - Place(k)) - 1
              /\ Len(BaseArguments[k]) \in Nat \ {0}
<1>1. ASSUME NEW k \in 1 .. nIndex - 1
      PROVE  /\ BaseArguments[k] = SubSeq(data, Place(k), Place(k + 1) - 2)
             /\ BaseArguments[k] \in Seq(Char)
             /\ Len(BaseArguments[k]) = (Place(k + 1) - Place(k)) - 1
             /\ Len(BaseArguments[k]) \in Nat \ {0}
  <2>1. BaseArguments[k] = CString(Place(k))
    BY Places DEF BaseArguments
  <2>2. BaseArguments[k] = SubSeq(data, Place(k), Place(k + 1) - 2)
    BY <2>1, Places, CStringAt
  <2>3. /\ Place(k) \in 1 .. cch /\ Place(k + 1) \in 1 .. cch
        /\ Place(k + 1) >= Place(k) + 2
        /\ data \in Seq(Char) /\ cch \in 0 .. Len(data)
    BY Places, StringIsChars DEF StringBetween, ListInv
  <2>4. PICK a \in Int, b \in Int :
          /\ a = Place(k) /\ b = Place(k + 1) - 2
          /\ 1 <= a /\ b <= Len(data) /\ a <= b + 1
          /\ (Place(k + 1) - Place(k)) - 1 = b - a + 1
          /\ b - a + 1 \in Nat \ {0}
    BY <2>3
  <2>5. data \in Seq(Char) /\ 1 <= a /\ b <= Len(data) /\ a <= b + 1
    BY <2>3, <2>4
  <2>6. /\ SubSeq(data, a, b) \in Seq(Char)
        /\ Len(SubSeq(data, a, b)) = b - a + 1
    BY <2>5, PartOf
  <2> QED
    BY <2>2, <2>4, <2>6
<1>2. nIndex - 1 \in Nat /\ DOMAIN m_bufArguments = 1 .. nIndex - 1
  BY Places
<1>3. BaseArguments \in Seq(Seq(Char)) /\ Len(BaseArguments) = nIndex - 1
  <2>1. BaseArguments = [k \in 1 .. nIndex - 1 |-> BaseArguments[k]]
    BY <1>2 DEF BaseArguments
  <2>2. BaseArguments \in [1 .. nIndex - 1 -> Seq(Char)]
    BY <1>1, <2>1
  <2> QED
    BY <1>2, <2>2
<1> QED
  BY <1>1, <1>3

-----------------------------------------------------------------------------
(* The room in the command line                                             *)

LEMMA EscapedFacts ==
  ASSUME NEW s \in Seq(Char)
  PROVE  /\ EscapeArgumentForPS(s) \in Seq(Char)
         /\ Len(EscapeArgumentForPS(s)) = Len(s) + 2
<1>1. PICK one : one = <<Apostrophe>>
  OBVIOUS
<1>2. one \in Seq(Char)
  BY <1>1, One DEF Char
<1>3. Len(one) = 1
  BY <1>1
<1>4. EscapeArgumentForPS(s) = (one \o s) \o one
  BY <1>1 DEF EscapeArgumentForPS
<1>5. /\ one \o s \in Seq(Char) /\ Len(one \o s) = Len(one) + Len(s)
      /\ (one \o s) \o one \in Seq(Char)
      /\ Len((one \o s) \o one) = Len(one \o s) + Len(one)
  BY <1>2, Joined
<1>6. Len(s) \in Nat
  OBVIOUS
<1> QED
  BY <1>3, <1>4, <1>5, <1>6

(* What quotes add to an argument.                                          *)
Quotes(s) == IF HasWhiteSpace(s) THEN 2 ELSE 0

LEMMA OneWord ==
  ASSUME NEW w \in Word
  PROVE  <<w>> \in Seq(Char) /\ Len(<<w>>) = 1 /\ Quotes(<<w>>) = 0
<1>1. w # Space /\ w \in Char
  BY DEF Word, Space, Char
<1>2. ~ HasWhiteSpace(<<w>>)
  <2>1. (\A i \in DOMAIN <<w>> : i = 1) /\ <<w>>[1] = w
    OBVIOUS
  <2> QED
    BY <1>1, <2>1 DEF HasWhiteSpace
<1> QED
  BY <1>1, <1>2, One DEF Quotes

(* What fits with a null behind it is copied whole.                         *)
LEMMA CopyFits ==
  ASSUME NEW buf, buf.ok, NEW r \in Nat, buf.room = r,
         NEW s, NEW n \in Nat, Len(s) = n, n < r
  PROVE  /\ StringCchCopy(buf, s).ok
         /\ StringCchCopy(buf, s).room = r - n
BY DEF StringCchCopy

LEMMA CopyOne ==
  ASSUME NEW buf, buf.ok, NEW r \in Nat, buf.room = r, 1 < r, NEW w
  PROVE  /\ StringCchCopy(buf, <<w>>).ok
         /\ StringCchCopy(buf, <<w>>).room = r - 1
<1> DEFINE s == <<w>>
<1>1. Len(s) = 1
  OBVIOUS
<1> HIDE DEF s
<1>2. StringCchCopy(buf, s).ok /\ StringCchCopy(buf, s).room = r - 1
  BY <1>1 DEF StringCchCopy
<1> QED
  BY <1>2 DEF s

LEMMA WriteFits ==
  ASSUME NEW buf, buf.ok, NEW r \in Nat, buf.room = r,
         NEW s, NEW n \in Nat, Len(s) = n, n + Quotes(s) < r
  PROVE  /\ WriteArgument(buf, s).ok
         /\ WriteArgument(buf, s).room = r - (n + Quotes(s))
<1>1. CASE ~ HasWhiteSpace(s)
  BY <1>1, CopyFits DEF WriteArgument, Quotes
<1>2. CASE HasWhiteSpace(s)
  <2> DEFINE a == StringCchCopy(buf, <<Quote>>)
             b == StringCchCopy(a, s)
             d == StringCchCopy(b, <<Quote>>)
  <2>0. /\ n + 2 < r
        /\ r - 1 \in Nat /\ (r - 1) - n \in Nat
        /\ 1 < r /\ n < r - 1 /\ 1 < (r - 1) - n
        /\ ((r - 1) - n) - 1 = r - (n + 2)
    BY <1>2 DEF Quotes
  <2>4. WriteArgument(buf, s) = d
    BY <1>2 DEF WriteArgument
  <2>1. a.ok /\ a.room = r - 1
    BY <2>0, CopyOne, Zenon
  <2> HIDE DEF a
  <2>2. b.ok /\ b.room = (r - 1) - n
    BY <2>0, <2>1, CopyFits
  <2> HIDE DEF b
  <2>3. d.ok /\ d.room = ((r - 1) - n) - 1
    <3>1. PICK k \in Nat : k = (r - 1) - n /\ 1 < k
      BY <2>0
    <3> QED
      BY <2>2, <3>1, CopyOne, Zenon
  <2> HIDE DEF d
  <2> QED
    BY <1>2, <2>0, <2>3, <2>4 DEF Quotes
<1> QED
  BY <1>1, <1>2

(* What is set aside for the arguments of the event is enough for each.     *)
LEMMA EventFacts ==
  ASSUME ski \in Seq(STRING), path \in Seq(STRING)
  PROVE  /\ EventArguments \in Seq(Seq(Char))
         /\ Len(EventArguments) = 7
         /\ \A j \in 0 .. 7 : EventRoom(j) \in Nat
         /\ EventRoom(0) = 20 + Len(ski) + Len(path)
         /\ \A j \in 0 .. 6 :
              EventRoom(j + 1) + 1 + Len(EventArguments[j + 1])
                + Quotes(EventArguments[j + 1]) <= EventRoom(j)
<1> DEFINE i == Len(ski)
           p == Len(path)
           x == IF m_fEscapeForPS THEN EscapeArgumentForPS(ski) ELSE ski
           y == IF m_fEscapeForPS THEN EscapeArgumentForPS(path) ELSE path
<1>1. /\ ski \in Seq(Char) /\ path \in Seq(Char)
      /\ i \in Nat /\ p \in Nat
  BY StringIsChars
<1>2. /\ x \in Seq(Char) /\ Len(x) \in Nat /\ Len(x) <= i + 2
      /\ y \in Seq(Char) /\ Len(y) \in Nat /\ Len(y) <= p + 2
  <2>1. \A s \in Seq(Char) :
          /\ EscapeArgumentForPS(s) \in Seq(Char)
          /\ Len(EscapeArgumentForPS(s)) = Len(s) + 2
    BY EscapedFacts
  <2> QED
    BY <1>1, <2>1
<1>3. EventArguments = Dynamic(x, y)
  BY DEF EventArguments
<1> HIDE DEF x, y
<1>4. /\ EventArguments \in Seq(Seq(Char)) /\ Len(EventArguments) = 7
      /\ EventArguments[1] = <<"certissued">>
      /\ EventArguments[2] = <<"-subjectkeyidentifier">>
      /\ EventArguments[3] = x
      /\ EventArguments[4] = <<"-serialnumber">>
      /\ EventArguments[5] = <<"5e">>
      /\ EventArguments[6] = <<"-rawcertpath">>
      /\ EventArguments[7] = y
  <2>1. \A w \in Word : <<w>> \in Seq(Char)
    BY OneWord
  <2>2. PICK a, b, c, d, e :
          /\ a = <<"certissued">> /\ b = <<"-subjectkeyidentifier">>
          /\ c = <<"-serialnumber">> /\ d = <<"5e">>
          /\ e = <<"-rawcertpath">>
    BY Zenon
  <2>3. /\ a \in Seq(Char) /\ b \in Seq(Char) /\ c \in Seq(Char)
        /\ d \in Seq(Char) /\ e \in Seq(Char)
    BY <2>1, <2>2 DEF Word
  <2>4. EventArguments = <<a, b, x, c, d, e, y>>
    BY <1>3, <2>2 DEF Dynamic
  <2>5. /\ EventArguments \in Seq(Seq(Char)) /\ Len(EventArguments) = 7
        /\ EventArguments[1] = a /\ EventArguments[2] = b
        /\ EventArguments[3] = x /\ EventArguments[4] = c
        /\ EventArguments[5] = d /\ EventArguments[6] = e
        /\ EventArguments[7] = y
    BY <1>2, <2>3, <2>4, Seven
  <2> QED
    BY <2>2, <2>5
<1>5. \A k \in {1, 2, 4, 5, 6} :
        Len(EventArguments[k]) = 1 /\ Quotes(EventArguments[k]) = 0
  <2>1. \A w \in Word : Len(<<w>>) = 1 /\ Quotes(<<w>>) = 0
    BY OneWord
  <2>2. ASSUME NEW k \in {1, 2, 4, 5, 6}
        PROVE  \E w \in Word : EventArguments[k] = <<w>>
    BY <1>4 DEF Word
  <2> QED
    BY <2>1, <2>2
<1>6. \A s : Quotes(s) \in {0, 2}
  BY DEF Quotes
<1>7. /\ EventRoom(0) = 20 + i + p /\ EventRoom(1) = 18 + i + p
      /\ EventRoom(2) = 16 + i + p /\ EventRoom(3) = 11 + p
      /\ EventRoom(4) = 9 + p /\ EventRoom(5) = 7 + p
      /\ EventRoom(6) = 5 + p /\ EventRoom(7) = 0
  BY DEF EventRoom
<1>8. \A j \in 0 .. 7 : EventRoom(j) \in Nat
  BY <1>1, <1>7
<1> HIDE DEF i, p
<1>9. ASSUME NEW j \in 0 .. 6
      PROVE  EventRoom(j + 1) + 1 + Len(EventArguments[j + 1])
               + Quotes(EventArguments[j + 1]) <= EventRoom(j)
  <2>1. CASE j \in {0, 1, 3, 4, 5}
    <3>1. j + 1 \in {1, 2, 4, 5, 6}
      BY <2>1
    <3>2. Len(EventArguments[j + 1]) = 1 /\ Quotes(EventArguments[j + 1]) = 0
      BY <1>5, <3>1
    <3>3. EventRoom(j + 1) + 2 = EventRoom(j)
      <4>1. j = 0 \/ j = 1 \/ j = 3 \/ j = 4 \/ j = 5
        BY <2>1, Zenon
      <4>2. /\ EventRoom(0 + 1) + 2 = EventRoom(0)
            /\ EventRoom(1 + 1) + 2 = EventRoom(1)
            /\ EventRoom(3 + 1) + 2 = EventRoom(3)
            /\ EventRoom(4 + 1) + 2 = EventRoom(4)
            /\ EventRoom(5 + 1) + 2 = EventRoom(5)
        BY <1>1, <1>7
      <4> QED
        BY <4>1, <4>2, Zenon
    <3>4. EventRoom(j + 1) \in Nat
      <4>1. j + 1 \in 0 .. 7
        OBVIOUS
      <4> QED
        BY <1>8, <4>1
    <3> QED
      BY <3>2, <3>3, <3>4
  <2>2. CASE j = 2
    <3>1. /\ Len(EventArguments[3]) \in Nat /\ Len(EventArguments[3]) <= i + 2
          /\ Quotes(EventArguments[3]) \in {0, 2}
      BY <1>2, <1>4, <1>6 DEF i
    <3>2. EventRoom(3) = 11 + p /\ EventRoom(2) = 16 + i + p
      BY <1>7
    <3> QED
      BY <1>1, <2>2, <3>1, <3>2
  <2>3. CASE j = 6
    <3>1. /\ Len(EventArguments[7]) \in Nat /\ Len(EventArguments[7]) <= p + 2
          /\ Quotes(EventArguments[7]) \in {0, 2}
      BY <1>2, <1>4, <1>6 DEF p
    <3>2. EventRoom(7) = 0 /\ EventRoom(6) = 5 + p
      BY <1>7
    <3> QED
      BY <1>1, <2>3, <3>1, <3>2
  <2> QED
    BY <2>1, <2>2, <2>3
<1> QED
  BY <1>4, <1>7, <1>8, <1>9 DEF i, p

(* And so is what is set aside for all arguments behind any of them.        *)
LEMMA ChargeFits ==
  ASSUME ListInv, ChainInv, Walked, ski \in Seq(STRING), path \in Seq(STRING),
         bufArgs = BaseArguments \o EventArguments
  PROVE  /\ Len(bufArgs) = nIndex + 6
         /\ \A w \in 0 .. Len(bufArgs) : RoomBehind(w) \in Nat
         /\ \A w \in 0 .. Len(bufArgs) - 1 :
              /\ Len(bufArgs[w + 1]) \in Nat
              /\ RoomBehind(w + 1) + 1 + Len(bufArgs[w + 1])
                   + Quotes(bufArgs[w + 1]) <= RoomBehind(w)
<1>1. /\ nIndex \in Nat \ {0}
      /\ BaseArguments \in Seq(Seq(Char)) /\ Len(BaseArguments) = nIndex - 1
      /\ EventArguments \in Seq(Seq(Char)) /\ Len(EventArguments) = 7
  BY Places, BaseFacts, EventFacts
<1>2. /\ bufArgs \in Seq(Seq(Char)) /\ Len(bufArgs) = nIndex + 6
      /\ \A w \in 0 .. Len(bufArgs) - 1 :
           bufArgs[w + 1] = IF w + 1 <= nIndex - 1 THEN BaseArguments[w + 1]
                            ELSE EventArguments[(w + 1) - (nIndex - 1)]
  <2>1. /\ bufArgs \in Seq(Seq(Char))
        /\ Len(bufArgs) = Len(BaseArguments) + Len(EventArguments)
        /\ \A i \in 1 .. Len(BaseArguments) + Len(EventArguments) :
             bufArgs[i] = IF i <= Len(BaseArguments) THEN BaseArguments[i]
                          ELSE EventArguments[i - Len(BaseArguments)]
    <3>1. /\ BaseArguments \in Seq(Seq(Char))
          /\ EventArguments \in Seq(Seq(Char))
      BY <1>1
    <3> QED
      BY <3>1, JoinedLists
  <2>2. Len(bufArgs) = nIndex + 6
    BY <1>1, <2>1
  <2>3. ASSUME NEW w \in 0 .. Len(bufArgs) - 1
        PROVE  bufArgs[w + 1] = IF w + 1 <= nIndex - 1 THEN BaseArguments[w + 1]
                                ELSE EventArguments[(w + 1) - (nIndex - 1)]
    <3>1. w + 1 \in 1 .. Len(BaseArguments) + Len(EventArguments)
      BY <1>1, <2>2
    <3> QED
      BY <1>1, <2>1, <3>1
  <2> QED
    BY <2>1, <2>2, <2>3
<1>3. \A j \in 0 .. 7 : EventRoom(j) \in Nat
  BY EventFacts
<1>4. ASSUME NEW w \in 0 .. Len(bufArgs), w < nIndex
      PROVE  /\ Place(w + 1) \in 1 .. pwsz /\ pwsz \in Nat
             /\ RoomBehind(w) = 2 * (pwsz - Place(w + 1)) + EventRoom(0)
  <2>1. w + 1 \in 1 .. nIndex - 1 \/ w + 1 = nIndex
    BY <1>1, <1>4
  <2>2. Place(w + 1) \in 1 .. pwsz /\ pwsz \in Nat
    <3>1. /\ pwsz \in Nat \ {0} /\ Place(nIndex) = pwsz
          /\ \A k \in 1 .. nIndex - 1 : Place(k) \in 1 .. pwsz
      BY Places
    <3> QED
      BY <2>1, <3>1
  <2>3. RoomBehind(w) = 2 * (pwsz - Place(w + 1)) + EventRoom(0)
    BY <1>4, Zenon DEF RoomBehind
  <2> QED
    BY <2>2, <2>3
<1>5. ASSUME NEW w \in 0 .. Len(bufArgs), ~ (w < nIndex)
      PROVE  /\ RoomBehind(w) = EventRoom(w - (nIndex - 1))
             /\ w - (nIndex - 1) \in 1 .. 7
  <2>1. RoomBehind(w) = EventRoom(w - (nIndex - 1))
    BY <1>5, Zenon DEF RoomBehind
  <2> QED
    BY <1>1, <1>2, <1>5, <2>1
<1>6. ASSUME NEW w \in 0 .. Len(bufArgs)
      PROVE  RoomBehind(w) \in Nat
  <2>1. CASE w < nIndex
    <3>1. PICK p \in 1 .. pwsz : p = Place(w + 1)
      BY <1>4, <2>1
    <3>2. pwsz \in Nat /\ RoomBehind(w) = 2 * (pwsz - p) + EventRoom(0)
      BY <1>4, <2>1, <3>1
    <3>3. PICK z \in Nat : z = EventRoom(0)
      BY <1>3
    <3> QED
      BY <3>2, <3>3
  <2>2. CASE ~ (w < nIndex)
    <3>1. /\ RoomBehind(w) = EventRoom(w - (nIndex - 1))
          /\ w - (nIndex - 1) \in 0 .. 7
      BY <1>5, <2>2
    <3> QED
      BY <1>3, <3>1
  <2> QED
    BY <2>1, <2>2
<1>7. ASSUME NEW w \in 0 .. Len(bufArgs) - 1
      PROVE  Len(bufArgs[w + 1]) \in Nat
  <2>1. w + 1 \in 1 .. Len(bufArgs)
    BY <1>1, <1>2
  <2>2. bufArgs[w + 1] \in Seq(Char)
    BY <1>2, <2>1
  <2> QED
    BY <2>2
<1>8. ASSUME NEW w \in 0 .. Len(bufArgs) - 1
      PROVE  RoomBehind(w + 1) + 1 + Len(bufArgs[w + 1])
               + Quotes(bufArgs[w + 1]) <= RoomBehind(w)
  <2>1. CASE w + 1 <= nIndex - 1
    <3>1. PICK p, q, n :
            /\ p = Place(w + 1) /\ q = Place((w + 1) + 1)
            /\ n = Len(bufArgs[w + 1])
      OBVIOUS
    <3>2. n = (q - p) - 1 /\ n \in Nat \ {0}
      <4>1. w + 1 \in 1 .. nIndex - 1
        BY <2>1
      <4> QED
        BY <1>2, <2>1, <3>1, <4>1, BaseFacts
    <3>3. /\ p \in 1 .. pwsz /\ q \in 1 .. pwsz /\ pwsz \in Nat
          /\ RoomBehind(w) = 2 * (pwsz - p) + EventRoom(0)
          /\ RoomBehind(w + 1) = 2 * (pwsz - q) + EventRoom(0)
      <4>1. Len(bufArgs) = nIndex + 6
        BY <1>2
      <4>2. /\ w \in 0 .. Len(bufArgs) /\ w < nIndex
            /\ w + 1 \in 0 .. Len(bufArgs) /\ w + 1 < nIndex
        BY <1>1, <2>1, <4>1
      <4>3. /\ Place(w + 1) \in 1 .. pwsz /\ pwsz \in Nat
            /\ RoomBehind(w) = 2 * (pwsz - Place(w + 1)) + EventRoom(0)
        BY <1>4, <4>2
      <4>4. /\ Place((w + 1) + 1) \in 1 .. pwsz
            /\ RoomBehind(w + 1) = 2 * (pwsz - Place((w + 1) + 1)) + EventRoom(0)
        BY <1>4, <4>2
      <4> QED
        BY <3>1, <4>3, <4>4
    <3>4. PICK z \in Nat, c \in 0 .. 2 :
            z = EventRoom(0) /\ c = Quotes(bufArgs[w + 1])
      <4>1. EventRoom(0) \in Nat
        BY <1>3
      <4>2. Quotes(bufArgs[w + 1]) \in 0 .. 2
        BY DEF Quotes
      <4> QED
        BY <4>1, <4>2, Zenon
    <3>5. (2 * (pwsz - q) + z) + 1 + n + c <= 2 * (pwsz - p) + z
      BY <3>2, <3>3
    <3> QED
      BY <3>1, <3>3, <3>4, <3>5
  <2>2. CASE ~ (w + 1 <= nIndex - 1)
    <3>1. PICK j \in 0 .. 6 : j = w - (nIndex - 1)
      <4>1. w - (nIndex - 1) \in 0 .. 6
        BY <1>1, <1>2, <2>2
      <4> QED
        BY <4>1
    <3>2. bufArgs[w + 1] = EventArguments[j + 1]
      <4>1. bufArgs[w + 1] = EventArguments[(w + 1) - (nIndex - 1)]
        BY <1>2, <2>2
      <4>2. (w + 1) - (nIndex - 1) = j + 1
        BY <1>1, <1>2, <3>1
      <4> QED
        BY <4>1, <4>2
    <3>3. RoomBehind(w + 1) = EventRoom(j + 1)
      <4>1. /\ w + 1 \in 0 .. Len(bufArgs) /\ ~ (w + 1 < nIndex)
            /\ (w + 1) - (nIndex - 1) = j + 1
        BY <1>1, <1>2, <2>2, <3>1
      <4> QED
        BY <1>5, <4>1
    <3>4. RoomBehind(w) = EventRoom(j)
      <4>1. CASE w < nIndex
        <5>1. w + 1 = nIndex /\ j = 0
          BY <1>1, <2>2, <3>1, <4>1
        <5>2. Place(w + 1) = pwsz
          BY <5>1, Places
        <5>3. w \in 0 .. Len(bufArgs)
          OBVIOUS
        <5>4. RoomBehind(w) = 2 * (pwsz - pwsz) + EventRoom(0) /\ pwsz \in Nat
          BY <1>4, <4>1, <5>2, <5>3
        <5> QED
          BY <1>3, <5>1, <5>4
      <4>2. CASE ~ (w < nIndex)
        BY <1>2, <1>5, <3>1, <4>2
      <4> QED
        BY <4>1, <4>2
    <3>5. EventRoom(j + 1) + 1 + Len(EventArguments[j + 1])
            + Quotes(EventArguments[j + 1]) <= EventRoom(j)
      BY EventFacts
    <3> QED
      BY <3>2, <3>3, <3>4, <3>5
  <2> QED
    BY <2>1, <2>2
<1> QED
  BY <1>2, <1>6, <1>7, <1>8

LEMMA LineFrame ==
  ASSUME UNCHANGED <<data, cch, m_bufArguments, nIndex, pwsz, stringVars>>
  PROVE  /\ BaseArguments' = BaseArguments
         /\ EventArguments' = EventArguments
         /\ \A k : RoomBehind(k)' = RoomBehind(k)
<1>1. UNCHANGED <<ski, path, m_fEscapeForPS>>
  BY DEF stringVars
<1>2. \A i : m_bufArgData(i)' = m_bufArgData(i)
  BY DEF m_bufArgData
<1>3. \A i, max : StringCchLength(i, max)' = StringCchLength(i, max)
  BY <1>2 DEF StringCchLength
<1>4. \A i : CString(i)' = CString(i)
  BY <1>3 DEF CString
<1>5. BaseArguments' = BaseArguments
  BY <1>4 DEF BaseArguments
<1>6. EventArguments' = EventArguments
  BY <1>1 DEF EventArguments
<1>7. \A k : Place(k)' = Place(k)
  BY DEF Place
<1>8. \A k : EventRoom(k)' = EventRoom(k)
  BY <1>1 DEF EventRoom
<1>9. \A k : RoomBehind(k)' = RoomBehind(k)
  BY <1>7, <1>8 DEF RoomBehind
<1> QED
  BY <1>5, <1>6, <1>9

(* The strings of a notification, and the room that is left for what is not *)
(* the program.                                                             *)
LEMMA StringFacts ==
  ASSUME exe \in ExePath, ski \in Identifier, path \in TempPath
  PROVE  /\ exe \in Seq(STRING) /\ ski \in Seq(STRING) /\ path \in Seq(STRING)
         /\ Len(exe) \in Nat /\ Len(ski) \in Nat /\ Len(path) \in Nat
         /\ MaxCommandLine \in Nat
         /\ MaxCommandLine
              >= 2 * BufferLength + Len(exe) + 2 + Len(ski) + Len(path) + 19
<1>1. exe \in Seq(STRING) /\ ski \in Seq(STRING) /\ path \in Seq(STRING)
  BY DEF DataAssumption
<1>2. Len(exe) \in Nat /\ Len(ski) \in Nat /\ Len(path) \in Nat
  BY <1>1, StringIsChars
<1> QED
  BY <1>1, <1>2, CommandLineAssumption DEF CommandLineAssumption

LEMMA ApplicationRoom ==
  WalkInv /\ LineInv /\ FormatApplication => LineInv'
<1> SUFFICES ASSUME WalkInv, LineInv, FormatApplication PROVE LineInv'
  OBVIOUS
<1> USE DEF WalkInv
<1>1. /\ pc = "application" /\ pc' = IF m_bufCmdLine'.ok THEN "arguments" ELSE "failed"
      /\ m_bufCmdLine' = WriteArgument(m_bufCmdLine, exe)
      /\ UNCHANGED <<data, cch, m_bufArguments, nIndex, pwsz, stringVars, bufArgs,
                     written>>
  BY DEF FormatApplication
<1>2. /\ exe \in ExePath /\ ski \in Identifier /\ path \in TempPath
      /\ m_bufCmdLine.ok /\ m_bufCmdLine.room = MaxCommandLine
      /\ written = 0 /\ bufArgs = BaseArguments \o EventArguments
  BY <1>1 DEF LineInv, CommandLineSize
<1>3. Walked
  BY <1>1 DEF Walked
<1>4. Quotes(exe) \in {0, 2}
  BY DEF Quotes
<1>5. /\ m_bufCmdLine'.ok
      /\ m_bufCmdLine'.room = MaxCommandLine - (Len(exe) + Quotes(exe))
  <2>1. Len(exe) + Quotes(exe) < MaxCommandLine
    BY <1>2, <1>4, StringFacts, BufferAssumption DEF BufferAssumption
  <2> QED
    BY <1>1, <1>2, <2>1, StringFacts, WriteFits
<1>6. /\ Len(bufArgs) \in Nat /\ RoomBehind(0) \in Nat
      /\ RoomBehind(0) <= 2 * (BufferLength - 1) + 20 + Len(ski) + Len(path)
  <2>1. /\ nIndex \in Nat \ {0} /\ pwsz \in Nat /\ Place(1) = 1
        /\ pwsz = 1 \/ pwsz \in 1 .. cch
    BY <1>3, Places
  <2>2. cch <= BufferLength /\ cch \in Nat
    BY DEF ListInv
  <2>3. EventRoom(0) = 20 + Len(ski) + Len(path)
    BY <1>2, StringFacts, EventFacts
  <2>4. RoomBehind(0) = 2 * (pwsz - 1) + EventRoom(0)
    <3>1. 0 < nIndex /\ 0 + 1 = 1
      BY <2>1
    <3> QED
      BY <2>1, <3>1 DEF RoomBehind
  <2>5. pwsz \in 1 .. BufferLength
    BY <2>1, <2>2, BufferAssumption DEF BufferAssumption
  <2>6. Len(bufArgs) = nIndex + 6
    BY <1>2, <1>3, StringFacts, ChargeFits
  <2> QED
    BY <1>2, <2>1, <2>3, <2>4, <2>5, <2>6, StringFacts, BufferAssumption
       DEF BufferAssumption
<1>7. /\ MaxCommandLine - (Len(exe) + Quotes(exe)) \in Nat
      /\ MaxCommandLine - (Len(exe) + Quotes(exe)) > RoomBehind(0)
  BY <1>2, <1>4, <1>6, StringFacts, BufferAssumption DEF BufferAssumption
<1>8. /\ bufArgs' = BaseArguments' \o EventArguments'
      /\ RoomBehind(written)' = RoomBehind(0)
  BY <1>1, <1>2, LineFrame
<1>9. /\ pc' = "arguments" /\ m_bufCmdLine'.room \in Nat
      /\ m_bufCmdLine'.room > RoomBehind(written)'
      /\ written' \in 0 .. Len(bufArgs')
  <2>1. 0 \in 0 .. Len(bufArgs)
    BY <1>6
  <2> QED
    BY <1>1, <1>2, <1>5, <1>7, <1>8, <2>1
<1>10. /\ exe' \in ExePath /\ ski' \in Identifier /\ path' \in TempPath
       /\ m_fEscapeForPS' \in BOOLEAN
  BY <1>1 DEF LineInv, stringVars
<1> QED
  BY <1>5, <1>8, <1>9, <1>10 DEF LineInv, NothingTruncated

LEMMA ArgumentRoom ==
  WalkInv /\ LineInv /\ FormatArgument => LineInv'
<1> SUFFICES ASSUME WalkInv, LineInv, FormatArgument PROVE LineInv'
  OBVIOUS
<1> USE DEF WalkInv
<1>1. /\ pc = "arguments"
      /\ UNCHANGED <<data, cch, m_bufArguments, nIndex, pwsz, stringVars, bufArgs>>
  BY DEF FormatArgument
<1>2. /\ exe \in ExePath /\ ski \in Identifier /\ path \in TempPath
      /\ m_fEscapeForPS \in BOOLEAN
      /\ bufArgs = BaseArguments \o EventArguments
      /\ written \in 0 .. Len(bufArgs)
      /\ m_bufCmdLine.ok
      /\ m_bufCmdLine.room \in Nat /\ m_bufCmdLine.room > RoomBehind(written)
  BY <1>1 DEF LineInv
<1>3. Walked
  BY <1>1 DEF Walked
<1>4. /\ nIndex \in Nat /\ Len(bufArgs) = nIndex + 6
      /\ \A w \in 0 .. Len(bufArgs) : RoomBehind(w) \in Nat
      /\ \A w \in 0 .. Len(bufArgs) - 1 :
           /\ Len(bufArgs[w + 1]) \in Nat
           /\ RoomBehind(w + 1) + 1 + Len(bufArgs[w + 1])
                + Quotes(bufArgs[w + 1]) <= RoomBehind(w)
  BY <1>2, <1>3, StringFacts, ChargeFits, Places
<1>5. /\ bufArgs' = BaseArguments' \o EventArguments'
      /\ \A k : RoomBehind(k)' = RoomBehind(k)
      /\ exe' \in ExePath /\ ski' \in Identifier /\ path' \in TempPath
      /\ m_fEscapeForPS' \in BOOLEAN
  BY <1>1, <1>2, LineFrame DEF stringVars
<1>6. CASE written < Len(bufArgs)
  <2> DEFINE a == StringCchCopy(m_bufCmdLine, <<Space>>)
             s == bufArgs[written + 1]
  <2>1. /\ m_bufCmdLine' = WriteArgument(a, s)
        /\ written' = written + 1
        /\ pc' = IF m_bufCmdLine'.ok THEN "arguments" ELSE "launched"
    <3>1. written # Len(bufArgs)
      BY <1>2, <1>4, <1>6
    <3> QED
      BY <3>1 DEF FormatArgument
  <2>2. PICK r \in Nat, n \in Nat, c \in 0 .. 2, next \in Nat :
          /\ r = m_bufCmdLine.room /\ n = Len(s) /\ c = Quotes(s)
          /\ next = RoomBehind(written + 1)
          /\ next + 1 + n + c < r
    <3>1. written \in 0 .. Len(bufArgs) - 1 /\ written + 1 \in 0 .. Len(bufArgs)
      BY <1>2, <1>4, <1>6
    <3>2. RoomBehind(written) \in Nat /\ RoomBehind(written + 1) \in Nat
      BY <1>2, <1>4, <3>1
    <3>3. Quotes(s) \in 0 .. 2
      BY DEF Quotes
    <3>4. /\ Len(s) \in Nat
          /\ RoomBehind(written + 1) + 1 + Len(s) + Quotes(s) <= RoomBehind(written)
      BY <1>4, <3>1
    <3>5. PICK r \in Nat, n \in Nat, c \in 0 .. 2, next \in Nat, now \in Nat :
            /\ r = m_bufCmdLine.room /\ n = Len(s) /\ c = Quotes(s)
            /\ next = RoomBehind(written + 1) /\ now = RoomBehind(written)
      BY <1>2, <3>2, <3>3, <3>4
    <3>6. next + 1 + n + c <= now /\ now < r
      BY <1>2, <3>4, <3>5
    <3>7. next + 1 + n + c < r
      BY <3>6
    <3> QED
      BY <3>5, <3>7
  <2> HIDE DEF s
  <2>3. a.ok /\ a.room = r - 1
    <3>1. 1 < r
      BY <2>2
    <3> QED
      BY <1>2, <2>2, <3>1, CopyOne, Zenon
  <2> HIDE DEF a
  <2>4. m_bufCmdLine'.ok /\ m_bufCmdLine'.room = (r - 1) - (n + c)
    <3>1. r - 1 \in Nat /\ n + c < r - 1
      <4>1. next + 1 + n + c < r
        BY <2>2
      <4> QED
        BY <4>1
    <3>2. n + Quotes(s) < r - 1 /\ Len(s) = n /\ n \in Nat
      BY <2>2, <3>1
    <3>3. /\ WriteArgument(a, s).ok
          /\ WriteArgument(a, s).room = (r - 1) - (n + Quotes(s))
      BY <2>3, <3>1, <3>2, WriteFits
    <3> QED
      BY <2>1, <2>2, <3>3
  <2>5. /\ (r - 1) - (n + c) \in Nat /\ (r - 1) - (n + c) > next
        /\ written + 1 \in 0 .. Len(bufArgs)
    <3>1. next + 1 + n + c < r
      BY <2>2
    <3>2. (r - 1) - (n + c) \in Nat /\ (r - 1) - (n + c) > next
      BY <3>1
    <3>3. Len(bufArgs) \in Nat
      BY <1>4
    <3> QED
      BY <1>2, <1>6, <3>2, <3>3
  <2>6. RoomBehind(written)' = next
    BY <1>5, <2>1, <2>2
  <2> QED
    BY <1>1, <1>5, <2>1, <2>4, <2>5, <2>6 DEF LineInv, NothingTruncated
<1>7. CASE ~ (written < Len(bufArgs))
  <2>1. /\ written = Len(bufArgs) /\ pc' = "launched"
        /\ UNCHANGED <<m_bufCmdLine, written>>
    BY <1>7 DEF FormatArgument
  <2> QED
    BY <1>1, <1>2, <1>5, <2>1 DEF LineInv, NothingTruncated
<1> QED
  BY <1>6, <1>7

LEMMA LineKept == WalkInv /\ LineInv /\ [Next]_vars => LineInv'
<1> SUFFICES ASSUME WalkInv, LineInv, [Next]_vars PROVE LineInv'
  OBVIOUS
<1>1. CASE ListNext /\ UNCHANGED <<stringVars, bufArgs, written, m_bufCmdLine>>
  <2>1. /\ pc \in {"query", "count", "alloc", "store"}
        /\ pc' \notin {"application", "arguments", "launched"}
    BY <1>1 DEF ListNext, QueryArguments, CountArgument, AllocArguments, StoreArgument
  <2> QED
    BY <1>1, <2>1 DEF LineInv, NothingTruncated, stringVars, CommandLineSize
<1>2. CASE BuildArguments
  <2>1. /\ pc = "build" /\ pc' = "application"
        /\ bufArgs' = BaseArguments \o EventArguments
        /\ UNCHANGED <<data, cch, m_bufArguments, nIndex, pwsz, stringVars, written,
                       m_bufCmdLine>>
    BY <1>2 DEF BuildArguments
  <2>2. BaseArguments' = BaseArguments /\ EventArguments' = EventArguments
    BY <2>1, LineFrame
  <2> QED
    BY <2>1, <2>2 DEF LineInv, NothingTruncated, stringVars, CommandLineSize
<1>3. CASE FormatApplication
  BY <1>3, ApplicationRoom
<1>4. CASE FormatArgument
  BY <1>4, ArgumentRoom
<1>5. CASE UNCHANGED vars
  <2>1. UNCHANGED <<data, pc, cch, m_bufArguments, nIndex, pwsz, stringVars, bufArgs,
                    written, m_bufCmdLine>>
    BY <1>5 DEF vars, listVars
  <2>2. /\ BaseArguments' = BaseArguments /\ EventArguments' = EventArguments
        /\ \A k : RoomBehind(k)' = RoomBehind(k)
    BY <2>1, LineFrame
  <2> QED
    BY <2>1, <2>2 DEF LineInv, NothingTruncated, stringVars, CommandLineSize
<1> QED
  BY <1>1, <1>2, <1>3, <1>4, <1>5 DEF Next

(* While CProcess writes the command line, the room that is left is more    *)
(* than all arguments to come can take, whatever the registry holds.        *)
THEOREM LineInvariance == Spec => []LineInv
<1>1. Init => LineInv
  BY DEF Init, ListStart, LineInv, NothingTruncated
<1> QED
  BY <1>1, Invariance, LineKept, PTL DEF Spec

(* FormatCommandLine, which reports success when an argument did not fit,   *)
(* never has one that does not: no program is started on half a command.    *)
THEOREM NothingIsTruncated == Spec => []NothingTruncated
<1>1. LineInv => NothingTruncated
  BY DEF LineInv
<1> QED
  BY <1>1, LineInvariance, PTL

-----------------------------------------------------------------------------
(* The arguments that the event processor is registered with                *)

(* FlattenSeq has its sum from CHOOSE; a function that is defined in the    *)
(* same way is that function, or there would be a least place where it is   *)
(* not.                                                                     *)
LEMMA FlattenAs ==
  ASSUME NEW n \in Nat \ {0}, NEW seqs, Len(seqs) = n,
         NEW g,
         g = [i \in 1 .. n |-> IF i = 1 THEN seqs[i] ELSE g[i - 1] \o seqs[i]]
  PROVE  FlattenSeq(seqs) = g[n]
<1> DEFINE Eq(f) ==
             f = [i \in 1 .. Len(seqs) |-> IF i = 1 THEN seqs[i] ELSE f[i - 1] \o seqs[i]]
           F == CHOOSE f : Eq(f)
           S == {i \in 1 .. n : F[i] # g[i]}
           R == OpToRel(<, Nat)
<1>1. Eq(F)
  <2>1. Eq(g)
    OBVIOUS
  <2> HIDE DEF Eq
  <2> QED
    BY <2>1, Zenon
<1>2. FlattenSeq(seqs) = F[n]
  BY DEF FlattenSeq
<1> HIDE DEF F
<1>3. \A i \in 1 .. n :
        /\ F[i] = IF i = 1 THEN seqs[i] ELSE F[i - 1] \o seqs[i]
        /\ g[i] = IF i = 1 THEN seqs[i] ELSE g[i - 1] \o seqs[i]
  BY <1>1
<1>4. S = {}
  <2> SUFFICES ASSUME S # {} PROVE FALSE
    OBVIOUS
  <2>1. S \subseteq Nat
    OBVIOUS
  <2>2. \A a, b \in Nat : a < b => <<a, b>> \in R
    BY DEF OpToRel
  <2>3. IsWellFoundedOn(R, Nat)
    BY NatLessThanWellFounded, Zenon
  <2> HIDE DEF R, S, F
  <2>4. PICK i \in S : \A k \in S : ~ (<<k, i>> \in R)
    BY <2>1, <2>3, WFMin
  <2>5. i \in 1 .. n /\ F[i] # g[i]
    BY DEF S
  <2>6. i # 1
    BY <1>3, <2>5
  <2>7. i - 1 \in 1 .. n /\ i - 1 < i /\ i \in Nat /\ i - 1 \in Nat
    BY <2>5, <2>6
  <2>9. i - 1 \notin S
    BY <2>2, <2>4, <2>7
  <2>8. F[i - 1] = g[i - 1]
    BY <2>7, <2>9 DEF S
  <2> QED
    <3>1. F[i] = F[i - 1] \o seqs[i] /\ g[i] = g[i - 1] \o seqs[i]
      BY <1>3, <2>5, <2>6, Zenon
    <3> QED
      BY <2>5, <2>8, <3>1, Zenon
<1>5. n \in 1 .. n
  OBVIOUS
<1> QED
  BY <1>2, <1>4, <1>5

(* The strings that the pointers lead to and their nulls, up to any of them,*)
(* are what the data begins with.                                           *)
LEMMA FlattenBase ==
  ASSUME ListInv, ChainInv, Walked, nIndex > 1
  PROVE  FlattenSeq([i \in DOMAIN BaseArguments |-> BaseArguments[i] \o <<NUL>>])
           = SubSeq(data, 1, pwsz - 1)
<1> DEFINE n == nIndex - 1
           seqs == [i \in DOMAIN BaseArguments |-> BaseArguments[i] \o <<NUL>>]
           g == [i \in 1 .. n |-> SubSeq(data, 1, Place(i + 1) - 1)]
<1>1. /\ n \in Nat \ {0} /\ cch \in 0 .. Len(data)
      /\ data \in Seq(Char) /\ Len(data) \in Nat
  BY Places, StringIsChars DEF ListInv
<1>2. /\ BaseArguments \in Seq(Seq(Char)) /\ DOMAIN BaseArguments = 1 .. n
      /\ Len(seqs) = n
  <2>1. BaseArguments \in Seq(Seq(Char)) /\ Len(BaseArguments) = n
    BY BaseFacts
  <2>2. DOMAIN BaseArguments = 1 .. n
    BY <1>1, <2>1
  <2>3. seqs = [i \in 1 .. n |-> BaseArguments[i] \o <<NUL>>]
    BY <2>2
  <2> QED
    BY <1>1, <2>1, <2>2, <2>3
<1>3. ASSUME NEW i \in 1 .. n
      PROVE  /\ Place(i) \in 1 .. Len(data) /\ Place(i + 1) \in 1 .. Len(data)
             /\ Place(i + 1) >= Place(i) + 2
             /\ seqs[i] = SubSeq(data, Place(i), Place(i + 1) - 1)
  <2>1. /\ Place(i) \in 1 .. cch /\ Place(i + 1) \in 1 .. cch
        /\ StringBetween(Place(i), Place(i + 1))
    BY Places
  <2>2. PICK p \in 1 .. Len(data), q \in 1 .. Len(data) :
          p = Place(i) /\ q = Place(i + 1)
    BY <1>1, <2>1
  <2>3. q >= p + 2 /\ m_bufArgData(q - 1) = NUL
    BY <2>1, <2>2 DEF StringBetween
  <2>4. data[q - 1] = NUL
    BY <2>3 DEF m_bufArgData, NUL, Garbage
  <2>5. seqs[i] = SubSeq(data, p, q - 2) \o <<NUL>>
    <3>1. BaseArguments[i] = SubSeq(data, p, q - 2)
      BY <2>2, BaseFacts
    <3> QED
      BY <1>2, <3>1
  <2>6. SubSeq(data, p, q - 1) = SubSeq(data, p, (q - 1) - 1) \o <<data[q - 1]>>
    <3>1. p \in 1 .. Len(data) /\ q - 1 \in p .. Len(data)
      BY <1>1, <2>3
    <3> QED
      BY <1>1, <3>1, SubSeqRecursiveSecond
  <2>7. (q - 1) - 1 = q - 2
    OBVIOUS
  <2> QED
    BY <2>2, <2>3, <2>4, <2>5, <2>6, <2>7
<1> HIDE DEF seqs
<1>4. ASSUME NEW i \in 1 .. n
      PROVE  g[i] = IF i = 1 THEN seqs[i] ELSE g[i - 1] \o seqs[i]
  <2>1. g[i] = SubSeq(data, 1, Place(i + 1) - 1)
    OBVIOUS
  <2>2. CASE i = 1
    <3>1. Place(1) = 1
      BY Places
    <3> QED
      BY <1>3, <2>1, <2>2, <3>1
  <2>3. CASE i # 1
    <3>1. i - 1 \in 1 .. n /\ (i - 1) + 1 = i
      BY <1>1, <2>3
    <3>2. g[i - 1] = SubSeq(data, 1, Place(i) - 1)
      BY <3>1
    <3>3. PICK k \in 0 .. Len(data), m \in 0 .. Len(data) :
            k = Place(i) - 1 /\ m = Place(i + 1) - 1 /\ k <= m
      <4>1. PICK p \in 1 .. Len(data), q \in 1 .. Len(data) :
              p = Place(i) /\ q = Place(i + 1) /\ q >= p + 2
        BY <1>3
      <4>2. p - 1 \in 0 .. Len(data) /\ q - 1 \in 0 .. Len(data) /\ p - 1 <= q - 1
        BY <1>1, <4>1
      <4> QED
        BY <4>1, <4>2
    <3>4. SubSeq(data, 1, k) \o SubSeq(data, k + 1, m) = SubSeq(data, 1, m)
      <4>1. /\ 1 \in 1 .. Len(data) + 1 /\ k \in 1 - 1 .. Len(data)
            /\ m \in k .. Len(data)
        BY <1>1, <3>3
      <4> QED
        BY <1>1, <4>1, ConcatAdjacentSubSeq
    <3>5. k + 1 = Place(i)
      BY <1>3, <3>3
    <3> QED
      BY <1>3, <2>1, <2>3, <3>2, <3>3, <3>4, <3>5
  <2> QED
    BY <2>2, <2>3
<1>5. g = [i \in 1 .. n |-> IF i = 1 THEN seqs[i] ELSE g[i - 1] \o seqs[i]]
  BY <1>4
<1>6. g[n] = SubSeq(data, 1, pwsz - 1)
  <2>1. n \in 1 .. n /\ n + 1 = nIndex
    <3>1. nIndex \in Nat \ {0}
      BY Places
    <3> QED
      BY <1>1, <3>1
  <2>2. Place(n + 1) = pwsz
    BY <2>1, Places
  <2>3. g[n] = SubSeq(data, 1, Place(n + 1) - 1)
    BY <2>1
  <2> QED
    BY <2>2, <2>3
<1> HIDE DEF n, g
<1>7. FlattenSeq(seqs) = g[n]
  <2>1. n \in Nat \ {0} /\ Len(seqs) = n
    BY <1>1, <1>2
  <2> QED
    BY <1>5, <2>1, FlattenAs, ZenonT(60)
<1> QED
  BY <1>6, <1>7 DEF seqs

LEMMA Registered ==
  ASSUME ListInv, ChainInv, LineInv, pc = "application", m_bufArguments # <<>>
  PROVE  ArgumentsAreRegistered
<1> DEFINE base == SubSeq(bufArgs, 1, Len(bufArgs) - 7)
           list == FlattenSeq([i \in DOMAIN base |-> base[i] \o <<NUL>>])
<1>1. Walked
  BY DEF Walked
<1>2. /\ BaseArguments \in Seq(Seq(Char)) /\ Len(BaseArguments) = nIndex - 1
      /\ EventArguments \in Seq(Seq(Char)) /\ Len(EventArguments) = 7
      /\ bufArgs = BaseArguments \o EventArguments
      /\ nIndex \in Nat \ {0}
  BY <1>1, BaseFacts, EventFacts, StringFacts, Places DEF LineInv
<1>3. nIndex > 1
  BY <1>1, <1>2, Places
<1>4. base = BaseArguments
  <2>1. /\ BaseArguments \in Seq(Seq(Char)) /\ EventArguments \in Seq(Seq(Char))
        /\ bufArgs = BaseArguments \o EventArguments
    BY <1>2
  <2>2. Len(bufArgs) = Len(BaseArguments) + Len(EventArguments)
    BY <2>1, JoinedLists
  <2>3. Len(bufArgs) - 7 = Len(BaseArguments) /\ Len(BaseArguments) \in Nat \ {0}
    BY <1>2, <1>3, <2>2
  <2>4. PICK m \in Nat : m = Len(BaseArguments) /\ m \in 1 .. m /\ 1 \in 1 .. m
    BY <2>3
  <2>5. SubSeq(bufArgs, 1, m) = SubSeq(BaseArguments, 1, m)
    BY <2>1, <2>4, SubSeqOfConcat1
  <2>6. SubSeq(BaseArguments, 1, m) = BaseArguments
    BY <2>1, <2>4, SubSeqFull
  <2> QED
    BY <2>3, <2>4, <2>5, <2>6
<1>5. <<>> \notin Range(BaseArguments)
  <2>1. \A k \in 1 .. nIndex - 1 : Len(BaseArguments[k]) # 0
    BY <1>1, BaseFacts
  <2>2. DOMAIN BaseArguments = 1 .. nIndex - 1
    BY <1>2
  <2> QED
    BY <2>1, <2>2 DEF Range
<1>6. IsPrefix(Append(SubSeq(data, 1, pwsz - 1), NUL), data)
  <2>1. /\ pwsz \in 1 .. Len(data) /\ pwsz \in 1 .. cch
        /\ data \in Seq(Char) /\ Len(data) \in Nat
    BY <1>1, <1>3, Places, StringIsChars DEF ListInv
  <2>2. data[pwsz] = NUL
    <3>1. m_bufArgData(pwsz) = NUL
      BY <1>3 DEF ChainInv
    <3> QED
      BY <2>1, <3>1 DEF m_bufArgData
  <2>3. SubSeq(data, 1, pwsz) = SubSeq(data, 1, pwsz - 1) \o <<NUL>>
    <3>1. 1 \in 1 .. Len(data) /\ pwsz \in 1 .. Len(data)
      BY <2>1
    <3> QED
      BY <2>1, <2>2, <3>1, SubSeqRecursiveSecond
  <2>4. SubSeq(data, 1, pwsz - 1) \in Seq(Char) /\ NUL \in Char
    <3>1. pwsz - 1 \in Int /\ 1 <= (pwsz - 1) + 1 /\ pwsz - 1 <= Len(data)
      BY <2>1
    <3> QED
      BY <2>1, <3>1, PartOf DEF Char
  <2>5. Append(SubSeq(data, 1, pwsz - 1), NUL) = SubSeq(data, 1, pwsz)
    BY <2>3, <2>4, AppendIsConcat
  <2>6. Len(SubSeq(data, 1, pwsz)) = pwsz /\ pwsz <= Len(data)
    <3>1. pwsz \in Int /\ 1 <= pwsz + 1 /\ pwsz <= Len(data) /\ pwsz - 1 + 1 = pwsz
      BY <2>1
    <3> QED
      BY <2>1, <3>1, PartOf
  <2>7. SubSeq(SubSeq(data, 1, pwsz), 1, pwsz) = SubSeq(data, 1, pwsz)
    <3>1. SubSeq(data, 1, pwsz) \in Seq(Char)
      <4>1. pwsz \in Int /\ 1 <= pwsz + 1 /\ pwsz <= Len(data)
        BY <2>1
      <4> QED
        BY <2>1, <4>1, PartOf
    <3> QED
      BY <2>6, <3>1, SubSeqFull
  <2> QED
    BY <2>5, <2>6, <2>7 DEF IsPrefix
<1>7. FlattenSeq([i \in DOMAIN BaseArguments |-> BaseArguments[i] \o <<NUL>>])
        = SubSeq(data, 1, pwsz - 1)
  BY <1>1, <1>3, FlattenBase
<1>8. list = SubSeq(data, 1, pwsz - 1)
  BY <1>4, <1>7
<1> HIDE DEF base, list
<1>9. <<>> \notin Range(base) /\ IsPrefix(Append(list, NUL), data)
  BY <1>4, <1>5, <1>6, <1>8
<1> QED
  BY <1>9 DEF ArgumentsAreRegistered, base, list

(* The arguments are what the registry holds, read as a list: every string  *)
(* of it up to the first empty one, whole and in its order, and nothing     *)
(* else before those of the event.                                          *)
THEOREM RegisteredArguments == Spec => []ArgumentsAreRegistered
<1>1. WalkInv /\ LineInv => ArgumentsAreRegistered
  <2> SUFFICES ASSUME WalkInv, LineInv, pc = "application" /\ m_bufArguments # <<>>
               PROVE  ArgumentsAreRegistered
    BY DEF ArgumentsAreRegistered
  <2> QED
    BY Registered DEF WalkInv
<1> QED
  BY <1>1, Invariance, LineInvariance, PTL

=============================================================================
