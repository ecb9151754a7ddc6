----------------------------- MODULE ArgumentList -----------------------------
(***************************************************************************)
(* How CEventProcessorConfig::Init (EventProcessorConfig.cpp) takes the    *)
(* registered arguments apart: a REG_MULTI_SZ, strings one after the other *)
(* that each end in a null, with an empty string as the last one.  The     *)
(* walk is done twice, to count the strings and to store pointers to them; *)
(* a pointer is a position in m_bufArgData here.                           *)
(***************************************************************************)
EXTENDS Integers, Sequences, FiniteSets

CONSTANT BufferLength  \* g_cbRegValueBuffer, in characters

ASSUME BufferAssumption == BufferLength \in Nat \ {0, 1}

NUL == "NUL"

(* What uninitialized memory holds, for all that the code knows.            *)
Garbage == "garbage"

VARIABLES
  data,            \* the registry value Arguments
  pc, hr,
  cch,             \* how much of m_bufArgData has been filled from data
  cArgs,
  m_bufArguments,  \* positions in m_bufArgData; 0: not stored yet
  nIndex,
  pwsz, cchMax     \* the walk: where it is and how much should be left

listVars == <<data, pc, hr, cch, cArgs, m_bufArguments, nIndex, pwsz, cchMax>>

(* The state of Init when it comes to query Arguments.                      *)
ListStart ==
  /\ pc = "query"
  /\ hr = "S_OK"
  /\ cch = 0
  /\ cArgs = 0
  /\ m_bufArguments = <<>>
  /\ nIndex = 1
  /\ pwsz = 1
  /\ cchMax = 0

m_bufArgData(i) == IF i \in 1 .. cch THEN data[i] ELSE Garbage

-----------------------------------------------------------------------------
(* A mistake: to read Arguments as Init reads ExePath, which tells nothing  *)
(* of how the data ends.                                                    *)
RawQueryValue(d) == Len(d) <= BufferLength

(* CRegKey::QueryMultiStringValue turns down what does not fit the buffer   *)
(* and what does not end as a list does.                                    *)
QueryMultiStringValue(d) ==
  /\ Len(d) \in 1 .. BufferLength
  /\ d[Len(d)] = NUL
  /\ Len(d) > 1 => d[Len(d) - 1] = NUL

(* Arguments are optional.                                                  *)
QueryArguments ==
  /\ pc = "query"
  /\ \/ /\ QueryMultiStringValue(data)
        /\ cch' = Len(data)
        /\ cchMax' = Len(data)
        /\ pc' = "count"
     \/ pc' = "build" /\ UNCHANGED <<cch, cchMax>>
  /\ UNCHANGED <<data, hr, cArgs, m_bufArguments, nIndex, pwsz>>

(* StringCchLengthW: the lengths of a string at i, if it ends within max.   *)
StringCchLength(i, max) ==
  {n \in 0 .. max - 1 :
     /\ m_bufArgData(i + n) = NUL
     /\ \A k \in 0 .. n - 1 : m_bufArgData(i + k) # NUL}

(* One turn of either loop: past a string, or out of the loop at the empty  *)
(* string, or, with a failure, at one that does not end.                    *)
AtString == m_bufArgData(pwsz) # NUL

(* A mistake: to stop at the null instead of behind it.                     *)
PastStringShort ==
  \E n \in StringCchLength(pwsz, cchMax) :
    /\ pwsz' = pwsz + n
    /\ cchMax' = cchMax - n
    /\ hr' = "S_OK"

PastString ==
  \E n \in StringCchLength(pwsz, cchMax) :
    /\ pwsz' = pwsz + n + 1
    /\ cchMax' = cchMax - (n + 1)
    /\ hr' = "S_OK"

NoEnd ==
  /\ StringCchLength(pwsz, cchMax) = {}
  /\ hr' = "STRSAFE_E_INVALID_PARAMETER"
  /\ UNCHANGED <<pwsz, cchMax>>

(* A mistake: to count a string when the next one is looked at, which does  *)
(* not happen for the last one.                                             *)
CountArgumentLate ==
  /\ pc = "count"
  /\ \/ AtString /\ PastString /\ cArgs' = (IF pwsz = 1 THEN 0 ELSE cArgs + 1)
        /\ pc' = pc
     \/ ~ AtString /\ pc' = "alloc" /\ UNCHANGED <<hr, cArgs, pwsz, cchMax>>
  /\ UNCHANGED <<data, cch, m_bufArguments, nIndex>>

CountArgument ==
  /\ pc = "count"
  /\ \/ AtString /\ PastString /\ cArgs' = cArgs + 1 /\ pc' = pc
     \/ AtString /\ NoEnd /\ pc' = "alloc" /\ UNCHANGED cArgs
     \/ ~ AtString /\ pc' = "alloc" /\ UNCHANGED <<hr, cArgs, pwsz, cchMax>>
  /\ UNCHANGED <<data, cch, m_bufArguments, nIndex>>

(* A mistake: to forget that the second walk starts with all that is left.  *)
AllocArgumentsNoReset ==
  /\ pc = "alloc"
  /\ m_bufArguments' = [i \in 1 .. cArgs |-> 0]
  /\ pwsz' = 1
  /\ pc' = "store"
  /\ UNCHANGED <<data, hr, cch, cArgs, nIndex, cchMax>>

AllocArguments ==
  /\ pc = "alloc"
  /\ m_bufArguments' = [i \in 1 .. cArgs |-> 0]
  /\ pwsz' = 1
  /\ cchMax' = cch
  /\ pc' = "store"
  /\ UNCHANGED <<data, hr, cch, cArgs, nIndex>>

StoreArgument ==
  /\ pc = "store"
  /\ \/ /\ AtString /\ PastString
        /\ m_bufArguments' = [m_bufArguments EXCEPT ![nIndex] = pwsz]
        /\ nIndex' = nIndex + 1
        /\ pc' = pc
     \/ /\ AtString /\ NoEnd
        /\ pc' = "failed"
        /\ UNCHANGED <<m_bufArguments, nIndex>>
     \/ /\ ~ AtString
        /\ pc' = IF hr = "S_OK" THEN "build" ELSE "failed"
        /\ UNCHANGED <<hr, m_bufArguments, nIndex, pwsz, cchMax>>
  /\ UNCHANGED <<data, cch, cArgs>>

ListNext == QueryArguments \/ CountArgument \/ AllocArguments \/ StoreArgument

(* The string that a pointer points to.                                     *)
CString(i) ==
  LET n == CHOOSE n \in StringCchLength(i, cch - i + 1) : TRUE
  IN  SubSeq(data, i, i + n - 1)

BaseArguments == [i \in DOMAIN m_bufArguments |-> CString(m_bufArguments[i])]

-----------------------------------------------------------------------------
(* The loops test for the empty string before they test what is left, so it *)
(* is the end of the data that keeps them inside: they never look at a      *)
(* character that the query did not fill in, and what they take to be left  *)
(* is.                                                                      *)
WalkStaysInside ==
  pc \in {"count", "store"} => pwsz \in 1 .. cch /\ cchMax = cch - pwsz + 1

(* The second loop does not test the room that the first one's count made:  *)
(* it never finds one string more, and leaves no pointer out.               *)
RoomForEach ==
  /\ (pc = "store" /\ AtString) => nIndex \in DOMAIN m_bufArguments
  /\ pc = "build" => \A i \in DOMAIN m_bufArguments : m_bufArguments[i] # 0

(* WalkStaysInside, as induction needs it.                                  *)
ListInv ==
  /\ data \in Seq(STRING)
  /\ cch \in 0 .. Len(data) /\ cch <= BufferLength
  /\ cch > 0 => data[cch] = NUL
  /\ cch > 1 => data[cch - 1] = NUL
  /\ pc = "query" => pwsz = 1
  /\ pc = "alloc" => cch > 0
  /\ WalkStaysInside

(* A string can begin at p, and the strings that begin before p.            *)
AtStart(p) == p = 1 \/ m_bufArgData(p - 1) = NUL
Starts(p) == {i \in 1 .. p - 1 : m_bufArgData(i) # NUL /\ AtStart(i)}

(* The walk is over at the first empty string, and not before it.           *)
EmptyAt(p) == p \in 1 .. cch /\ m_bufArgData(p) = NUL /\ AtStart(p)
NotOver(p) == AtStart(p) /\ \A i \in 1 .. p - 1 : ~ EmptyAt(i)

(* Both walks count the strings that begin before the place they are at, so *)
(* the second one has less behind it than the first one counted.            *)
RoomInv ==
  /\ pc \in {"query", "count", "alloc"} => nIndex = 1
  /\ pc = "query" => cArgs = 0
  /\ pc \in {"query", "count", "alloc"} => m_bufArguments = <<>>
  /\ pc = "count" => NotOver(pwsz) /\ cArgs = Cardinality(Starts(pwsz))
  /\ pc \in {"alloc", "store"} =>
       \E e \in 1 .. cch :
         EmptyAt(e) /\ NotOver(e) /\ cArgs = Cardinality(Starts(e))
  /\ pc = "store" =>
       /\ DOMAIN m_bufArguments = 1 .. cArgs
       /\ NotOver(pwsz)
       /\ nIndex = Cardinality(Starts(pwsz)) + 1
       /\ \A i \in 1 .. nIndex - 1 : m_bufArguments[i] # 0
  /\ pc = "build" => \A i \in DOMAIN m_bufArguments : m_bufArguments[i] # 0

(* Where the k-th string begins; behind the last stored one, the next one   *)
(* or the end of the list.                                                  *)
Place(k) == IF k < nIndex THEN m_bufArguments[k] ELSE pwsz

(* What lies between two places is one string and its null.                 *)
StringBetween(p, q) ==
  /\ q >= p + 2
  /\ m_bufArgData(q - 1) = NUL
  /\ \A i \in p .. q - 2 : m_bufArgData(i) # NUL

(* The pointers lead through the data without a gap, up to its end.         *)
ChainInv ==
  /\ pc \notin {"query", "count", "alloc"} =>
       /\ nIndex \in Nat \ {0} /\ pwsz \in Nat /\ Place(1) = 1
       /\ \A k \in 1 .. nIndex - 1 :
            Place(k) \in 1 .. pwsz /\ StringBetween(Place(k), Place(k + 1))
  /\ pc \notin {"query", "count", "alloc", "store", "failed"} =>
       /\ DOMAIN m_bufArguments = 1 .. nIndex - 1
       /\ nIndex > 1 => m_bufArgData(pwsz) = NUL

WalkInv == ListInv /\ RoomInv /\ ChainInv
=============================================================================
