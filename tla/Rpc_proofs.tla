----------------------------- MODULE Rpc_proofs -----------------------------
(* Proofs about Rpc: the inductive invariant RpcInv, and from it what the   *)
(* callers of a handle may rely on.                                         *)
EXTENDS Rpc, SequenceTheorems, FiniteSetTheorems, TLAPS

-----------------------------------------------------------------------------
(* Sequences: what their ranges are after each way they change. *)

\* The first element and the others.
LEMMA RangeOfTail ==
  ASSUME NEW S, NEW s \in Seq(S), s # <<>>
  PROVE  /\ Len(s) \in Nat /\ Len(s) >= 1 /\ s[1] \in S /\ Head(s) = s[1]
         /\ Tail(s) \in Seq(S) /\ Len(Tail(s)) = Len(s) - 1
         /\ \A i \in 1..Len(Tail(s)) : Tail(s)[i] = s[i + 1]
         /\ Range(s) = {s[1]} \cup Range(Tail(s))
<1>1. /\ Len(s) \in Nat /\ Len(s) >= 1 /\ s[1] \in S /\ Head(s) = s[1]
      /\ Tail(s) \in Seq(S) /\ Len(Tail(s)) = Len(s) - 1
      /\ \A i \in 1..Len(Tail(s)) : Tail(s)[i] = s[i + 1]
  BY HeadTailProperties, EmptySeq, ElementOfSeq, LenProperties
<1>2. Range(s) = {s[i] : i \in 1..Len(s)} /\ Range(Tail(s)) = {Tail(s)[i] : i \in 1..Len(Tail(s))}
  BY <1>1, RangeEquality
<1>3. \A i \in 1..Len(s) : i = 1 \/ (i - 1 \in 1..Len(Tail(s)) /\ Tail(s)[i - 1] = s[i])
  BY <1>1
<1>4. \A i \in 1..Len(Tail(s)) : i + 1 \in 1..Len(s) /\ 1 \in 1..Len(s)
  BY <1>1
<1>5. 1 \in 1..Len(s)
  BY <1>1
<1>6. ASSUME NEW x \in Range(s) PROVE x = s[1] \/ x \in Range(Tail(s))
  <2>1. PICK i \in 1..Len(s) : x = s[i]
    BY <1>2
  <2>2. i = 1 \/ (i - 1 \in 1..Len(Tail(s)) /\ Tail(s)[i - 1] = x)
    BY <1>3, <2>1
  <2>3. QED
    BY <1>2, <2>1, <2>2
<1>7. ASSUME NEW x \in Range(Tail(s)) PROVE x \in Range(s)
  <2>1. PICK i \in 1..Len(Tail(s)) : x = Tail(s)[i]
    BY <1>2
  <2>2. QED
    BY <1>1, <1>2, <1>4, <2>1
<1>8. QED
  BY <1>1, <1>2, <1>5, <1>6, <1>7

\* One more at the end.
LEMMA RangeOfAppend ==
  ASSUME NEW S, NEW s \in Seq(S), NEW e \in S
  PROVE  /\ Append(s, e) \in Seq(S) /\ Len(Append(s, e)) = Len(s) + 1
         /\ \A i \in 1..Len(s) : Append(s, e)[i] = s[i]
         /\ Append(s, e)[Len(s) + 1] = e
         /\ Range(Append(s, e)) = Range(s) \cup {e}
<1>1. /\ Append(s, e) \in Seq(S) /\ Len(Append(s, e)) = Len(s) + 1 /\ Len(s) \in Nat
      /\ \A i \in 1..Len(s) : Append(s, e)[i] = s[i]
      /\ Append(s, e)[Len(s) + 1] = e
  BY AppendProperties, LenProperties
<1>2. Range(s) = {s[i] : i \in 1..Len(s)} /\ Range(Append(s, e)) = {Append(s, e)[i] : i \in 1..(Len(s) + 1)}
  BY <1>1, RangeEquality
<1>3. 1..(Len(s) + 1) = 1..Len(s) \cup {Len(s) + 1}
  BY <1>1
<1>4. QED
  BY <1>1, <1>2, <1>3

\* A sequence without repetitions stays one when it grows by something new.
LEMMA AppendOnce ==
  ASSUME NEW S, NEW s \in Seq(S), NEW e \in S, IsInjective(s), e \notin Range(s)
  PROVE  IsInjective(Append(s, e))
<1>1. DOMAIN s = 1..Len(s) /\ Len(s) \in Nat /\ DOMAIN Append(s, e) = 1..(Len(s) + 1)
  BY RangeOfAppend, LenProperties
<1>2. \A i \in 1..Len(s) : Append(s, e)[i] = s[i] /\ s[i] # e
  BY <1>1, RangeOfAppend, RangeEquality
<1>3. QED
  BY <1>1, <1>2, RangeOfAppend DEF IsInjective

\* Without(s, f) of a sequence without repetitions is the others, each once.
LEMMA WithoutOne ==
  ASSUME NEW S, NEW s \in Seq(S), IsInjective(s), NEW f
  PROVE  /\ Without(s, f) \in Seq(S) /\ IsInjective(Without(s, f))
         /\ Range(Without(s, f)) = Range(s) \ {f}
<1>0. DOMAIN s = 1..Len(s) /\ Len(s) \in Nat /\ Range(s) = {s[i] : i \in 1..Len(s)}
  BY LenProperties, RangeEquality
<1>1. CASE f \notin Range(s)
  BY <1>1 DEF Without
<1>2. CASE f \in Range(s)
  <2> DEFINE k == CHOOSE i \in DOMAIN s : s[i] = f
             w == RemoveAt(s, k)
  <2>1. k \in 1..Len(s) /\ s[k] = f
    BY <1>0, <1>2
  <2>2. Without(s, f) = w
    BY <1>2 DEF Without
  <2> HIDE DEF k
  <2>3. /\ SubSeq(s, 1, k - 1) \in Seq(S) /\ Len(SubSeq(s, 1, k - 1)) = k - 1
        /\ \A i \in 1..(k - 1) : SubSeq(s, 1, k - 1)[i] = s[i]
    <3>1. \A i \in 1..(k - 1) : s[i] \in S
      BY <2>1, <1>0, ElementOfSeq
    <3>2. QED
      BY <3>1, <2>1, <1>0, SubSeqProperties
  <2>4. /\ SubSeq(s, k + 1, Len(s)) \in Seq(S) /\ Len(SubSeq(s, k + 1, Len(s))) = Len(s) - k
        /\ \A i \in 1..(Len(s) - k) : SubSeq(s, k + 1, Len(s))[i] = s[k + i]
    <3>1. \A i \in (k + 1)..Len(s) : s[i] \in S
      BY <2>1, <1>0, ElementOfSeq
    <3>2. k + 1 \in Int /\ Len(s) \in Int
      BY <2>1, <1>0
    <3>3. /\ SubSeq(s, k + 1, Len(s)) \in Seq(S)
          /\ Len(SubSeq(s, k + 1, Len(s))) = IF k + 1 <= Len(s) THEN Len(s) - (k + 1) + 1 ELSE 0
          /\ \A i \in 1..(Len(s) - (k + 1) + 1) : SubSeq(s, k + 1, Len(s))[i] = s[(k + 1) + i - 1]
      BY <3>1, <3>2, SubSeqProperties
    <3> DEFINE n == Len(s)
    <3>0. n \in Nat /\ k \in Nat /\ k <= n
      BY <2>1, <1>0
    <3> HIDE DEF n
    <3>4. (k + 1 <= n => n - (k + 1) + 1 = n - k) /\ (~(k + 1 <= n) => n - k = 0)
      BY <3>0
    <3>5. ASSUME NEW i \in 1..(Len(s) - k) PROVE i \in 1..(Len(s) - (k + 1) + 1) /\ (k + 1) + i - 1 = k + i
      BY <2>1, <1>0
    <3>6. \A i \in 1..(Len(s) - k) : SubSeq(s, k + 1, Len(s))[i] = s[k + i]
      BY <3>3, <3>5
    <3>7. QED
      BY <3>3, <3>4, <3>6 DEF n
  <2>5. /\ w \in Seq(S) /\ Len(w) = Len(s) - 1
        /\ \A i \in 1..(Len(s) - 1) : w[i] = IF i < k THEN s[i] ELSE s[i + 1]
    <3> DEFINE a == SubSeq(s, 1, k - 1)
               b == SubSeq(s, k + 1, Len(s))
    <3>1. w = a \o b
      BY DEF RemoveAt
    <3>2. /\ a \in Seq(S) /\ b \in Seq(S) /\ Len(a) = k - 1 /\ Len(b) = Len(s) - k
          /\ \A i \in 1..(k - 1) : a[i] = s[i]
          /\ \A i \in 1..(Len(s) - k) : b[i] = s[k + i]
      BY <2>3, <2>4
    <3> HIDE DEF a, b, w
    <3>3. /\ w \in Seq(S) /\ Len(w) = Len(s) - 1
          /\ \A i \in 1..(Len(s) - 1) : w[i] = IF i <= k - 1 THEN a[i] ELSE b[i - (k - 1)]
      <4>1. /\ w \in Seq(S) /\ Len(w) = Len(a) + Len(b)
            /\ \A i \in 1..(Len(a) + Len(b)) : w[i] = IF i <= Len(a) THEN a[i] ELSE b[i - Len(a)]
        BY <3>1, <3>2, ConcatProperties
      <4>2. (k - 1) + (Len(s) - k) = Len(s) - 1
        BY <2>1, <1>0
      <4>3. QED
        BY <4>1, <4>2, <3>2
    <3>4. ASSUME NEW i \in 1..(Len(s) - 1) PROVE w[i] = IF i < k THEN s[i] ELSE s[i + 1]
      <4>1. CASE i < k
        BY <4>1, <3>2, <3>3, <2>1, <1>0
      <4>2. CASE ~(i < k)
        <5>1. i - (k - 1) \in 1..(Len(s) - k) /\ k + (i - (k - 1)) = i + 1 /\ ~(i <= k - 1)
          BY <4>2, <2>1, <1>0
        <5>2. QED
          BY <5>1, <4>2, <3>2, <3>3
      <4>3. QED
        BY <4>1, <4>2
    <3>5. QED
      BY <3>3, <3>4
  <2> HIDE DEF w
  <2>6. DOMAIN w = 1..(Len(s) - 1) /\ Range(w) = {w[i] : i \in 1..(Len(s) - 1)}
    BY <2>5, LenProperties, RangeEquality
  <2>7. IsInjective(w)
    BY <2>1, <2>5, <2>6, <1>0 DEF IsInjective
  <2>8. \A i \in 1..(Len(s) - 1) : w[i] \in Range(s) /\ w[i] # f
    <3>1. TAKE i \in 1..(Len(s) - 1)
    <3>2. i \in 1..Len(s) /\ i + 1 \in 1..Len(s) /\ (i < k => i # k) /\ (~(i < k) => i + 1 # k)
      BY <2>1, <1>0
    <3>3. QED
      BY <3>2, <2>1, <2>5, <1>0 DEF IsInjective
  <2>9. \A i \in 1..Len(s) : s[i] # f => \E j \in 1..(Len(s) - 1) : w[j] = s[i]
    <3>1. TAKE i \in 1..Len(s)
    <3>2. HAVE s[i] # f
    <3>3. CASE i < k
      BY <3>3, <2>1, <2>5, <1>0
    <3>4. CASE i > k
      <4>1. i - 1 \in 1..(Len(s) - 1) /\ ~(i - 1 < k) /\ (i - 1) + 1 = i
        BY <3>4, <2>1, <1>0
      <4>2. QED
        BY <4>1, <2>5
    <3>5. QED
      BY <3>2, <3>3, <3>4, <2>1, <1>0
  <2>10. QED
    BY <2>2, <2>5, <2>6, <2>7, <2>8, <2>9, <1>0
<1>3. QED
  BY <1>1, <1>2

\* The range of a sequence is finite.
LEMMA RangeFinite == ASSUME NEW S, NEW s \in Seq(S) PROVE IsFiniteSet(Range(s))
<1>1. Len(s) \in Nat /\ Range(s) = {s[i] : i \in 1..Len(s)}
  BY LenProperties, RangeEquality
<1>2. IsFiniteSet(1..Len(s))
  BY <1>1, FS_Interval
<1>3. QED
  <2>1. s \in Surjection(1..Len(s), Range(s))
    BY <1>1, LenProperties DEF Surjection
  <2>2. QED
    BY <2>1, <1>2, FS_Surjection

\* Short sequences.
LEMMA ShortSequences ==
  ASSUME NEW S
  PROVE  /\ <<>> \in Seq(S) /\ Range(<<>>) = {} /\ Len(<<>>) = 0
         /\ \A a \in S : <<a>> \in Seq(S) /\ Range(<<a>>) = {a}
         /\ \A a, b \in S : <<a, b>> \in Seq(S) /\ Range(<<a, b>>) = {a, b}
         /\ \A a, b, c \in S : <<a, b, c>> \in Seq(S) /\ Range(<<a, b, c>>) = {a, b, c}
<1>1. <<>> \in Seq(S) /\ Len(<<>>) = 0
  OBVIOUS
<1>2. Range(<<>>) = {}
  BY DEF Range
<1>3. /\ \A a \in S : <<a>> \in Seq(S)
      /\ \A a, b \in S : <<a, b>> \in Seq(S)
      /\ \A a, b, c \in S : <<a, b, c>> \in Seq(S)
  OBVIOUS
<1>4. /\ \A a : Range(<<a>>) = {a}
      /\ \A a, b : Range(<<a, b>>) = {a, b}
      /\ \A a, b, c : Range(<<a, b, c>>) = {a, b, c}
  BY DEF Range
<1>5. QED
  BY <1>1, <1>2, <1>3, <1>4

-----------------------------------------------------------------------------
(* The stack of calls and the reactions behind it. *)

\* What the constants are to each other.
LEMMA Names == /\ "none" \notin Frames /\ Ids \subseteq Frames /\ Dialogs \subseteq Frames
               /\ Ids \cap Dialogs = {} /\ Ids \cup Dialogs = Frames /\ Callers \subseteq Ids
               /\ StopClear \in Ids /\ StopAbort \in Ids /\ StopClear # StopAbort
               /\ StopClear \notin Callers /\ StopAbort \notin Callers
  BY RpcAssumption DEF Frames, Ids, StopIds, StopClear, StopAbort

\* What is left of the stack when its innermost call is taken.
Under == IF sync = <<>> THEN <<>> ELSE Tail(sync)
OneBody(m) == \A i, j \in DOMAIN m : m[i][1] \in Bodies /\ m[j][1] \in Bodies => i = j
\* The reactions after a step are as they must be.
MicroOk == micro' \in Seq(Step) /\ (\A s \in Behind' : s[1] \in Reactions) /\ OneBody(micro')

\* The innermost call and the others.
LEMMA StackShape ==
  ASSUME TypeOK, InvStack
  PROVE  /\ Under \in Seq(Step) /\ Range(Under) = Rest
         /\ sync = <<>> => Rest = {} /\ Range(sync) = {} /\ Under = <<>>
         /\ sync # <<>> => /\ sync[1] \in Step /\ Range(sync) = {sync[1]} \cup Rest /\ Under = Tail(sync)
         /\ \A i \in 1..(Len(Under) - 1) : Under[i][1] # "send"
<1>1. sync \in Seq(Step)
  BY DEF TypeOK
<1>2. CASE sync = <<>>
  BY <1>2, ShortSequences DEF Under, Rest
<1>3. CASE sync # <<>>
  <2>1. /\ Len(sync) \in Nat /\ sync[1] \in Step /\ Tail(sync) \in Seq(Step) /\ Len(Tail(sync)) = Len(sync) - 1
        /\ \A i \in 1..Len(Tail(sync)) : Tail(sync)[i] = sync[i + 1]
        /\ Range(sync) = {sync[1]} \cup Range(Tail(sync))
    BY <1>1, <1>3, RangeOfTail
  <2>2. Under = Tail(sync) /\ Rest = Range(Under)
    BY <1>3 DEF Under, Rest
  <2>3. ASSUME NEW i \in 1..(Len(Under) - 1) PROVE Under[i][1] # "send"
    <3>1. i \in 1..Len(Tail(sync)) /\ i + 1 \in 1..(Len(sync) - 1)
      BY <2>1, <2>2
    <3>2. QED
      BY <3>1, <2>1, <2>2 DEF InvStack
  <2>4. QED
    BY <1>3, <2>1, <2>2, <2>3
<1>4. QED
  BY <1>2, <1>3

\* New calls on top: the stack keeps its order.
LEMMA StackPush ==
  ASSUME TypeOK, InvStack, MicroOk, NEW inner \in Seq(Step), sync' = inner \o Under,
         \A i \in 1..Len(inner) :
           /\ inner[i][1] \notin Reactions
           /\ i > 1 => inner[i][1] # "enqueue" /\ ~(inner[i][1] = "reject" /\ inner[i][3] = "cancelled")
           /\ inner[i][1] = "send" => i = Len(inner) /\ Rest = {}
  PROVE  sync' \in Seq(Step) /\ Range(sync') = Range(inner) \cup Rest /\ InvStack'
<1>1. /\ Under \in Seq(Step) /\ Range(Under) = Rest /\ \A i \in 1..(Len(Under) - 1) : Under[i][1] # "send"
  BY StackShape
<1>2. /\ Len(inner) \in Nat /\ Len(Under) \in Nat
      /\ Range(Under) = {Under[i] : i \in 1..Len(Under)} /\ Range(inner) = {inner[i] : i \in 1..Len(inner)}
  BY <1>1, LenProperties, RangeEquality
<1>3. /\ sync' \in Seq(Step) /\ Len(sync') = Len(inner) + Len(Under)
      /\ \A i \in 1..(Len(inner) + Len(Under)) :
           sync'[i] = IF i <= Len(inner) THEN inner[i] ELSE Under[i - Len(inner)]
  BY <1>1, ConcatProperties
<1>4. Range(sync') = Range(inner) \cup Rest
  BY <1>1, RangeConcatenation
<1>5. ASSUME NEW i \in 1..(Len(inner) + Len(Under)), ~(i <= Len(inner))
      PROVE  i - Len(inner) \in 1..Len(Under) /\ sync'[i] = Under[i - Len(inner)] /\ sync'[i] \in Rest
  BY <1>1, <1>2, <1>3, <1>5
<1>6. \A s \in Rest : s[1] \notin Reactions \cup {"enqueue"} /\ ~(s[1] = "reject" /\ s[3] = "cancelled")
  BY DEF InvStack
<1>7. ASSUME NEW i \in 1..(Len(inner) + Len(Under)), i > 1
      PROVE /\ sync'[i][1] \notin Reactions \cup {"enqueue"}
            /\ ~(sync'[i][1] = "reject" /\ sync'[i][3] = "cancelled")
  <2>1. CASE i <= Len(inner)
    BY <2>1, <1>2, <1>3, <1>7
  <2>2. CASE ~(i <= Len(inner))
    BY <2>2, <1>5, <1>6
  <2>3. QED
    BY <2>1, <2>2
<1>8. \A s \in Rest' : s[1] \notin Reactions \cup {"enqueue"} /\ ~(s[1] = "reject" /\ s[3] = "cancelled")
  <2>1. CASE sync' = <<>>
    BY <2>1 DEF Rest
  <2>2. CASE sync' # <<>>
    <3>1. /\ Tail(sync') \in Seq(Step) /\ Len(Tail(sync')) = Len(sync') - 1
          /\ \A i \in 1..Len(Tail(sync')) : Tail(sync')[i] = sync'[i + 1]
      BY <2>2, <1>3, RangeOfTail
    <3>2. TAKE s \in Rest'
    <3>3. PICK i \in 1..Len(Tail(sync')) : s = Tail(sync')[i]
      <4>1. s \in Range(Tail(sync'))
        BY <2>2 DEF Rest
      <4>2. Range(Tail(sync')) = {Tail(sync')[i] : i \in 1..Len(Tail(sync'))}
        BY <3>1, RangeEquality
      <4>3. QED
        BY <4>1, <4>2
    <3>4. i + 1 \in 1..(Len(inner) + Len(Under)) /\ i + 1 > 1 /\ s = sync'[i + 1]
      BY <3>1, <3>3, <1>2, <1>3
    <3>5. QED
      BY <3>4, <1>7
  <2>3. QED
    BY <2>1, <2>2
<1>9. ASSUME NEW i \in 1..(Len(sync') - 1) PROVE sync'[i][1] # "send"
  <2>1. CASE i <= Len(inner)
    <3>1. i \in 1..Len(inner) /\ sync'[i] = inner[i] /\ (i = Len(inner) => Len(Under) # 0)
      BY <2>1, <1>2, <1>3
    <3>2. Len(Under) # 0 => Rest # {}
      BY <1>1, <1>2
    <3>3. QED
      BY <3>1, <3>2
  <2>2. CASE ~(i <= Len(inner))
    <3>1. i \in 1..(Len(inner) + Len(Under)) /\ i - Len(inner) \in 1..(Len(Under) - 1)
      BY <2>2, <1>2, <1>3
    <3>2. QED
      BY <3>1, <2>2, <1>1, <1>5
  <2>3. QED
    BY <2>1, <2>2
<1>10. ASSUME sync' # <<>> PROVE sync'[1][1] \notin Bodies
  <2>1. 1 \in 1..Len(sync')
    BY <1>10, <1>3, EmptySeq
  <2>2. CASE 1 <= Len(inner)
    BY <2>1, <2>2, <1>2, <1>3 DEF Reactions
  <2>3. CASE ~(1 <= Len(inner))
    BY <2>1, <2>3, <1>3, <1>5, <1>6 DEF Reactions
  <2>4. QED
    BY <2>2, <2>3, <1>2
<1>11. OneBody(micro') /\ \A s \in Behind' : s[1] \in Reactions
  BY DEF MicroOk
<1>12. QED
  BY <1>3, <1>4, <1>8, <1>9, <1>10, <1>11 DEF InvStack, OneBody

\* A call ends.
LEMMA PushNone ==
  ASSUME TypeOK, InvStack, MicroOk, sync' = Under
  PROVE  sync' \in Seq(Step) /\ Range(sync') = Rest /\ InvStack'
<1>1. Under \in Seq(Step)
  BY StackShape
<1>2. <<>> \in Seq(Step) /\ Range(<<>>) = {} /\ Len(<<>>) = 0
  BY ShortSequences
<1>3. sync' = <<>> \o Under
  BY <1>1, ConcatEmptySeq
<1> DEFINE inner == <<>>
<1>4. inner \in Seq(Step) /\ Range(inner) = {} /\ Len(inner) = 0 /\ sync' = inner \o Under
  BY <1>2, <1>3
<1> HIDE DEF inner
<1>5. \A i \in 1..Len(inner) : FALSE
  BY <1>4
<1>6. QED
  BY <1>4, <1>5, StackPush

\* A call goes on with another.
LEMMA PushOne ==
  ASSUME TypeOK, InvStack, MicroOk, NEW x \in Step, x[1] \notin Reactions, x[1] = "send" => Rest = {},
         sync' = <<x>> \o Under \/ (sync = <<>> /\ sync' = <<x>>)
  PROVE  sync' \in Seq(Step) /\ Range(sync') = {x} \cup Rest /\ InvStack'
<1>1. <<x>> \in Seq(Step) /\ Range(<<x>>) = {x} /\ Len(<<x>>) = 1 /\ <<x>>[1] = x
  BY ShortSequences
<1>2. sync' = <<x>> \o Under
  BY <1>1, StackShape, ConcatEmptySeq
<1> DEFINE inner == <<x>>
<1>3. \A i \in 1..Len(inner) : i = 1 /\ inner[i] = x
  BY <1>1
<1> HIDE DEF inner
<1>4. inner \in Seq(Step) /\ Range(inner) = {x} /\ Len(inner) = 1 /\ sync' = inner \o Under
  BY <1>1, <1>2 DEF inner
<1>5. QED
  BY <1>3, <1>4, StackPush

\* A call goes on with two others.
LEMMA PushTwo ==
  ASSUME TypeOK, InvStack, MicroOk, NEW x \in Step, NEW y \in Step,
         x[1] \notin Reactions \cup {"send"}, y[1] \notin Reactions \cup {"send", "enqueue"},
         ~(y[1] = "reject" /\ y[3] = "cancelled"),
         sync' = <<x, y>> \o Under \/ (sync = <<>> /\ sync' = <<x, y>>)
  PROVE  sync' \in Seq(Step) /\ Range(sync') = {x, y} \cup Rest /\ InvStack'
<1>1. /\ <<x, y>> \in Seq(Step) /\ Range(<<x, y>>) = {x, y}
      /\ Len(<<x, y>>) = 2 /\ <<x, y>>[1] = x /\ <<x, y>>[2] = y
  BY ShortSequences
<1>2. sync' = <<x, y>> \o Under
  BY <1>1, StackShape, ConcatEmptySeq
<1> DEFINE inner == <<x, y>>
<1>3. \A i \in 1..Len(inner) : (i = 1 /\ inner[i] = x) \/ (i = 2 /\ inner[i] = y)
  BY <1>1
<1> HIDE DEF inner
<1>4. inner \in Seq(Step) /\ Range(inner) = {x, y} /\ Len(inner) = 2 /\ sync' = inner \o Under
  BY <1>1, <1>2 DEF inner
<1>5. QED
  BY <1>3, <1>4, StackPush

\* A call goes on with three others.
LEMMA PushThree ==
  ASSUME TypeOK, InvStack, MicroOk, NEW x \in Step, NEW y \in Step, NEW z \in Step,
         x[1] \notin Reactions \cup {"send"}, y[1] \notin Reactions \cup {"send", "enqueue", "reject"},
         z[1] \notin Reactions \cup {"enqueue", "reject"}, z[1] = "send" => Rest = {},
         sync' = <<x, y, z>> \o Under \/ (sync = <<>> /\ sync' = <<x, y, z>>)
  PROVE  sync' \in Seq(Step) /\ Range(sync') = {x, y, z} \cup Rest /\ InvStack'
<1>1. /\ <<x, y, z>> \in Seq(Step) /\ Range(<<x, y, z>>) = {x, y, z}
      /\ Len(<<x, y, z>>) = 3 /\ <<x, y, z>>[1] = x /\ <<x, y, z>>[2] = y /\ <<x, y, z>>[3] = z
  BY ShortSequences
<1>2. sync' = <<x, y, z>> \o Under
  BY <1>1, StackShape, ConcatEmptySeq
<1> DEFINE inner == <<x, y, z>>
<1>3. \A i \in 1..Len(inner) : (i = 1 /\ inner[i] = x) \/ (i = 2 /\ inner[i] = y) \/ (i = 3 /\ inner[i] = z)
  BY <1>1
<1> HIDE DEF inner
<1>4. inner \in Seq(Step) /\ Range(inner) = {x, y, z} /\ Len(inner) = 3 /\ sync' = inner \o Under
  BY <1>1, <1>2 DEF inner
<1>5. ASSUME NEW i \in 1..Len(inner)
      PROVE  /\ inner[i][1] \notin Reactions
             /\ i > 1 => inner[i][1] # "enqueue" /\ ~(inner[i][1] = "reject" /\ inner[i][3] = "cancelled")
             /\ inner[i][1] = "send" => i = Len(inner) /\ Rest = {}
  <2>1. CASE i = 1 /\ inner[i] = x
    BY <2>1
  <2>2. CASE i = 2 /\ inner[i] = y
    BY <2>2
  <2>3. CASE i = 3 /\ inner[i] = z
    BY <2>3, <1>4
  <2>4. QED
    BY <2>1, <2>2, <2>3, <1>3
<1>6. QED
  BY <1>4, <1>5, StackPush

\* The reactions stay as they were.
LEMMA MicroSame == ASSUME TypeOK, InvStack, micro' = micro PROVE MicroOk /\ Behind' = Behind
  BY DEF TypeOK, InvStack, MicroOk, Behind, OneBody

\* One more reaction: a frame to settle, or the only body of a stop.
LEMMA MicroOne ==
  ASSUME TypeOK, InvStack, NEW x \in Step, micro' = Append(micro, x),
         x[1] = "settled" \/ (x[1] \in Bodies /\ \A s \in Behind : s[1] \notin Bodies)
  PROVE  MicroOk /\ Behind' = Behind \cup {x}
<1>1. micro \in Seq(Step) /\ DOMAIN micro = 1..Len(micro) /\ Len(micro) \in Nat
  BY LenProperties DEF TypeOK
<1>2. /\ micro' \in Seq(Step) /\ Len(micro') = Len(micro) + 1 /\ DOMAIN micro' = 1..(Len(micro) + 1)
      /\ \A i \in 1..Len(micro) : micro'[i] = micro[i]
      /\ micro'[Len(micro) + 1] = x
      /\ Range(micro') = Range(micro) \cup {x}
  BY <1>1, RangeOfAppend, LenProperties
<1>3. \A s \in Behind' : s[1] \in Reactions
  BY <1>2 DEF InvStack, Behind, Reactions
<1>4. \A i \in 1..Len(micro) : micro[i] \in Behind
  BY <1>1, RangeEquality DEF Behind
<1>5. \A i, j \in 1..Len(micro) : micro[i][1] \in Bodies /\ micro[j][1] \in Bodies => i = j
  BY <1>1 DEF InvStack
<1>6. \A i \in 1..(Len(micro) + 1) : i \in 1..Len(micro) \/ i = Len(micro) + 1
  BY <1>1
<1>7. OneBody(micro')
  <2>1. CASE x[1] = "settled"
    <3>1. x[1] \notin Bodies
      BY <2>1 DEF Bodies
    <3>2. QED
      BY <3>1, <1>2, <1>5, <1>6 DEF OneBody
  <2>2. CASE \A s \in Behind : s[1] \notin Bodies
    BY <2>2, <1>2, <1>4, <1>6 DEF OneBody
  <2>3. QED
    BY <2>1, <2>2
<1>8. QED
  BY <1>2, <1>3, <1>7 DEF MicroOk, Behind

\* Several more frames to settle.
LEMMA MicroMany ==
  ASSUME TypeOK, InvStack, NEW m \in Seq(Step), micro' = micro \o m, \A i \in 1..Len(m) : m[i][1] = "settled"
  PROVE  MicroOk /\ Behind' = Behind \cup Range(m)
<1>1. micro \in Seq(Step) /\ DOMAIN micro = 1..Len(micro) /\ Len(micro) \in Nat /\ Len(m) \in Nat
  BY LenProperties DEF TypeOK
<1>2. /\ micro' \in Seq(Step) /\ Len(micro') = Len(micro) + Len(m)
      /\ \A i \in 1..(Len(micro) + Len(m)) : micro'[i] = IF i <= Len(micro) THEN micro[i] ELSE m[i - Len(micro)]
      /\ Range(micro') = Range(micro) \cup Range(m)
  BY <1>1, ConcatProperties, RangeConcatenation
<1>3. DOMAIN micro' = 1..(Len(micro) + Len(m))
  BY <1>2, LenProperties
<1>4. \A s \in Behind' : s[1] \in Reactions
  <2>1. Range(m) = {m[i] : i \in 1..Len(m)}
    BY RangeEquality
  <2>2. \A s \in Range(m) : s[1] = "settled"
    BY <2>1
  <2>3. QED
    BY <2>2, <1>2 DEF InvStack, Behind, Reactions
<1>5. ASSUME NEW i \in 1..(Len(micro) + Len(m)), micro'[i][1] \in Bodies
      PROVE  i \in 1..Len(micro) /\ micro'[i] = micro[i]
  <2>1. CASE i <= Len(micro)
    BY <2>1, <1>1, <1>2
  <2>2. CASE ~(i <= Len(micro))
    <3>1. i - Len(micro) \in 1..Len(m)
      BY <2>2, <1>1
    <3>2. micro'[i][1] = "settled"
      BY <2>2, <3>1, <1>2
    <3>3. QED
      BY <3>2, <1>5 DEF Bodies
  <2>3. QED
    BY <2>1, <2>2
<1>6. OneBody(micro')
  BY <1>1, <1>3, <1>5 DEF OneBody, InvStack
<1>7. QED
  BY <1>2, <1>4, <1>6 DEF MicroOk, Behind

\* The next reaction becomes the turn: it is alone on the stack, and a stop's was the only one.
LEMMA MicroNext ==
  ASSUME TypeOK, InvStack, sync = <<>>, micro # <<>>, sync' = <<Head(micro)>>, micro' = Tail(micro)
  PROVE  /\ sync' \in Seq(Step) /\ micro' \in Seq(Step)
         /\ Range(sync') = {Head(micro)} /\ Behind = {Head(micro)} \cup Behind' /\ Rest' = {}
         /\ InvStack'
<1>1. micro \in Seq(Step) /\ DOMAIN micro = 1..Len(micro)
  BY LenProperties DEF TypeOK
<1>2. /\ Len(micro) \in Nat /\ Len(micro) >= 1 /\ micro[1] \in Step /\ Head(micro) = micro[1]
      /\ micro' \in Seq(Step) /\ Len(micro') = Len(micro) - 1
      /\ \A i \in 1..Len(micro') : micro'[i] = micro[i + 1]
      /\ Range(micro) = {micro[1]} \cup Range(micro')
  BY <1>1, RangeOfTail
<1>3. sync' \in Seq(Step) /\ Range(sync') = {micro[1]} /\ Len(sync') = 1 /\ sync'[1] = micro[1] /\ sync' # <<>>
  BY <1>2, ShortSequences
<1>4. Rest' = {}
  <2>1. Tail(sync') \in Seq(Step) /\ Len(Tail(sync')) = 0
    BY <1>3, RangeOfTail
  <2>2. Tail(sync') = <<>>
    BY <2>1, EmptySeq
  <2>3. QED
    BY <2>2, ShortSequences DEF Rest
<1>5. DOMAIN micro' = 1..(Len(micro) - 1)
  BY <1>2, LenProperties
<1>6. \A i, j \in 1..Len(micro) : micro[i][1] \in Bodies /\ micro[j][1] \in Bodies => i = j
  BY <1>1 DEF InvStack
<1>7. \A i \in 1..(Len(micro) - 1) : i + 1 \in 1..Len(micro) /\ i + 1 # 1 /\ micro'[i] = micro[i + 1]
  BY <1>2
<1>8. 1 \in 1..Len(micro) /\ 1..(Len(sync') - 1) = {}
  BY <1>2, <1>3
<1>9. OneBody(micro')
  <2>1. ASSUME NEW i \in 1..(Len(micro) - 1), NEW j \in 1..(Len(micro) - 1),
               micro'[i][1] \in Bodies, micro'[j][1] \in Bodies
        PROVE  i = j
    <3>1. i + 1 = j + 1
      BY <2>1, <1>6, <1>7
    <3>2. QED
      BY <3>1, <1>2
  <2>2. QED
    BY <2>1, <1>5 DEF OneBody
<1>10. micro[1][1] \in Bodies => \A s \in Behind' : s[1] \notin Bodies
  <2>1. SUFFICES ASSUME micro[1][1] \in Bodies, NEW s \in Behind', s[1] \in Bodies PROVE FALSE
    OBVIOUS
  <2>2. Range(micro') = {micro'[i] : i \in 1..Len(micro')}
    <3>1. micro' \in Seq(Step)
      BY <1>2
    <3>2. \A m \in Seq(Step) : Range(m) = {m[i] : i \in 1..Len(m)}
      BY RangeEquality
    <3>3. QED
      BY <3>1, <3>2
  <2>3. PICK i \in 1..Len(micro') : s = micro'[i]
    BY <2>1, <2>2 DEF Behind
  <2>4. QED
    BY <2>1, <2>3, <1>2, <1>6, <1>7, <1>8
<1>11. \A s \in Behind' : s[1] \in Reactions
  BY <1>2 DEF InvStack, Behind
<1>12. QED
  BY <1>2, <1>3, <1>4, <1>8, <1>9, <1>10, <1>11 DEF InvStack, OneBody, Behind

-----------------------------------------------------------------------------
(* The map and the lanes: what one frame more or less does to them. *)

\* Every frame has a lane.
LEMMA LaneNames == \A f : LaneOf(f) \in Lanes
  BY DEF LaneOf, Lanes

\* One frame more or less in a lane counts one more or less there, and only there.
LEMMA LaneCounts ==
  ASSUME NEW W, IsFiniteSet(W), NEW f, NEW lane \in Lanes
  PROVE  /\ Cardinality(InLane(W, lane)) \in Nat
         /\ f \in W => Cardinality(InLane(W, lane)) =
                         Cardinality(InLane(W \ {f}, lane)) + (IF LaneOf(f) = lane THEN 1 ELSE 0)
         /\ f \notin W => Cardinality(InLane(W \cup {f}, lane)) =
                            Cardinality(InLane(W, lane)) + (IF LaneOf(f) = lane THEN 1 ELSE 0)
<1>1. IsFiniteSet(InLane(W, lane)) /\ IsFiniteSet(InLane(W \ {f}, lane))
  <2>1. InLane(W, lane) \subseteq W /\ InLane(W \ {f}, lane) \subseteq W
    BY DEF InLane
  <2>2. QED
    BY <2>1, FS_Subset
<1>2. Cardinality(InLane(W, lane)) \in Nat /\ Cardinality(InLane(W \ {f}, lane)) \in Nat
  BY <1>1, FS_CardinalityType
<1>3. CASE LaneOf(f) # lane
  <2>1. InLane(W \ {f}, lane) = InLane(W, lane) /\ InLane(W \cup {f}, lane) = InLane(W, lane)
    BY <1>3 DEF InLane
  <2>2. QED
    BY <1>2, <1>3, <2>1
<1>4. CASE LaneOf(f) = lane
  <2>1. ASSUME f \in W
        PROVE  Cardinality(InLane(W, lane)) = Cardinality(InLane(W \ {f}, lane)) + 1
    <3>1. f \notin InLane(W \ {f}, lane) /\ InLane(W \ {f}, lane) \cup {f} = InLane(W, lane)
      BY <1>4, <2>1 DEF InLane
    <3>2. QED
      BY <1>1, <3>1, FS_AddElement
  <2>2. ASSUME f \notin W
        PROVE  Cardinality(InLane(W \cup {f}, lane)) = Cardinality(InLane(W, lane)) + 1
    <3>1. f \notin InLane(W, lane) /\ InLane(W, lane) \cup {f} = InLane(W \cup {f}, lane)
      BY <1>4, <2>2 DEF InLane
    <3>2. QED
      BY <1>1, <3>1, FS_AddElement
  <2>3. QED
    BY <1>2, <1>4, <2>1, <2>2
<1>5. QED
  BY <1>3, <1>4

\* The frames being written are finitely many.
LEMMA WritingShape == ASSUME TypeOK PROVE /\ IsFiniteSet(Writing) /\ Writing \subseteq Frames
                                          /\ Range(queue) \subseteq Frames /\ Range(queue) \subseteq Writing
                                          /\ active # "none" => active \in Frames /\ active \in Writing
                                          /\ Pending \subseteq Ids
<1>1. IsFiniteSet(Range(queue)) /\ Range(queue) \subseteq Frames
  BY RangeFinite, RangeOfSeq DEF TypeOK
<1>2. Writing = Range(queue) \/ Writing = Range(queue) \cup {active}
  BY DEF Writing
<1>3. IsFiniteSet(Writing)
  BY <1>1, <1>2, FS_AddElement
<1>4. Pending \subseteq Ids
  BY RangeOfSeq DEF TypeOK, Pending
<1>5. QED
  BY <1>1, <1>3, <1>4 DEF TypeOK, Writing

\* finishWrite takes one frame from its lane.
LEMMA FinishEffect ==
  ASSUME TypeOK, InvStack, InvFrames, LanesBalanced,
         NEW f \in Writing, NEW e \in Errors \cup {"none"}, Finish(f, e)
  PROVE  /\ queue' \in Seq(Frames) /\ IsInjective(queue') /\ Range(queue') \subseteq Range(queue)
         /\ active' \in {active, "none"} /\ active' \notin Range(queue') /\ acks' \subseteq {"callback", "drain"}
         /\ held' \in [Lanes -> Nat] /\ Writing' = Writing \ {f} /\ LanesBalanced'
         /\ MicroOk /\ Behind' = Behind \cup {Do("settled", f, e)} /\ f \in Frames
<1>1. f \in Frames /\ IsFiniteSet(Writing)
  BY WritingShape
<1>2. /\ queue' \in Seq(Frames) /\ IsInjective(queue') /\ Range(queue') = Range(queue) \ {f}
      /\ queue' = Without(queue, f)
  BY WithoutOne DEF TypeOK, InvFrames, Finish
<1>3. active' = IF active = f THEN "none" ELSE active
  BY DEF Finish
<1>4. active' \in {active, "none"} /\ active' \notin Range(queue') /\ Writing' = Writing \ {f}
  BY <1>1, <1>2, <1>3, WritingShape, Names DEF Writing, InvFrames
<1>5. acks' \subseteq {"callback", "drain"}
  BY DEF Finish, TypeOK
<1>6. ASSUME NEW lane \in Lanes
      PROVE  held'[lane] \in Nat /\ held'[lane] = Cardinality(InLane(Writing', lane))
  <2>1. held[lane] = Cardinality(InLane(Writing, lane)) /\ held \in [Lanes -> Nat]
    BY DEF LanesBalanced, TypeOK
  <2>2. held'[lane] = IF LaneOf(f) = lane THEN held[lane] - 1 ELSE held[lane]
    BY <2>1, LaneNames DEF Finish
  <2>3. IsFiniteSet(Writing')
    BY <1>1, <1>4, FS_Subset
  <2>4. Cardinality(InLane(Writing', lane)) \in Nat
    BY <2>3, LaneCounts
  <2>5. Cardinality(InLane(Writing, lane)) =
          Cardinality(InLane(Writing', lane)) + (IF LaneOf(f) = lane THEN 1 ELSE 0)
    BY <1>1, <1>4, LaneCounts
  <2>6. QED
    BY <2>1, <2>2, <2>4, <2>5
<1>7. held' \in [Lanes -> Nat]
  <2>1. held' = [held EXCEPT ![LaneOf(f)] = @ - 1] /\ held \in [Lanes -> Nat]
    BY DEF Finish, TypeOK
  <2>2. held' = [lane \in Lanes |-> held'[lane]]
    BY <2>1
  <2>3. QED
    BY <1>6, <2>2
<1>8. LanesBalanced'
  BY <1>6 DEF LanesBalanced, InLane
<1>9. Do("settled", f, e) \in Step /\ Do("settled", f, e)[1] = "settled"
  BY <1>1 DEF Do, Step, Calls, Errors
<1>10. MicroOk /\ Behind' = Behind \cup {Do("settled", f, e)}
  BY <1>9, MicroOne DEF Finish
<1>11. QED
  BY <1>1, <1>2, <1>4, <1>5, <1>7, <1>8, <1>10

\* A promise settles: its request leaves the map.
LEMMA SettleEffect ==
  ASSUME TypeOK, InvRequests, NEW f \in Frames, NEW how \in Outcomes, SettleOne(f, how)
  PROVE  /\ pending' \in Seq(Ids) /\ IsInjective(pending') /\ Pending' = Pending \ {f}
         /\ outcome' \in [Frames -> Outcomes]
         /\ \A g \in Frames : outcome'[g] = IF g = f THEN how ELSE outcome[g]
         /\ written' \subseteq Ids /\ due' \subseteq Frames /\ fenced' \subseteq Frames
<1>1. pending' = Without(pending, f) /\ outcome' = [g \in Frames |-> IF g \in {f} THEN how ELSE outcome[g]]
  BY DEF SettleOne, Settle
<1>2. pending' \in Seq(Ids) /\ IsInjective(pending') /\ Pending' = Pending \ {f}
  BY <1>1, WithoutOne DEF TypeOK, InvRequests, Pending
<1>3. outcome' \in [Frames -> Outcomes]
  BY <1>1 DEF TypeOK
<1>4. written' \subseteq Ids /\ due' \subseteq Frames /\ fenced' \subseteq Frames
  BY DEF SettleOne, Settle, TypeOK
<1>5. QED
  BY <1>1, <1>2, <1>3, <1>4

-----------------------------------------------------------------------------
(* Steps of a turn: the calls change, and frames, the map and the process  *)
(* as each kind of step says.                                              *)

Turns    == InvCalls /\ InvStop /\ InvRequests /\ InvFrames /\ InvAnswers /\ InvClosed
Process  == <<started, closed, stopping, fault, stop>>
Map      == <<pending, outcome, response>>
LaneVars == <<queue, active, held, wire>>

\* A call that may be made at any time.
Plain(x) ==
  \/ x[1] = "fail" /\ x[3] = "lost"
  \/ x[1] \in {"cancelFrame", "complete"} /\ x[2] \in Frames
  \/ x[1] = "cancel" /\ x[2] \in Ids
  \/ x[1] = "pump"

\* Calls only: nothing else moves.
LEMMA CallsMove ==
  ASSUME TypeOK, InvStack, Turns, UNCHANGED <<Map, LaneVars, Process>>,
         NEW X, Range(sync') = X \cup Rest, Behind' = Behind,
         sync # <<>> => /\ sync[1][1] \in {"reject", "settled", "cancel", "cancelFrame", "pump", "complete"}
                        /\ sync[1][1] = "settled" => sync[1][2] \notin Dialogs,
         \A x \in X : \/ Plain(x)
                      \/ x[1] = "send" /\ x[2] \in Callers /\ outcome[x[2]] = "new"
                      \/ x[1] = "reject" /\ x[2] \in Ids /\ x[3] = "cancelled" /\ x[2] \notin wire
                      \/ x[1] = "reject" /\ x[2] \in Ids /\ x[3] = "lost" /\ Excused'
  PROVE  Turns'
<1>1. /\ Ahead' = X \cup Rest \cup Behind /\ Rest \cup Behind \subseteq Ahead /\ Rest \subseteq Range(sync)
      /\ sync = <<>> => Ahead = Behind /\ Rest = {} /\ Range(sync) = {}
      /\ sync # <<>> => Ahead = {sync[1]} \cup Rest \cup Behind /\ Range(sync) = {sync[1]} \cup Rest
  BY StackShape DEF Ahead
<1>2. /\ Pending' = Pending /\ Writing' = Writing
      /\ UNCHANGED <<pending, outcome, response, queue, active, wire, started, closed, stopping, fault, stop>>
  BY DEF Map, LaneVars, Process, Pending, Writing
<1>3. \A x \in X : x[1] \notin {"settled", "enqueue", "stopBody", "idleBody", "rejectAll", "rejectWrites"}
  BY DEF Plain
<1>4. InvCalls'
  BY <1>1, <1>3, Names DEF Turns, InvCalls, Plain, Errors, OfFrame, OfRequest
<1>5. InvStop'
  BY <1>1, <1>2, <1>3, Names DEF Turns, InvStop, Plain
<1>6. InvRequests'
  BY <1>2 DEF Turns, InvRequests
<1>7. \A f : For({"settled"}, f)' => For({"settled"}, f)
  BY <1>1, <1>3 DEF For
<1>8. \A f : For({"enqueue", "settled"}, f)' => For({"enqueue", "settled"}, f)
  BY <1>1, <1>3 DEF For
<1>9. \A d \in Dialogs : For({"enqueue", "settled"}, d) => For({"enqueue", "settled"}, d)'
  BY <1>1 DEF For
<1>10. InvFrames'
  BY <1>1, <1>2, <1>3, <1>7, <1>8, <1>9 DEF Turns, InvFrames, Plain
<1>11. Excused => Excused'
  <2>1. \A s \in Range(sync) : s[1] = "fail" => s \in Range(sync')
    BY <1>1
  <2>2. QED
    BY <1>2, <2>1 DEF Excused
<1>12. InvAnswers'
  BY <1>1, <1>2, <1>3, <1>11 DEF Turns, InvAnswers, Plain
<1>13. InvClosed'
  BY <1>1, <1>2, <1>3 DEF Turns, InvClosed
<1>14. QED
  BY <1>4, <1>5, <1>6, <1>10, <1>12, <1>13 DEF Turns

\* A frame leaves its lane.
LEMMA FramesLeave ==
  ASSUME TypeOK, InvStack, LanesBalanced, Turns, UNCHANGED <<Map, Process>>, UNCHANGED wire,
         NEW f \in Writing, NEW e \in Errors \cup {"none"}, Finish(f, e),
         NEW X, Range(sync') = X \cup Rest,
         sync # <<>> => sync[1][1] \in {"cancelFrame", "pump", "complete"},
         \A x \in X : Plain(x),
         e = "cancelled" => f \notin wire,
         e = "lost" => Excused'
  PROVE  Turns'
<1> DEFINE y == Do("settled", f, e)
<1>1. /\ IsInjective(queue') /\ Range(queue') \subseteq Range(queue)
      /\ active' \in {active, "none"} /\ active' \notin Range(queue') /\ Writing' = Writing \ {f}
      /\ Behind' = Behind \cup {y} /\ f \in Frames /\ y[1] = "settled" /\ y[2] = f /\ y[3] = e
  BY FinishEffect DEF Turns, Do
<1> HIDE DEF y
<1>2. /\ Ahead' = X \cup {y} \cup Rest \cup Behind /\ Rest \cup Behind \subseteq Ahead /\ Rest \subseteq Range(sync)
      /\ sync = <<>> => Ahead = Behind /\ Rest = {} /\ Range(sync) = {}
      /\ sync # <<>> => Ahead = {sync[1]} \cup Rest \cup Behind /\ Range(sync) = {sync[1]} \cup Rest
      /\ \A s \in Rest \cup Behind : s[1] # "enqueue"
  BY <1>1, StackShape DEF Ahead, InvStack, Reactions, Bodies
<1>3. Pending' = Pending /\ UNCHANGED <<pending, outcome, response, wire, started, closed, stopping, fault, stop>>
  BY DEF Map, Process, Pending
<1>4. \A x \in X : x[1] \notin {"settled", "enqueue", "stopBody", "idleBody", "rejectAll", "rejectWrites", "send",
                               "reject"}
  BY DEF Plain
<1>5. InvCalls'
  BY <1>1, <1>2, <1>4 DEF Turns, InvCalls, Plain, OfFrame, OfRequest
<1>6. InvStop'
  BY <1>1, <1>2, <1>3, <1>4 DEF Turns, InvStop
<1>7. InvRequests'
  BY <1>3 DEF Turns, InvRequests
<1>8. outcome[f] # "new"
  BY <1>1 DEF Turns, InvFrames
<1>9. \A g : g # f /\ For({"enqueue", "settled"}, g)' => For({"enqueue", "settled"}, g)
  BY <1>1, <1>2, <1>4 DEF For
<1>10. For({"enqueue", "settled"}, f)' /\ \A g : For({"enqueue", "settled"}, g) => For({"enqueue", "settled"}, g)'
  BY <1>1, <1>2 DEF For
<1>11. \A s \in Ahead' : s[1] # "enqueue"
  BY <1>1, <1>2, <1>4
<1>12. InvFrames'
  BY <1>1, <1>2, <1>3, <1>4, <1>8, <1>9, <1>10, <1>11 DEF Turns, InvFrames
<1>13. Excused => Excused'
  <2>1. \A s \in Range(sync) : s[1] = "fail" => s \in Range(sync')
    BY <1>2
  <2>2. QED
    BY <1>3, <2>1 DEF Excused
<1>14. InvAnswers'
  BY <1>1, <1>2, <1>3, <1>4, <1>13 DEF Turns, InvAnswers, Errors
<1>15. InvClosed'
  BY <1>1, <1>2, <1>3, <1>11 DEF Turns, InvClosed
<1>16. QED
  BY <1>5, <1>6, <1>7, <1>12, <1>14, <1>15 DEF Turns

\* A promise settles.
LEMMA PromisesSettle ==
  ASSUME TypeOK, InvStack, Turns, UNCHANGED <<LaneVars, Process>>, response \subseteq response',
         NEW f \in Frames, NEW how \in Errors \cup {"answered"}, SettleOne(f, how),
         NEW X, Range(sync') = X \cup Rest, Behind' = Behind,
         sync # <<>> => sync[1][1] = "reject" \/ (sync[1][1] = "settled" /\ sync[1][2] = f),
         \A x \in X : Plain(x),
         how = "cancelled" => f \notin wire,
         f \in Ids => f \in Pending /\ (f \in wire => f \in response' \/ Excused'),
         f \in Dialogs => For({"settled"}, f)
  PROVE  Turns'
<1>1. /\ IsInjective(pending') /\ Pending' = Pending \ {f}
      /\ \A g \in Frames : outcome'[g] = IF g = f THEN how ELSE outcome[g]
  BY SettleEffect DEF Turns, Outcomes, Errors
<1>2. /\ Ahead' = X \cup Rest \cup Behind /\ Rest \cup Behind \subseteq Ahead /\ Rest \subseteq Range(sync)
      /\ sync = <<>> => Ahead = Behind /\ Rest = {} /\ Range(sync) = {}
      /\ sync # <<>> => Ahead = {sync[1]} \cup Rest \cup Behind /\ Range(sync) = {sync[1]} \cup Rest
      /\ \A s \in Rest \cup Behind : s[1] # "enqueue"
  BY StackShape DEF Ahead, InvStack, Reactions, Bodies
<1>3. Writing' = Writing /\ UNCHANGED <<queue, active, wire, started, closed, stopping, fault, stop>>
  BY DEF LaneVars, Process, Writing
<1>4. /\ \A x \in X : x[1] \notin {"settled", "enqueue", "stopBody", "idleBody", "rejectAll", "rejectWrites", "send",
                                  "reject"}
      /\ \A s \in Ahead' : s[1] # "enqueue"
  BY <1>2 DEF Plain
<1>5. outcome[f] # "new" /\ how \notin {"new", "pending"} /\ (f \in Dialogs => f \notin Writing)
  <2>1. CASE f \in Ids
    BY <2>1, Names DEF Turns, InvRequests, Errors
  <2>2. CASE f \in Dialogs
    <3>1. PICK s \in Ahead : s[1] = "settled" /\ s[2] = f
      BY <2>2 DEF For
    <3>2. For({"enqueue", "settled"}, f)
      BY <3>1 DEF For
    <3>3. QED
      BY <3>1, <3>2 DEF Turns, InvFrames, Errors
  <2>3. QED
    BY <2>1, <2>2, Names
<1>6. InvCalls'
  BY <1>2, <1>4 DEF Turns, InvCalls, Plain, OfFrame, OfRequest
<1>7. InvStop'
  BY <1>1, <1>2, <1>3, <1>4, <1>5, Names DEF Turns, InvStop, InvCalls, OfRequest
<1>8. InvRequests'
  BY <1>1, <1>5, Names DEF Turns, InvRequests
<1>9. \A g : For({"enqueue", "settled"}, g)' => For({"enqueue", "settled"}, g)
  BY <1>2, <1>4 DEF For
<1>10. \A g \in Dialogs : g # f /\ For({"enqueue", "settled"}, g) => For({"enqueue", "settled"}, g)'
  BY <1>2, Names DEF For, Turns, InvCalls, OfRequest
<1>11. wire \subseteq Frames /\ Writing \subseteq Frames
  BY WritingShape DEF TypeOK
<1>12. InvFrames'
  BY <1>1, <1>2, <1>3, <1>4, <1>5, <1>9, <1>10, <1>11, Names DEF Turns, InvFrames
<1>13. Excused => Excused'
  <2>1. \A s \in Range(sync) : s[1] = "fail" => s \in Range(sync')
    BY <1>2
  <2>2. QED
    BY <1>3, <2>1 DEF Excused
<1>14. InvAnswers'
  BY <1>1, <1>2, <1>3, <1>4, <1>13 DEF Turns, InvAnswers
<1>15. InvClosed'
  BY <1>1, <1>2, <1>3, <1>4 DEF Turns, InvClosed
<1>16. QED
  BY <1>6, <1>7, <1>8, <1>12, <1>14, <1>15 DEF Turns

-----------------------------------------------------------------------------
(* The steps, one by one. *)

\* The calls, and what a call carries.
LEMMA Doings ==
  /\ \A c \in Calls, f \in Frames \cup {"none"}, e \in Errors \cup {"none", "unasked"} :
       Do(c, f, e) \in Step /\ Do(c, f, e)[1] = c /\ Do(c, f, e)[2] = f /\ Do(c, f, e)[3] = e
  /\ Calls = {"send", "enqueue", "pump", "complete", "fail", "rejectAll", "rejectWrites",
              "reject", "cancel", "cancelFrame", "settled", "stopBody", "idleBody"}
  /\ Errors = {"lost", "cancelled"} /\ Reactions = {"stopBody", "idleBody", "settled"}
  BY DEF Do, Step, Calls, Errors, Reactions, Bodies

\* The call being made.
LEMMA Innermost ==
  ASSUME RpcInv, NEW c, Calling(c)
  PROVE  /\ sync # <<>> /\ sync[1] \in Ahead /\ sync[1] \in Step /\ sync[1] \in Range(sync)
         /\ sync[1][1] = c /\ sync[1][2] = Arg /\ sync[1][3] = Error
         /\ Under = Tail(sync) /\ Rest \subseteq Range(sync)
         /\ c \in OfFrame => Arg \in Frames
         /\ c \in OfRequest => Arg \in Ids
         /\ c \in {"fail", "rejectAll", "rejectWrites"} => Error = "lost"
         /\ c = "reject" => Error \in Errors
         /\ c = "settled" => Error \in Errors \cup {"none"}
<1>1. TypeOK /\ InvStack /\ InvCalls
  BY DEF RpcInv
<1>2. /\ sync # <<>> /\ sync[1] \in Ahead /\ sync[1] \in Step /\ sync[1] \in Range(sync) /\ Under = Tail(sync)
      /\ Rest \subseteq Range(sync)
  BY <1>1, StackShape DEF Calling, Ahead
<1>3. sync[1][1] = c /\ sync[1][2] = Arg /\ sync[1][3] = Error
  BY DEF Calling, Arg, Error
<1>4. QED
  BY <1>1, <1>2, <1>3 DEF InvCalls

\* What excuses a request given up goes on excusing it, except for the call to fail itself.
LEMMA ExcusedStays ==
  ASSUME TypeOK, InvStack, Excused, UNCHANGED Process, Rest \subseteq Range(sync'),
         sync # <<>> => sync[1][1] # "fail"
  PROVE  Excused'
<1>1. \A s \in Range(sync) : s[1] = "fail" => s \in Range(sync')
  BY StackShape
<1>2. QED
  BY <1>1 DEF Excused, Process

\* The invariant is what a turn says, the types, the stack and the lanes.
LEMMA Splits == /\ RpcInv <=> TypeOK /\ InvStack /\ LanesBalanced /\ Turns
                /\ RpcInv' <=> TypeOK' /\ InvStack' /\ LanesBalanced' /\ Turns'
  BY DEF RpcInv, Turns

\* A request is rejected, and its frame taken from its lane if it is still there.
LEMMA RejectKeeps == ASSUME RpcInv, Reject PROVE RpcInv'
<1> USE Splits
<1>1. Calling("reject") /\ UNCHANGED <<response, lanes, stream, life, micro>>
  BY DEF Reject
<1>2. /\ sync # <<>> /\ sync[1] \in Ahead /\ sync[1][1] = "reject" /\ sync[1][2] = Arg /\ sync[1][3] = Error
      /\ Under = Tail(sync) /\ Arg \in Ids /\ Error \in Errors
  BY <1>1, Innermost DEF OfRequest
<1>3. MicroOk /\ Behind' = Behind
  BY <1>1, MicroSame
<1>4. UNCHANGED <<LaneVars, Process>> /\ LanesBalanced'
  BY <1>1 DEF lanes, stream, life, LaneVars, Process, LanesBalanced, Writing, InLane
<1>5. CASE Arg \notin Pending
  <2>1. sync' = <<>> \o Tail(sync) /\ UNCHANGED promises
    BY <1>5 DEF Reject, Then
  <2>2. sync' = Under
    BY <1>2, <2>1, StackShape, ConcatEmptySeq
  <2>3. sync' \in Seq(Step) /\ Range(sync') = Rest /\ InvStack'
    BY <1>3, <2>2, PushNone
  <2>4. TypeOK'
    BY <1>1, <2>1, <2>3 DEF TypeOK, lanes, stream, life, promises
  <2> DEFINE X == {}
  <2>5. Range(sync') = X \cup Rest /\ UNCHANGED <<Map, LaneVars, Process>> /\ \A x \in X : FALSE
    BY <1>1, <1>4, <2>1, <2>3 DEF promises, Map
  <2> HIDE DEF X
  <2>6. Turns'
    BY <1>2, <1>3, <2>5, CallsMove
  <2>7. QED
    BY <1>4, <2>3, <2>4, <2>6
<1>6. CASE Arg \in Pending
  <2> DEFINE x == Do("cancelFrame", Arg, "none")
  <2>1. sync' = <<x>> \o Under /\ SettleOne(Arg, Error)
    BY <1>2, <1>6 DEF Reject, Then
  <2>2. x \in Step /\ x[1] = "cancelFrame" /\ x[2] = Arg /\ Arg \in Frames
    BY <1>2, Doings, Names
  <2> HIDE DEF x
  <2>3. x[1] \notin Reactions /\ x[1] # "send" /\ Plain(x)
    BY <2>2, Doings DEF Plain
  <2>4. sync' \in Seq(Step) /\ Range(sync') = {x} \cup Rest /\ InvStack'
    BY <1>3, <2>1, <2>2, <2>3, PushOne
  <2>5. Error \in Outcomes /\ Error \in Errors \cup {"answered"}
    BY <1>2 DEF Outcomes
  <2>6. /\ pending' \in Seq(Ids) /\ outcome' \in [Frames -> Outcomes]
        /\ written' \subseteq Ids /\ due' \subseteq Frames /\ fenced' \subseteq Frames
    BY <2>1, <2>2, <2>5, SettleEffect DEF Turns
  <2>7. TypeOK'
    BY <1>1, <2>4, <2>6 DEF TypeOK, lanes, stream, life
  <2>8. Error = "cancelled" => Arg \notin wire
    BY <1>2 DEF Turns, InvFrames
  <2>9. Arg \in wire => Excused'
    <3>1. Arg \in wire => Excused
      BY <1>2, <2>8, Doings DEF Turns, InvAnswers
    <3>2. QED
      BY <3>1, <1>2, <1>4, <2>4, ExcusedStays
  <2>10. response \subseteq response'
    BY <1>1
  <2> DEFINE X == {x}
  <2>11. Range(sync') = X \cup Rest /\ \A y \in X : Plain(y)
    BY <2>3, <2>4
  <2> HIDE DEF X
  <2>12. Arg \notin Dialogs
    BY <1>2, Names
  <2>13. Turns'
    BY <1>2, <1>3, <1>4, <1>6, <2>1, <2>2, <2>5, <2>8, <2>9, <2>10, <2>11, <2>12, PromisesSettle
  <2>14. QED
    BY <1>4, <2>4, <2>7, <2>13
<1>7. QED
  BY <1>5, <1>6

\* What has no part in the invariants keeps its type.
Side == /\ written' \subseteq Ids /\ due' \subseteq Frames /\ fenced' \subseteq Frames
        /\ acks' \subseteq {"callback", "drain"} /\ full' \in BOOLEAN /\ ended' \in BOOLEAN

\* A step that leaves the state alone leaves each part of it alone.
LEMMA SideSame ==
  ASSUME TypeOK, UNCHANGED <<requests, lanes, stream, life>>
  PROVE  UNCHANGED <<Map, LaneVars, Process>> /\ Side
  BY DEF Side, TypeOK, stream, requests, lanes, life, Map, LaneVars, Process

\* A call ends, or calls one or two others, and nothing else moves.
LEMMA OneCall ==
  ASSUME RpcInv, UNCHANGED <<Map, LaneVars, Process>>, micro' = micro, Side,
         sync # <<>> => /\ sync[1][1] \in {"reject", "settled", "cancel", "cancelFrame", "pump", "complete"}
                        /\ sync[1][1] = "settled" => sync[1][2] \notin Dialogs,
         \/ sync' = Under
         \/ \E x \in Step : /\ sync' = <<x>> \o Under \/ (sync = <<>> /\ sync' = <<x>>)
                            /\ \/ Plain(x)
                               \/ /\ x[1] = "send" /\ x[2] \in Callers /\ outcome[x[2]] = "new"
                                  /\ sync = <<>>
                               \/ x[1] = "reject" /\ x[2] \in Ids /\ x[3] = "cancelled" /\ x[2] \notin wire
                               \/ x[1] = "reject" /\ x[2] \in Ids /\ x[3] = "lost" /\ Excused
         \/ \E x, y \in Step : /\ sync' = <<x, y>> \o Under \/ (sync = <<>> /\ sync' = <<x, y>>)
                               /\ x[1] = "fail" /\ x[3] = "lost" /\ y[1] = "reject" /\ y[2] \in Ids /\ y[3] = "lost"
  PROVE  RpcInv'
<1> USE Splits
<1>1. MicroOk /\ Behind' = Behind
  BY MicroSame
<1>2. LanesBalanced'
  BY DEF LaneVars, LanesBalanced, Writing, InLane
<1>3. ASSUME sync' \in Seq(Step) PROVE TypeOK'
  BY <1>3 DEF Side, TypeOK, Map, LaneVars, Process
<1>4. sync = <<>> => Rest = {}
  BY StackShape
<1>5. ASSUME Excused, Rest \subseteq Range(sync') PROVE Excused'
  <2>1. sync # <<>> => sync[1][1] # "fail"
    OBVIOUS
  <2>2. QED
    BY <1>5, <2>1, ExcusedStays
<1>6. CASE sync' = Under
  <2> DEFINE X == {}
  <2>1. sync' \in Seq(Step) /\ Range(sync') = X \cup Rest /\ InvStack'
    BY <1>1, <1>6, PushNone
  <2>2. \A x \in X : FALSE
    OBVIOUS
  <2> HIDE DEF X
  <2>3. Turns'
    BY <1>1, <2>1, <2>2, CallsMove
  <2>4. QED
    BY <1>2, <1>3, <2>1, <2>3
<1>7. ASSUME NEW x \in Step, sync' = <<x>> \o Under \/ (sync = <<>> /\ sync' = <<x>>),
             \/ Plain(x)
             \/ x[1] = "send" /\ x[2] \in Callers /\ outcome[x[2]] = "new" /\ sync = <<>>
             \/ x[1] = "reject" /\ x[2] \in Ids /\ x[3] = "cancelled" /\ x[2] \notin wire
             \/ x[1] = "reject" /\ x[2] \in Ids /\ x[3] = "lost" /\ Excused
      PROVE  RpcInv'
  <2> DEFINE X == {x}
  <2>1. x[1] \notin Reactions /\ (x[1] = "send" => Rest = {})
    BY <1>4, <1>7 DEF Plain, Reactions, Bodies
  <2>2. sync' \in Seq(Step) /\ Range(sync') = X \cup Rest /\ InvStack'
    BY <1>1, <1>7, <2>1, PushOne
  <2>3. Excused => Excused'
    BY <1>5, <2>2
  <2>4. \A y \in X : \/ Plain(y)
                     \/ y[1] = "send" /\ y[2] \in Callers /\ outcome[y[2]] = "new"
                     \/ y[1] = "reject" /\ y[2] \in Ids /\ y[3] = "cancelled" /\ y[2] \notin wire
                     \/ y[1] = "reject" /\ y[2] \in Ids /\ y[3] = "lost" /\ Excused'
    BY <1>7, <2>3
  <2> HIDE DEF X
  <2>5. Turns'
    BY <1>1, <2>2, <2>4, CallsMove
  <2>6. QED
    BY <1>2, <1>3, <2>2, <2>5
<1>8. ASSUME NEW x \in Step, NEW y \in Step,
             sync' = <<x, y>> \o Under \/ (sync = <<>> /\ sync' = <<x, y>>),
             x[1] = "fail" /\ x[3] = "lost" /\ y[1] = "reject" /\ y[2] \in Ids /\ y[3] = "lost"
      PROVE  RpcInv'
  <2> DEFINE X == {x, y}
  <2>1. /\ x[1] \notin Reactions \cup {"send"} /\ y[1] \notin Reactions \cup {"send", "enqueue"}
        /\ ~(y[1] = "reject" /\ y[3] = "cancelled")
    BY <1>8 DEF Reactions, Bodies
  <2>2. sync' \in Seq(Step) /\ Range(sync') = X \cup Rest /\ InvStack'
    BY <1>1, <1>8, <2>1, PushTwo
  <2>3. Excused'
    BY <1>8, <2>2 DEF Excused
  <2>4. \A z \in X : Plain(z) \/ (z[1] = "reject" /\ z[2] \in Ids /\ z[3] = "lost" /\ Excused')
    BY <1>8, <2>3 DEF Plain
  <2> HIDE DEF X
  <2>5. Turns'
    BY <1>1, <2>2, <2>4, CallsMove
  <2>6. QED
    BY <1>2, <1>3, <2>2, <2>5
<1>9. QED
  BY <1>6, <1>7, <1>8

\* A frame leaves its lane, and the turn goes on with a fault, with the next frame or with both.
LEMMA OneFrame ==
  ASSUME RpcInv, UNCHANGED <<requests, stream, life>>,
         NEW f \in Writing, NEW e \in Errors \cup {"none"}, Finish(f, e),
         sync # <<>> => sync[1][1] \in {"cancelFrame", "pump", "complete"},
         e = "cancelled" => f \notin wire,
         \/ /\ e # "lost"
            /\ sync' = <<Again>> \o Under
         \/ sync' = <<Do("fail", "none", "lost")>> \o Under \/ (sync = <<>> /\ sync' = <<Do("fail", "none", "lost")>>)
         \/ sync' = <<Do("fail", "none", "lost"), Again>> \o Under
  PROVE  RpcInv'
<1> USE Splits
<1> DEFINE fl == Do("fail", "none", "lost")
<1>1. /\ queue' \in Seq(Frames) /\ active' \in {active, "none"} /\ acks' \subseteq {"callback", "drain"}
      /\ held' \in [Lanes -> Nat] /\ LanesBalanced' /\ MicroOk
  BY FinishEffect DEF Turns
<1>2. /\ fl \in Step /\ Again \in Step
      /\ fl[1] = "fail" /\ fl[3] = "lost" /\ Again[1] = "pump" /\ Plain(fl) /\ Plain(Again)
  BY Doings DEF Again, Plain
<1>3. UNCHANGED <<Map, Process>> /\ UNCHANGED wire
  BY DEF requests, stream, life, Map, Process
<1>4. ASSUME sync' \in Seq(Step) PROVE TypeOK'
  BY <1>1, <1>4 DEF MicroOk, TypeOK, requests, stream, life
<1> HIDE DEF fl
<1>5. CASE e # "lost" /\ sync' = <<Again>> \o Under
  <2> DEFINE X == {Again}
  <2>1. Again[1] \notin Reactions /\ Again[1] # "send"
    BY <1>2, Doings
  <2>2. sync' \in Seq(Step) /\ Range(sync') = X \cup Rest /\ InvStack'
    BY <1>1, <1>2, <1>5, <2>1, PushOne
  <2>3. \A x \in X : Plain(x)
    BY <1>2
  <2> HIDE DEF X
  <2>4. Turns'
    BY <1>3, <1>5, <2>2, <2>3, FramesLeave
  <2>5. QED
    BY <1>1, <1>4, <2>2, <2>4
<1>6. CASE sync' = <<fl>> \o Under \/ (sync = <<>> /\ sync' = <<fl>>)
  <2> DEFINE X == {fl}
  <2>1. fl[1] \notin Reactions /\ fl[1] # "send"
    BY <1>2, Doings
  <2>2. sync' \in Seq(Step) /\ Range(sync') = X \cup Rest /\ InvStack'
    BY <1>1, <1>2, <1>6, <2>1, PushOne
  <2>3. (\A x \in X : Plain(x)) /\ Excused'
    BY <1>2, <2>2 DEF Excused
  <2> HIDE DEF X
  <2>4. Turns'
    BY <1>3, <2>2, <2>3, FramesLeave
  <2>5. QED
    BY <1>1, <1>4, <2>2, <2>4
<1>7. CASE sync' = <<fl, Again>> \o Under
  <2> DEFINE X == {fl, Again}
  <2>1. fl[1] \notin Reactions \cup {"send"} /\ Again[1] \notin Reactions \cup {"send", "enqueue", "reject"}
    BY <1>2, Doings
  <2>2. sync' \in Seq(Step) /\ Range(sync') = X \cup Rest /\ InvStack'
    BY <1>1, <1>2, <1>7, <2>1, PushTwo
  <2>3. (\A x \in X : Plain(x)) /\ Excused'
    BY <1>2, <2>2 DEF Excused
  <2> HIDE DEF X
  <2>4. Turns'
    BY <1>3, <2>2, <2>3, FramesLeave
  <2>5. QED
    BY <1>1, <1>4, <2>2, <2>4
<1>8. QED
  BY <1>5, <1>6, <1>7 DEF fl

\* A call that makes no other ends.
LEMMA ThenNext ==
  ASSUME RpcInv, NEW c, Calling(c)
  PROVE  Then(<<>>) => sync' = Under
<1>1. Under \in Seq(Step) /\ Under = Tail(sync)
  BY StackShape, Innermost DEF RpcInv
<1>2. QED
  BY <1>1, ConcatEmptySeq DEF Then

\* The signal of a request is aborted: it is rejected, behind a fault if it was written.
LEMMA CancelKeeps == ASSUME RpcInv, Cancel PROVE RpcInv'
<1>1. Calling("cancel") /\ UNCHANGED <<requests, lanes, stream, life>> /\ micro' = micro
  BY DEF Cancel
<1>2. sync # <<>> /\ sync[1][1] = "cancel" /\ sync[1][2] = Arg /\ Under = Tail(sync) /\ Arg \in Ids /\ Arg \in Frames
  BY <1>1, Innermost, Names DEF OfRequest
<1>3. UNCHANGED <<Map, LaneVars, Process>> /\ Side
  BY <1>1, SideSame DEF RpcInv
<1>4. \/ sync' = Under
      \/ Arg \in wire /\ sync' = <<Do("fail", "none", "lost"), Do("reject", Arg, "lost")>> \o Under
      \/ Arg \notin wire /\ sync' = <<Do("reject", Arg, "cancelled")>> \o Under
  BY <1>1, <1>2, ThenNext DEF Cancel, Cancelled, Then
<1>5. /\ Do("fail", "none", "lost") \in Step /\ Do("reject", Arg, "lost") \in Step
      /\ Do("reject", Arg, "cancelled") \in Step
      /\ Do("fail", "none", "lost")[1] = "fail" /\ Do("fail", "none", "lost")[3] = "lost"
      /\ Do("reject", Arg, "lost")[1] = "reject" /\ Do("reject", Arg, "lost")[2] = Arg
      /\ Do("reject", Arg, "lost")[3] = "lost"
      /\ Do("reject", Arg, "cancelled")[1] = "reject" /\ Do("reject", Arg, "cancelled")[2] = Arg
      /\ Do("reject", Arg, "cancelled")[3] = "cancelled"
  BY <1>2, Doings
<1>6. QED
  BY <1>1, <1>2, <1>3, <1>4, <1>5, OneCall

\* The pump has nothing to do.
LEMMA PumpIdleKeeps == ASSUME RpcInv, PumpIdle PROVE RpcInv'
<1>1. Calling("pump") /\ Then(<<>>) /\ UNCHANGED <<requests, lanes, stream, life>> /\ micro' = micro
  BY DEF PumpIdle
<1>2. sync # <<>> /\ sync[1][1] = "pump" /\ sync' = Under
  BY <1>1, Innermost, ThenNext
<1>3. UNCHANGED <<Map, LaneVars, Process>> /\ Side
  BY <1>1, SideSame DEF RpcInv
<1>4. QED
  BY <1>1, <1>2, <1>3, OneCall

\* A caller makes a request.
LEMMA SendKeeps == ASSUME RpcInv, NEW r \in Callers, Send(r) PROVE RpcInv'
<1> DEFINE x == Do("send", r, "none")
<1>1. /\ sync = <<>> /\ sync' = <<x>> /\ outcome[r] = "new"
      /\ UNCHANGED <<requests, lanes, stream, life>> /\ micro' = micro
  BY DEF Send, CallerTurn
<1>2. x \in Step /\ x[1] = "send" /\ x[2] = r
  BY Doings, Names
<1>3. UNCHANGED <<Map, LaneVars, Process>> /\ Side
  BY <1>1, SideSame DEF RpcInv
<1> HIDE DEF x
<1>4. QED
  BY <1>1, <1>2, <1>3, OneCall

\* An owner aborts a signal, or its guard turns false.
LEMMA RevokeKeeps == ASSUME RpcInv, NEW f \in Frames, Revoke(f) PROVE RpcInv'
<1> DEFINE x == Do(IF f \in Dialogs THEN "cancelFrame" ELSE "cancel", f, "none")
<1>1. /\ sync = <<>> /\ micro' = micro /\ (sync' = <<>> \/ sync' = <<x>>)
      /\ fenced' = fenced \cup {f} /\ f \in Callers \cup Dialogs
      /\ UNCHANGED <<pending, outcome, written, response, due, lanes, stream, life>>
  BY DEF Revoke, CallerTurn
<1>2. x \in Step /\ Plain(x)
  BY <1>1, Doings, Names DEF Plain
<1>3. UNCHANGED <<Map, LaneVars, Process>> /\ Side
  BY <1>1 DEF Map, LaneVars, Process, Side, lanes, stream, life, RpcInv, TypeOK
<1>4. sync' = <<>> => sync' = Under
  BY <1>1 DEF Under
<1> HIDE DEF x
<1>5. QED
  BY <1>1, <1>2, <1>3, <1>4, OneCall

\* A pipe of the process fails.
LEMMA StreamFailsKeeps == ASSUME RpcInv, StreamFails PROVE RpcInv'
<1> DEFINE x == Do("fail", "none", "lost")
<1>1. /\ sync = <<>> /\ sync' = <<x>> /\ UNCHANGED <<requests, lanes, stream, life>> /\ micro' = micro
  BY DEF StreamFails, IdleTurn
<1>2. x \in Step /\ Plain(x)
  BY Doings DEF Plain
<1>3. UNCHANGED <<Map, LaneVars, Process>> /\ Side
  BY <1>1, SideSame DEF RpcInv
<1> HIDE DEF x
<1>4. QED
  BY <1>1, <1>2, <1>3, OneCall

\* stdin has taken the frame.
LEMMA WriteCallbackKeeps == ASSUME RpcInv, NEW f \in Frames, WriteCallback(f) PROVE RpcInv'
<1> DEFINE x == Do("complete", f, "none")
<1>1. /\ sync = <<>> /\ sync' = <<x>> /\ acks' = acks \cup {"callback"}
      /\ UNCHANGED <<requests, queue, active, held, stream, life>> /\ micro' = micro
  BY DEF WriteCallback, IdleTurn
<1>2. x \in Step /\ Plain(x)
  BY Doings DEF Plain
<1>3. UNCHANGED <<Map, LaneVars, Process>> /\ Side
  BY <1>1 DEF Map, LaneVars, Process, Side, requests, stream, life, RpcInv, TypeOK
<1> HIDE DEF x
<1>4. QED
  BY <1>1, <1>2, <1>3, OneCall

\* stdin has room again.
LEMMA DrainKeeps == ASSUME RpcInv, Drain PROVE RpcInv'
<1> DEFINE x == Do("complete", active, "none")
<1>1. /\ sync = <<>> /\ (sync' = <<>> \/ (active # "none" /\ sync' = <<x>>)) /\ micro' = micro
      /\ full' = FALSE /\ acks' \in {acks, acks \cup {"drain"}}
      /\ UNCHANGED <<requests, queue, active, held, wire, ended, life>>
  BY DEF Drain, IdleTurn
<1>2. active # "none" => x \in Step /\ Plain(x)
  BY Doings, Names DEF Plain, RpcInv, TypeOK
<1>3. UNCHANGED <<Map, LaneVars, Process>> /\ Side
  BY <1>1 DEF Map, LaneVars, Process, Side, requests, life, RpcInv, TypeOK
<1>4. sync' = <<>> => sync' = Under
  BY <1>1 DEF Under
<1> HIDE DEF x
<1>5. QED
  BY <1>1, <1>2, <1>3, <1>4, OneCall

\* A deadline passes.
LEMMA ExpireKeeps == ASSUME RpcInv, NEW f \in Frames, Expire(f) PROVE RpcInv'
<1>1. /\ sync = <<>> /\ sync' = <<>> /\ micro' = micro /\ due' = due \cup {f}
      /\ UNCHANGED <<pending, outcome, written, response, fenced, lanes, stream, life>>
  BY DEF Expire, IdleTurn
<1>2. UNCHANGED <<Map, LaneVars, Process>> /\ Side
  BY <1>1 DEF Map, LaneVars, Process, Side, lanes, stream, life, RpcInv, TypeOK
<1>3. sync' = Under
  BY <1>1 DEF Under
<1>4. QED
  BY <1>1, <1>2, <1>3, OneCall

\* The timer of a request faults the transport and rejects the request.
LEMMA RequestTimerKeeps == ASSUME RpcInv, NEW r \in Ids, RequestTimer(r) PROVE RpcInv'
<1> DEFINE x == Do("fail", "none", "lost")
           y == Do("reject", r, "lost")
<1>1. sync = <<>> /\ sync' = <<x, y>> /\ UNCHANGED <<requests, lanes, stream, life>> /\ micro' = micro
  BY DEF RequestTimer, IdleTurn, Expired
<1>2. /\ x \in Step /\ y \in Step /\ x[1] = "fail" /\ x[3] = "lost"
      /\ y[1] = "reject" /\ y[2] = r /\ y[3] = "lost"
  BY Doings, Names
<1>3. UNCHANGED <<Map, LaneVars, Process>> /\ Side
  BY <1>1, SideSame DEF RpcInv
<1> HIDE DEF x, y
<1>4. QED
  BY <1>1, <1>2, <1>3, OneCall

\* The signal of a frame is aborted: it leaves its lane, behind a fault if it was written.
LEMMA CancelFrameKeeps == ASSUME RpcInv, CancelFrame PROVE RpcInv'
<1>1. Calling("cancelFrame") /\ UNCHANGED <<requests, stream, life>>
  BY DEF CancelFrame
<1>2. sync # <<>> /\ sync[1][1] = "cancelFrame" /\ Under = Tail(sync) /\ Arg \in Frames
  BY <1>1, Innermost DEF OfFrame
<1>3. CASE ~Live(Arg)
  <2>1. Then(<<>>) /\ UNCHANGED <<queue, active, acks, held, micro>>
    BY <1>3 DEF CancelFrame
  <2>2. sync' = Under /\ UNCHANGED <<requests, lanes, stream, life>> /\ micro' = micro
    BY <1>1, <2>1, ThenNext DEF lanes
  <2>3. UNCHANGED <<Map, LaneVars, Process>> /\ Side
    BY <2>2, SideSame DEF RpcInv
  <2>4. QED
    BY <1>2, <2>2, <2>3, OneCall
<1>4. CASE Live(Arg)
  <2>1. Arg \in Writing
    BY <1>2, <1>4, Names DEF Live, Writing
  <2>2. CASE Arg \in wire
    <3>1. Finish(Arg, "lost") /\ sync' = <<Do("fail", "none", "lost")>> \o Under
      BY <1>2, <1>4, <2>2 DEF CancelFrame, Then
    <3>2. QED
      BY <1>1, <1>2, <2>1, <3>1, Doings, OneFrame
  <2>3. CASE Arg \notin wire
    <3>1. Finish(Arg, "cancelled") /\ sync' = <<Again>> \o Under
      BY <1>2, <1>4, <2>3 DEF CancelFrame, Then, Again
    <3>2. QED
      BY <1>1, <1>2, <2>1, <2>3, <3>1, Doings, OneFrame
  <2>4. QED
    BY <2>2, <2>3
<1>5. QED
  BY <1>3, <1>4

\* The frame being written is done once it has its callback and its drain.
LEMMA CompleteKeeps == ASSUME RpcInv, Complete PROVE RpcInv'
<1>1. Calling("complete") /\ UNCHANGED <<requests, stream, life>>
  BY DEF Complete
<1>2. sync # <<>> /\ sync[1][1] = "complete" /\ Under = Tail(sync) /\ Arg \in Frames
  BY <1>1, Innermost DEF OfFrame
<1>3. CASE ~(Arg = active /\ acks = {"callback", "drain"})
  <2>1. Then(<<>>) /\ UNCHANGED <<queue, active, acks, held, micro>>
    BY <1>3 DEF Complete
  <2>2. sync' = Under /\ UNCHANGED <<requests, lanes, stream, life>> /\ micro' = micro
    BY <1>1, <2>1, ThenNext DEF lanes
  <2>3. UNCHANGED <<Map, LaneVars, Process>> /\ Side
    BY <2>2, SideSame DEF RpcInv
  <2>4. QED
    BY <1>2, <2>2, <2>3, OneCall
<1>4. CASE Arg = active /\ acks = {"callback", "drain"}
  <2>1. Arg \in Writing
    BY <1>2, <1>4, Names DEF Writing
  <2>2. Finish(Arg, "none") /\ sync' = <<Again>> \o Under
    BY <1>2, <1>4 DEF Complete, Then
  <2>3. QED
    BY <1>1, <1>2, <2>1, <2>2, OneFrame
<1>5. QED
  BY <1>3, <1>4

\* The frame the pump has chosen is in the queue, and not written.
LEMMA Chosen == ASSUME RpcInv, NEW f, Pumping(f)
                PROVE /\ sync # <<>> /\ sync[1][1] = "pump" /\ Under = Tail(sync) /\ active = "none" /\ ~closed
                      /\ f \in Range(queue) /\ f \in Writing /\ f \in Frames /\ f \notin wire
<1>1. Calling("pump") /\ active = "none" /\ ~closed /\ NextFrame(f)
  BY DEF Pumping
<1>2. f \in Range(queue)
  BY <1>1 DEF NextFrame, Range
<1>3. QED
  BY <1>1, <1>2, Innermost, WritingShape DEF RpcInv, InvFrames

\* The pump drops the frame it has chosen.
LEMMA PumpDropsKeep ==
  ASSUME RpcInv, NEW f, PumpHeld(f) \/ PumpEnded(f) \/ PumpLate(f) \/ PumpFenced(f)
  PROVE  RpcInv'
<1>1. Pumping(f) /\ UNCHANGED <<requests, stream, life>>
  BY DEF PumpHeld, PumpEnded, PumpLate, PumpFenced, Drop
<1>2. sync # <<>> /\ sync[1][1] = "pump" /\ Under = Tail(sync) /\ f \in Writing /\ f \notin wire
  BY <1>1, Chosen
<1>3. CASE PumpHeld(f) \/ PumpFenced(f)
  <2>1. Finish(f, "cancelled") /\ sync' = <<Again>> \o Under
    BY <1>2, <1>3 DEF PumpHeld, PumpFenced, Drop, Then
  <2>2. QED
    BY <1>1, <1>2, <2>1, Doings, OneFrame
<1>4. CASE PumpEnded(f)
  <2>1. Finish(f, "lost") /\ sync' = <<Do("fail", "none", "lost"), Again>> \o Under
    BY <1>2, <1>4 DEF PumpEnded, Drop, Then
  <2>2. QED
    BY <1>1, <1>2, <2>1, Doings, OneFrame
<1>5. CASE PumpLate(f)
  <2>1. Finish(f, "lost") /\ sync' = <<Do("fail", "none", "lost")>> \o Under
    BY <1>2, <1>5 DEF PumpLate, Drop, Then
  <2>2. QED
    BY <1>1, <1>2, <2>1, Doings, OneFrame
<1>6. QED
  BY <1>3, <1>4, <1>5

\* The write of a frame fails, or its deadline passes.
LEMMA WriteEndsKeep == ASSUME RpcInv, NEW f \in Frames, WriteError(f) \/ WriteTimer(f) PROVE RpcInv'
<1>1. /\ sync = <<>> /\ Finish(f, "lost") /\ sync' = <<Do("fail", "none", "lost")>>
      /\ UNCHANGED <<requests, stream, life>> /\ (f = active \/ Live(f))
  BY DEF WriteError, WriteTimer, IdleTurn
<1>2. f \in Writing
  BY <1>1, Names DEF Live, Writing
<1>3. QED
  BY <1>1, <1>2, Doings, OneFrame

\* A promise settles, and that is the end of the call.
LEMMA OnePromise ==
  ASSUME RpcInv, UNCHANGED <<LaneVars, Process>>, UNCHANGED <<acks, full, ended>>, micro' = micro,
         response \subseteq response', response' \subseteq Ids, sync' = Under,
         NEW f \in Frames, NEW how \in Errors \cup {"answered"}, SettleOne(f, how),
         sync # <<>> => sync[1][1] = "settled" /\ sync[1][2] = f,
         how = "cancelled" => f \notin wire,
         f \in Ids => f \in Pending /\ f \in response',
         f \in Dialogs => For({"settled"}, f)
  PROVE  RpcInv'
<1> USE Splits
<1> DEFINE X == {}
<1>1. MicroOk /\ Behind' = Behind
  BY MicroSame
<1>2. LanesBalanced'
  BY DEF LaneVars, LanesBalanced, Writing, InLane
<1>3. sync' \in Seq(Step) /\ Range(sync') = X \cup Rest /\ InvStack'
  BY <1>1, PushNone
<1>4. /\ pending' \in Seq(Ids) /\ outcome' \in [Frames -> Outcomes]
      /\ written' \subseteq Ids /\ due' \subseteq Frames /\ fenced' \subseteq Frames
  BY SettleEffect DEF Turns, Outcomes
<1>5. TypeOK'
  BY <1>3, <1>4 DEF TypeOK, LaneVars, Process
<1>6. \A x \in X : Plain(x)
  OBVIOUS
<1> HIDE DEF X
<1>7. Turns'
  BY <1>1, <1>3, <1>6, PromisesSettle
<1>8. QED
  BY <1>2, <1>3, <1>5, <1>7

\* The reaction to a frame's promise.
LEMMA SettledKeeps == ASSUME RpcInv, Settled PROVE RpcInv'
<1>1. Calling("settled") /\ UNCHANGED <<response, lanes, stream, life>> /\ micro' = micro
  BY DEF Settled
<1>2. /\ sync # <<>> /\ sync[1] \in Ahead /\ sync[1][1] = "settled" /\ sync[1][2] = Arg /\ sync[1][3] = Error
      /\ Under = Tail(sync) /\ Arg \in Frames /\ Error \in Errors \cup {"none"} /\ For({"settled"}, Arg)
  BY <1>1, Innermost DEF OfFrame, For
<1>3. Error = "cancelled" => Arg \notin wire
  BY <1>2 DEF RpcInv, InvFrames
<1>4. /\ UNCHANGED <<LaneVars, Process>> /\ UNCHANGED <<acks, full, ended>>
      /\ response' = response /\ response' \subseteq Ids
  BY <1>1 DEF LaneVars, Process, lanes, stream, life, RpcInv, TypeOK
<1>5. CASE Arg \in Dialogs
  <2> DEFINE how == IF Error = "none" THEN "answered" ELSE Error
  <2>1. SettleOne(Arg, how) /\ sync' = Under
    BY <1>1, <1>5, ThenNext DEF Settled
  <2>2. how \in Errors \cup {"answered"} /\ (how = "cancelled" => Arg \notin wire)
    BY <1>2, <1>3, Doings
  <2>3. Arg \notin Ids
    BY <1>5, Names
  <2> HIDE DEF how
  <2>4. QED
    BY <1>1, <1>2, <1>4, <2>1, <2>2, <2>3, OnePromise
<1>6. CASE Arg \notin Dialogs /\ Error # "none"
  <2> DEFINE x == Do("reject", Arg, Error)
  <2>1. sync' = <<x>> \o Under /\ UNCHANGED promises
    BY <1>2, <1>6 DEF Settled, Then
  <2>2. Arg \in Ids
    BY <1>2, <1>6, Names
  <2>3. x \in Step /\ x[1] = "reject" /\ x[2] = Arg /\ x[3] = Error
    BY <1>2, Doings
  <2>4. UNCHANGED <<Map, LaneVars, Process>> /\ Side
    BY <1>1, <1>4, <2>1 DEF promises, Map, Side, RpcInv, TypeOK
  <2>5. (Error = "cancelled" /\ Arg \notin wire) \/ (Error = "lost" /\ Excused)
    BY <1>2, <1>3, <1>6, Doings DEF RpcInv, InvAnswers
  <2> HIDE DEF x
  <2>6. QED
    BY <1>1, <1>2, <1>6, <2>1, <2>2, <2>3, <2>4, <2>5, OneCall
<1>7. CASE Arg \notin Dialogs /\ Error = "none" /\ Arg \in Pending \cap response
  <2>1. SettleOne(Arg, "answered") /\ sync' = Under
    BY <1>1, <1>7, ThenNext DEF Settled
  <2>2. QED
    BY <1>1, <1>2, <1>4, <1>7, <2>1, OnePromise
<1>8. CASE Arg \notin Dialogs /\ Error = "none" /\ Arg \notin Pending \cap response
  <2>1. sync' = Under /\ written' = written \cup ({Arg} \cap Pending) /\ UNCHANGED <<pending, outcome, due, fenced>>
    BY <1>1, <1>8, ThenNext DEF Settled
  <2>2. Pending \subseteq Ids
    BY WritingShape DEF RpcInv
  <2>3. UNCHANGED <<Map, LaneVars, Process>> /\ Side
    BY <1>1, <1>4, <2>1, <2>2 DEF Map, Side, RpcInv, TypeOK
  <2>4. QED
    BY <1>1, <1>2, <1>8, <2>1, <2>3, OneCall
<1>9. QED
  BY <1>5, <1>6, <1>7, <1>8

\* The worker answers: while the transport is healthy, a request that is pending.
LEMMA ReplyKeeps == ASSUME RpcInv, NEW r \in Ids, Reply(r) PROVE RpcInv'
<1>1. /\ sync = <<>> /\ ~closed /\ r \in wire /\ r \notin response /\ response' = response \cup {r} /\ micro' = micro
      /\ UNCHANGED <<lanes, stream, life>> /\ Under = <<>> /\ Rest = {} /\ Range(sync) = {}
  BY StackShape DEF Reply, IdleTurn, RpcInv
<1>2. fault # "none" \/ stopping \/ r \in Pending
  BY <1>1 DEF RpcInv, InvAnswers, InvStop, Excused
<1>3. sync' = Under
  BY <1>1, <1>2 DEF Reply
<1>4. UNCHANGED <<LaneVars, Process>> /\ UNCHANGED <<acks, full, ended>> /\ response' \subseteq Ids
  BY <1>1 DEF LaneVars, Process, lanes, stream, life, RpcInv, TypeOK
<1>5. CASE r \in Pending \cap written
  <2>1. SettleOne(r, "answered")
    BY <1>5 DEF Reply
  <2>2. r \in Frames /\ r \notin Dialogs /\ "answered" \in Errors \cup {"answered"} /\ "answered" # "cancelled"
    BY Names
  <2>3. response \subseteq response' /\ r \in response'
    BY <1>1
  <2>4. QED
    BY <1>1, <1>3, <1>4, <1>5, <2>1, <2>2, <2>3, OnePromise
<1>6. CASE r \notin Pending \cap written
  <2>1. UNCHANGED promises
    BY <1>6 DEF Reply
  <2>2. InvStack' /\ sync' = <<>>
    BY <1>1, <1>3 DEF RpcInv, InvStack, Behind, Rest
  <2>3. TypeOK' /\ LanesBalanced'
    BY <1>1, <1>4, <2>1, <2>2 DEF TypeOK, LanesBalanced, Writing, InLane, LaneVars, Process, promises, RpcInv
  <2>4. Ahead' = Ahead /\ Pending' = Pending /\ Writing' = Writing /\ Range(sync') = Range(sync)
    BY <1>1, <1>4, <2>1, <2>2 DEF Ahead, Behind, Pending, Writing, LaneVars, promises
  <2>5. /\ UNCHANGED <<pending, outcome, queue, active, wire, started, closed, stopping, fault, stop>>
        /\ response \subseteq response'
    BY <1>1, <1>4, <2>1 DEF LaneVars, Process, promises
  <2>6. InvCalls' /\ InvStop' /\ InvRequests' /\ InvClosed'
    BY <2>4, <2>5 DEF RpcInv, InvCalls, InvStop, InvRequests, InvClosed
  <2>7. InvFrames'
    BY <2>4, <2>5 DEF RpcInv, InvFrames, For
  <2>8. InvAnswers'
    BY <2>4, <2>5 DEF RpcInv, InvAnswers, Excused
  <2>9. QED
    BY <2>2, <2>3, <2>6, <2>7, <2>8 DEF RpcInv
<1>7. QED
  BY <1>5, <1>6

\* Every request is rejected, and each frame of one is to be taken from its lane.
LEMMA RejectAllKeeps == ASSUME RpcInv, RejectAll PROVE RpcInv'
<1> DEFINE inner == [i \in DOMAIN pending |-> Do("cancelFrame", pending[i], "none")]
<1>1. Calling("rejectAll") /\ UNCHANGED <<response, lanes, stream, life>> /\ micro' = micro
  BY DEF RejectAll
<1>2. /\ sync # <<>> /\ sync[1] \in Ahead /\ sync[1][1] = "rejectAll" /\ Under = Tail(sync) /\ Error = "lost"
  BY <1>1, Innermost
<1>3. /\ pending' = <<>> /\ outcome' = [f \in Frames |-> IF f \in Pending THEN "lost" ELSE outcome[f]]
      /\ written' = written \ Pending /\ due' = due \ Pending /\ fenced' = fenced \ Pending
      /\ sync' = inner \o Under
  BY <1>2 DEF RejectAll, Settle, Then
<1>4. MicroOk /\ Behind' = Behind
  BY <1>1, MicroSame DEF RpcInv
<1>5. DOMAIN pending = 1..Len(pending) /\ Len(pending) \in Nat /\ \A i \in 1..Len(pending) : pending[i] \in Ids
  BY LenProperties, ElementOfSeq DEF RpcInv, TypeOK
<1>6. \A i \in 1..Len(pending) : /\ Do("cancelFrame", pending[i], "none") \in Step
                                 /\ Do("cancelFrame", pending[i], "none")[1] = "cancelFrame"
                                 /\ Do("cancelFrame", pending[i], "none")[2] \in Frames
  BY <1>5, Doings, Names
<1>7. /\ inner \in Seq(Step) /\ Len(inner) = Len(pending)
      /\ \A i \in 1..Len(inner) : inner[i][1] = "cancelFrame" /\ inner[i][2] \in Frames
      /\ Range(inner) = {inner[i] : i \in 1..Len(inner)}
  <2>1. inner \in [1..Len(pending) -> Step]
    BY <1>5, <1>6
  <2>2. inner \in Seq(Step) /\ Len(inner) = Len(pending)
    BY <2>1, <1>5, SeqDef
  <2>3. \A i \in 1..Len(inner) : inner[i][1] = "cancelFrame" /\ inner[i][2] \in Frames
    BY <2>2, <1>5, <1>6
  <2> HIDE DEF inner
  <2>4. QED
    BY <2>2, <2>3, RangeEquality
<1> HIDE DEF inner
<1>8. sync' \in Seq(Step) /\ Range(sync') = Range(inner) \cup Rest /\ InvStack'
  <2>1. \A i \in 1..Len(inner) : inner[i][1] \notin Reactions /\ inner[i][1] \notin {"enqueue", "reject", "send"}
    BY <1>7, Doings
  <2>2. TypeOK /\ InvStack
    BY DEF RpcInv
  <2>3. QED
    BY <1>3, <1>4, <1>7, <2>1, <2>2, StackPush
<1>9. Pending' = {} /\ Pending \subseteq Ids /\ Writing' = Writing
  BY <1>1, <1>3, ShortSequences, WritingShape DEF Pending, Writing, lanes, RpcInv
<1>10. /\ outcome' \in [Frames -> Outcomes]
       /\ \A f \in Frames : outcome'[f] = IF f \in Pending THEN "lost" ELSE outcome[f]
  BY <1>3 DEF RpcInv, TypeOK, Outcomes, Errors
<1>11. /\ UNCHANGED <<response, queue, active, wire, started, closed, stopping, fault, stop>>
       /\ \A x \in Range(inner) : x[1] = "cancelFrame" /\ x[2] \in Frames
  BY <1>1, <1>7 DEF lanes, stream, life
<1>12. TypeOK' /\ LanesBalanced'
  <2>1. pending' \in Seq(Ids)
    BY <1>3
  <2>2. QED
    BY <1>1, <1>3, <1>8, <1>9, <1>10, <2>1 DEF RpcInv, TypeOK, LanesBalanced, InLane, lanes, stream, life
<1>13. /\ Ahead' = Range(inner) \cup Rest \cup Behind /\ Rest \cup Behind \subseteq Ahead
       /\ Ahead = {sync[1]} \cup Rest \cup Behind /\ Range(sync) = {sync[1]} \cup Rest
  BY <1>2, <1>4, <1>8, StackShape DEF Ahead, RpcInv
<1>14. InvCalls'
  BY <1>11, <1>13 DEF RpcInv, InvCalls, OfFrame, OfRequest
<1>15. \A r \in Ids : r \in Pending <=> outcome[r] = "pending"
  BY DEF RpcInv, InvRequests
<1>16. \A f \in Frames : outcome'[f] = "new" <=> outcome[f] = "new"
  BY <1>9, <1>10, <1>15
<1>17. InvStop'
  <2>1. \A s \in Ahead : s[1] = "send" => s[2] \in Frames
    BY Names DEF RpcInv, InvCalls, OfRequest
  <2>2. QED
    BY <1>2, <1>11, <1>13, <1>16, <2>1, Names DEF RpcInv, InvStop
<1>18. InvRequests'
  <2>1. IsInjective(pending')
    BY <1>3 DEF IsInjective
  <2>2. \A r \in Ids : outcome'[r] # "pending"
    BY <1>10, <1>15, Names
  <2>3. QED
    BY <1>9, <2>1, <2>2 DEF InvRequests
<1>19. \A g : For({"enqueue", "settled"}, g)' <=> For({"enqueue", "settled"}, g)
  BY <1>2, <1>11, <1>13 DEF For
<1>20. \A g : For({"settled"}, g)' <=> For({"settled"}, g)
  BY <1>2, <1>11, <1>13 DEF For
<1>21. /\ \A d \in Dialogs : outcome'[d] = outcome[d]
       /\ \A f \in Frames : outcome'[f] = "cancelled" => outcome[f] = "cancelled"
  BY <1>9, <1>10, Names
<1>22. \A s \in Ahead' : s[1] # "enqueue"
  BY <1>11, <1>13 DEF RpcInv, InvStack, Reactions, Bodies
<1>23. InvFrames'
  <2>1. wire \subseteq Frames
    BY DEF RpcInv, TypeOK
  <2>2. QED
    BY <1>9, <1>11, <1>13, <1>16, <1>19, <1>20, <1>21, <1>22, <2>1, Names DEF RpcInv, InvFrames
<1>24. Excused'
  <2>1. Excused
    BY <1>2 DEF RpcInv, InvAnswers
  <2>2. UNCHANGED Process
    BY <1>11 DEF Process
  <2>3. QED
    BY <1>2, <1>8, <2>1, <2>2, ExcusedStays DEF RpcInv
<1>25. InvAnswers' /\ InvClosed'
  BY <1>2, <1>9, <1>11, <1>13, <1>22, <1>24 DEF RpcInv, InvAnswers, InvClosed
<1>26. QED
  BY <1>8, <1>12, <1>14, <1>17, <1>18, <1>23, <1>25 DEF RpcInv

\* Every frame leaves its lane.
LEMMA RejectWritesKeeps == ASSUME RpcInv, RejectWrites PROVE RpcInv'
<1> DEFINE all == queue \o (IF active = "none" THEN <<>> ELSE <<active>>)
           m == [i \in DOMAIN all |-> Do("settled", all[i], "lost")]
<1>1. Calling("rejectWrites") /\ UNCHANGED <<requests, stream, life>>
  BY DEF RejectWrites
<1>2. /\ sync # <<>> /\ sync[1] \in Ahead /\ sync[1][1] = "rejectWrites" /\ Under = Tail(sync) /\ Error = "lost"
  BY <1>1, Innermost
<1>3. /\ micro' = micro \o m /\ queue' = <<>> /\ active' = "none" /\ acks' = {} /\ sync' = Under
      /\ held' = [lane \in Lanes |-> held[lane] - Released(lane)]
  BY <1>1, <1>2, ThenNext DEF RejectWrites
<1>4. all \in Seq(Frames) /\ Range(all) = Writing
  <2>1. queue \in Seq(Frames) /\ (active = "none" \/ active \in Frames)
    BY DEF RpcInv, TypeOK
  <2>2. CASE active = "none"
    BY <2>1, <2>2, ConcatEmptySeq DEF Writing
  <2>3. CASE active # "none"
    <3>1. <<active>> \in Seq(Frames) /\ Range(<<active>>) = {active}
      BY <2>1, <2>3, ShortSequences
    <3>2. all = queue \o <<active>>
      BY <2>3
    <3>3. Writing = Range(queue) \cup {active}
      BY <2>3 DEF Writing
    <3>4. queue \o <<active>> \in Seq(Frames)
      BY <2>1, <3>1, ConcatProperties
    <3>5. Range(queue \o <<active>>) = Range(queue) \cup Range(<<active>>)
      BY <2>1, <3>1, RangeConcatenation
    <3>6. QED
      BY <3>1, <3>2, <3>3, <3>4, <3>5
  <2>4. QED
    BY <2>2, <2>3
<1> HIDE DEF all
<1>5. /\ DOMAIN all = 1..Len(all) /\ Len(all) \in Nat /\ \A i \in 1..Len(all) : all[i] \in Frames
      /\ Writing = {all[i] : i \in 1..Len(all)}
  BY <1>4, LenProperties, ElementOfSeq, RangeEquality
<1>6. \A f \in Frames : /\ Do("settled", f, "lost") \in Step /\ Do("settled", f, "lost")[1] = "settled"
                        /\ Do("settled", f, "lost")[2] = f /\ Do("settled", f, "lost")[3] = "lost"
  BY Doings
<1>7. /\ m \in Seq(Step) /\ Len(m) = Len(all) /\ \A i \in 1..Len(m) : m[i] = Do("settled", all[i], "lost")
  <2>1. m \in [1..Len(all) -> Step]
    BY <1>5, <1>6
  <2>2. m \in Seq(Step) /\ Len(m) = Len(all)
    BY <2>1, <1>5, SeqDef
  <2>3. QED
    BY <2>2, <1>5
<1> HIDE DEF m
<1>8. Range(m) = {Do("settled", f, "lost") : f \in Writing}
  <2>1. Range(m) = {m[i] : i \in 1..Len(m)}
    BY <1>7, RangeEquality
  <2>2. QED
    BY <2>1, <1>5, <1>7
<1>9. MicroOk /\ Behind' = Behind \cup Range(m)
  <2>1. \A i \in 1..Len(m) : m[i][1] = "settled"
    BY <1>5, <1>6, <1>7
  <2>2. QED
    BY <1>3, <1>7, <2>1, MicroMany DEF RpcInv
<1>10. sync' \in Seq(Step) /\ Range(sync') = Rest /\ InvStack'
  BY <1>3, <1>9, PushNone DEF RpcInv
<1>11. Range(queue') = {} /\ Writing' = {} /\ Writing \subseteq Frames /\ Pending' = Pending
  BY <1>1, <1>3, ShortSequences, WritingShape DEF Writing, Pending, requests, RpcInv
<1>12. \A lane \in Lanes : held'[lane] = 0
  BY <1>3, LaneCounts, WritingShape DEF RpcInv, LanesBalanced, Released, TypeOK
<1>13. LanesBalanced'
  <2>1. \A lane \in Lanes : InLane(Writing', lane) = {}
    BY <1>11 DEF InLane
  <2>2. Cardinality({}) = 0
    BY FS_EmptySet
  <2>3. QED
    BY <1>12, <2>1, <2>2 DEF LanesBalanced
<1>14. TypeOK'
  <2>1. held' \in [Lanes -> Nat]
    BY <1>3, <1>12
  <2>2. queue' \in Seq(Frames) /\ micro' \in Seq(Step)
    BY <1>3, <1>9 DEF MicroOk
  <2>3. QED
    BY <1>1, <1>3, <1>10, <2>1, <2>2 DEF RpcInv, TypeOK, requests, stream, life
<1>15. UNCHANGED <<pending, outcome, response, wire, started, closed, stopping, fault, stop>>
  BY <1>1 DEF requests, stream, life
<1>16. \A y \in Range(m) : y[1] = "settled" /\ y[2] \in Writing /\ y[3] = "lost"
  BY <1>6, <1>8, <1>11
<1>17. \A f \in Writing : \E y \in Range(m) : y[1] = "settled" /\ y[2] = f
  BY <1>6, <1>8, <1>11
<1>18. /\ Ahead' = Rest \cup Behind \cup Range(m) /\ Rest \cup Behind \subseteq Ahead
       /\ Ahead = {sync[1]} \cup Rest \cup Behind /\ Range(sync) = {sync[1]} \cup Rest
       /\ \A s \in Rest \cup Behind : s[1] # "enqueue"
  BY <1>2, <1>9, <1>10, StackShape DEF Ahead, RpcInv, InvStack, Reactions, Bodies
<1>19. InvCalls'
  BY <1>11, <1>16, <1>18 DEF RpcInv, InvCalls, OfFrame, OfRequest, Errors
<1>20. InvStop' /\ InvRequests'
  BY <1>2, <1>11, <1>15, <1>16, <1>18 DEF RpcInv, InvStop, InvRequests
<1>21. /\ \A f \in Writing : outcome[f] # "new"
       /\ \A s \in Ahead' : s[1] # "enqueue"
  BY <1>11, <1>16, <1>18 DEF RpcInv, InvFrames
<1>22. /\ \A g : For({"enqueue", "settled"}, g)' => g \in Writing \/ For({"enqueue", "settled"}, g)
       /\ \A g : g \in Writing \/ For({"enqueue", "settled"}, g) => For({"enqueue", "settled"}, g)'
  BY <1>2, <1>16, <1>17, <1>18 DEF For
<1>23. InvFrames'
  <2>1. IsInjective(queue')
    BY <1>3 DEF IsInjective
  <2>2. QED
    BY <1>3, <1>11, <1>15, <1>16, <1>18, <1>21, <1>22, <2>1 DEF RpcInv, InvFrames
<1>24. Excused'
  <2>1. Excused
    BY <1>2 DEF RpcInv, InvAnswers
  <2>2. UNCHANGED Process
    BY <1>15 DEF Process
  <2>3. QED
    BY <1>2, <1>10, <2>1, <2>2, ExcusedStays DEF RpcInv
<1>25. InvAnswers' /\ InvClosed'
  BY <1>2, <1>11, <1>15, <1>16, <1>18, <1>21, <1>24 DEF RpcInv, InvAnswers, InvClosed
<1>26. QED
  BY <1>10, <1>13, <1>14, <1>19, <1>20, <1>23, <1>25 DEF RpcInv

-----------------------------------------------------------------------------
(* The steps that begin something. *)

\* A send is the last call of its turn.
LEMMA SendIsLast == ASSUME RpcInv, Calling("send") PROVE Rest = {} /\ Range(sync) = {sync[1]}
<1>1. sync # <<>> /\ sync[1][1] = "send" /\ sync \in Seq(Step) /\ Range(sync) = {sync[1]} \cup Rest
  BY Innermost, StackShape DEF RpcInv, TypeOK
<1>2. Len(sync) \in Nat /\ Len(sync) >= 1 /\ Tail(sync) \in Seq(Step) /\ Len(Tail(sync)) = Len(sync) - 1
  BY <1>1, RangeOfTail
<1>3. ~(1 \in 1..(Len(sync) - 1))
  BY <1>1 DEF RpcInv, InvStack
<1>4. Tail(sync) = <<>>
  BY <1>2, <1>3, EmptySeq
<1>5. QED
  BY <1>1, <1>4, ShortSequences DEF Rest

\* A new frame is settled at once: it was never in a lane.
LEMMA NewEnds ==
  ASSUME RpcInv, UNCHANGED <<LaneVars, Process, pending, response>>, micro' = micro, Side, Rest = {},
         NEW f \in Frames, outcome[f] = "new",
         NEW how \in {"refused", "ineligible", "lost", "cancelled"}, outcome' = [outcome EXCEPT ![f] = how],
         sync = <<>> => f \in Dialogs,
         sync # <<>> => sync[1][1] = "send" /\ sync[1][2] = f,
         sync' = Under \/ sync' = <<Do("fail", "none", "lost")>> \o Under
  PROVE  RpcInv'
<1> DEFINE x == Do("fail", "none", "lost")
<1>1. MicroOk /\ Behind' = Behind
  BY MicroSame DEF RpcInv
<1>2. x \in Step /\ x[1] = "fail" /\ x[3] = "lost" /\ x[1] \notin Reactions
  BY Doings
<1>3. sync' \in Seq(Step) /\ InvStack' /\ Range(sync') \subseteq {x}
  <2>1. CASE sync' = Under
    BY <1>1, <2>1, PushNone DEF RpcInv
  <2>2. CASE sync' = <<x>> \o Under
    BY <1>1, <1>2, <2>2, PushOne DEF RpcInv
  <2>3. QED
    BY <2>1, <2>2
<1> HIDE DEF x
<1>4. /\ outcome' \in [Frames -> Outcomes] /\ \A g \in Frames : outcome'[g] = IF g = f THEN how ELSE outcome[g]
      /\ how \notin {"new", "pending"}
  BY DEF RpcInv, TypeOK, Outcomes, Errors
<1>5. /\ Pending' = Pending /\ Writing' = Writing
      /\ UNCHANGED <<pending, response, queue, active, wire, started, closed, stopping, fault, stop>>
  BY DEF Pending, Writing, LaneVars, Process
<1>6. TypeOK' /\ LanesBalanced'
  BY <1>1, <1>3, <1>4 DEF RpcInv, TypeOK, Side, MicroOk, LaneVars, Process, LanesBalanced, Writing, InLane
<1>7. /\ Ahead' \subseteq {x} \cup Behind /\ Behind \subseteq Ahead /\ Behind \subseteq Ahead'
      /\ \A s \in Behind : s[1] \notin {"send", "enqueue", "fail"}
      /\ sync # <<>> => Ahead = {sync[1]} \cup Behind
      /\ sync = <<>> => Ahead = Behind /\ Range(sync) = {}
  BY <1>1, <1>3, StackShape DEF Ahead, RpcInv, InvStack, Reactions, Bodies
<1>8. /\ \A s \in Ahead' : s[1] # "send"
      /\ \A s \in Ahead' : s \in Ahead \/ (s[1] = "fail" /\ s[3] = "lost")
  BY <1>2, <1>7
<1>9. InvCalls' /\ InvClosed'
  <2>1. \A s \in Ahead : s[1] \in {"rejectAll", "rejectWrites"} => s \in Ahead'
    BY <1>7
  <2>2. QED
    BY <1>5, <1>8, <2>1 DEF RpcInv, InvCalls, InvClosed, OfFrame, OfRequest
<1>10. InvStop'
  <2>1. f = StopClear => stop = "clearing"
    BY <1>7, Names DEF RpcInv, InvStop
  <2>2. f = StopAbort => stop = "aborting"
    BY <1>7, Names DEF RpcInv, InvStop
  <2>3. stop = "idle" => \E s \in Ahead' : s[1] = "idleBody"
    BY <1>7 DEF RpcInv, InvStop
  <2>4. QED
    BY <1>4, <1>5, <1>8, <2>1, <2>2, <2>3, Names DEF RpcInv, InvStop
<1>11. InvRequests'
  BY <1>4, <1>5, Names DEF RpcInv, InvRequests
<1>12. /\ \A g : For({"enqueue", "settled"}, g)' => For({"enqueue", "settled"}, g)
       /\ \A g : For({"settled"}, g)' => For({"settled"}, g)
       /\ \A g : For({"enqueue", "settled"}, g) => For({"enqueue", "settled"}, g)'
  BY <1>7, <1>8 DEF For
<1>13. InvFrames'
  <2>1. f \notin Writing \cup wire
    BY DEF RpcInv, InvFrames
  <2>2. wire \subseteq Frames
    BY DEF RpcInv, TypeOK
  <2>3. QED
    BY <1>4, <1>5, <1>8, <1>12, <2>1, <2>2, Names DEF RpcInv, InvFrames
<1>14. Excused => Excused'
  <2>1. sync # <<>> => sync[1][1] # "fail"
    OBVIOUS
  <2>2. QED
    BY <2>1, ExcusedStays DEF RpcInv
<1>15. InvAnswers'
  BY <1>5, <1>8, <1>14 DEF RpcInv, InvAnswers
<1>16. QED
  BY <1>3, <1>6, <1>9, <1>10, <1>11, <1>13, <1>15 DEF RpcInv


\* A new frame is to be queued: its promise is open.
LEMMA NewPends ==
  ASSUME RpcInv, UNCHANGED <<LaneVars, Process, response>>, micro' = micro, Side, Rest = {}, ~closed,
         NEW f \in Frames, outcome[f] = "new", outcome' = [outcome EXCEPT ![f] = "pending"],
         pending' = IF f \in Ids THEN Append(pending, f) ELSE pending,
         sync = <<>> => f \in Dialogs,
         sync # <<>> => sync[1][1] = "send" /\ sync[1][2] = f,
         \/ sync' = <<Do("enqueue", f, "none")>> \o Under
         \/ sync = <<>> /\ sync' = <<Do("enqueue", f, "none")>>
  PROVE  RpcInv'
<1> DEFINE x == Do("enqueue", f, "none")
<1>1. MicroOk /\ Behind' = Behind
  BY MicroSame DEF RpcInv
<1>2. x \in Step /\ x[1] = "enqueue" /\ x[2] = f /\ x[1] \notin Reactions
  BY Doings
<1> HIDE DEF x
<1>3. sync' \in Seq(Step) /\ InvStack' /\ Range(sync') = {x}
  <2>1. sync' = <<x>> \o Under \/ (sync = <<>> /\ sync' = <<x>>)
    BY DEF x
  <2>2. QED
    BY <1>1, <1>2, <2>1, PushOne DEF RpcInv
<1>4. /\ outcome' \in [Frames -> Outcomes]
      /\ \A g \in Frames : outcome'[g] = IF g = f THEN "pending" ELSE outcome[g]
  BY DEF RpcInv, TypeOK, Outcomes
<1>5. /\ pending' \in Seq(Ids) /\ IsInjective(pending')
      /\ Pending' = IF f \in Ids THEN Pending \cup {f} ELSE Pending
  <2>1. pending \in Seq(Ids) /\ IsInjective(pending)
    BY DEF RpcInv, TypeOK, InvRequests
  <2>2. CASE f \in Ids
    <3>1. f \notin Range(pending)
      BY <2>2 DEF RpcInv, InvRequests, Pending
    <3>2. QED
      BY <2>1, <2>2, <3>1, RangeOfAppend, AppendOnce DEF Pending
  <2>3. CASE f \notin Ids
    BY <2>1, <2>3 DEF Pending
  <2>4. QED
    BY <2>2, <2>3
<1>6. Writing' = Writing /\ UNCHANGED <<response, queue, active, wire, started, closed, stopping, fault, stop>>
  BY DEF Writing, LaneVars, Process
<1>7. TypeOK' /\ LanesBalanced'
  BY <1>1, <1>3, <1>4, <1>5 DEF RpcInv, TypeOK, Side, MicroOk, LaneVars, Process, LanesBalanced, Writing, InLane
<1>8. /\ Ahead' = {x} \cup Behind /\ Behind \subseteq Ahead
      /\ \A s \in Behind : s[1] \notin {"send", "enqueue", "fail"}
      /\ sync # <<>> => Ahead = {sync[1]} \cup Behind
      /\ sync = <<>> => Ahead = Behind /\ Range(sync) = {}
  BY <1>1, <1>3, StackShape DEF Ahead, RpcInv, InvStack, Reactions, Bodies
<1>9. InvCalls' /\ InvClosed'
  BY <1>2, <1>6, <1>8 DEF RpcInv, InvCalls, InvClosed, OfFrame, OfRequest
<1>10. InvStop'
  <2>1. f = StopClear => stop = "clearing"
    BY <1>8, Names DEF RpcInv, InvStop
  <2>2. f = StopAbort => stop = "aborting"
    BY <1>8, Names DEF RpcInv, InvStop
  <2>3. stop = "idle" => \E s \in Ahead' : s[1] = "idleBody"
    BY <1>8 DEF RpcInv, InvStop
  <2>4. QED
    BY <1>2, <1>4, <1>6, <1>8, <2>1, <2>2, <2>3, Names DEF RpcInv, InvStop
<1>11. InvRequests'
  BY <1>4, <1>5, Names DEF RpcInv, InvRequests
<1>12. /\ \A g : For({"enqueue", "settled"}, g)' <=> g = f \/ For({"enqueue", "settled"}, g)
       /\ \A g : For({"settled"}, g)' => For({"settled"}, g)
  BY <1>2, <1>8 DEF For
<1>13. InvFrames'
  <2>1. f \notin Writing \cup wire /\ ~For({"settled"}, f)
    BY DEF RpcInv, InvFrames, For
  <2>2. wire \subseteq Frames
    BY DEF RpcInv, TypeOK
  <2>3. QED
    BY <1>2, <1>4, <1>6, <1>8, <1>12, <2>1, <2>2, Names DEF RpcInv, InvFrames
<1>14. Excused => Excused'
  BY <1>6, <1>8, SendIsLast, StackShape DEF Excused, RpcInv
<1>15. InvAnswers'
  BY <1>2, <1>5, <1>6, <1>8, <1>14 DEF RpcInv, InvAnswers
<1>16. QED
  BY <1>3, <1>7, <1>9, <1>10, <1>11, <1>13, <1>15 DEF RpcInv

\* A request is made: refused, one too many, cancelled at once, or on its way to its lane.
LEMMA SendFrameKeeps == ASSUME RpcInv, SendFrame PROVE RpcInv'
<1>1. /\ Calling("send") /\ UNCHANGED <<written, response, due, fenced, lanes, stream, life>> /\ micro' = micro
  BY DEF SendFrame
<1>2. /\ sync # <<>> /\ sync[1] \in Ahead /\ sync[1][1] = "send" /\ sync[1][2] = Arg /\ Under = Tail(sync)
      /\ Arg \in Ids /\ Arg \in Frames /\ Rest = {}
  BY <1>1, Innermost, SendIsLast, Names DEF OfRequest
<1>3. outcome[Arg] = "new"
  BY <1>2 DEF RpcInv, InvStop
<1>4. UNCHANGED <<LaneVars, Process, response>> /\ Side
  BY <1>1 DEF LaneVars, Process, lanes, stream, life, Side, RpcInv, TypeOK
<1>5. ASSUME NEW how \in {"refused", "ineligible", "lost", "cancelled"},
             outcome' = [outcome EXCEPT ![Arg] = how], pending' = pending,
             sync' = Under \/ sync' = <<Do("fail", "none", "lost")>> \o Under
      PROVE  RpcInv'
  BY <1>1, <1>2, <1>3, <1>4, <1>5, NewEnds
<1>6. CASE Unavailable(Arg) \/ ~Eligible(Arg)
  <2>1. /\ outcome' = [outcome EXCEPT ![Arg] = IF Unavailable(Arg) THEN "refused" ELSE "ineligible"]
        /\ pending' = pending /\ sync' = Under
    BY <1>1, <1>6, ThenNext DEF SendFrame
  <2>2. QED
    BY <2>1, <1>5
<1>7. CASE ~Unavailable(Arg) /\ Eligible(Arg) /\ ~Capacity(Arg)
  <2>1. /\ outcome' = [outcome EXCEPT ![Arg] = "lost"]
        /\ pending' = pending /\ sync' = <<Do("fail", "none", "lost")>> \o Under
    BY <1>2, <1>7 DEF SendFrame, Then
  <2>2. QED
    BY <2>1, <1>5
<1>8. CASE ~Unavailable(Arg) /\ Eligible(Arg) /\ Capacity(Arg)
  <2>1. CASE Arg \in fenced \cap Signalled
    <3>1. outcome' = [outcome EXCEPT ![Arg] = "cancelled"] /\ pending' = pending /\ sync' = Under
      BY <1>1, <1>8, <2>1, ThenNext DEF SendFrame
    <3>2. QED
      BY <3>1, <1>5
  <2>2. CASE Arg \notin fenced \cap Signalled
    <3>1. /\ outcome' = [outcome EXCEPT ![Arg] = "pending"] /\ pending' = Append(pending, Arg)
          /\ sync' = <<Do("enqueue", Arg, "none")>> \o Under
      BY <1>2, <1>8, <2>2 DEF SendFrame, Then
    <3>2. ~closed /\ pending' = IF Arg \in Ids THEN Append(pending, Arg) ELSE pending
      BY <1>2, <1>8, <3>1 DEF Unavailable
    <3>3. QED
      BY <1>1, <1>2, <1>3, <1>4, <3>1, <3>2, NewPends
  <2>3. QED
    BY <2>1, <2>2
<1>9. QED
  BY <1>6, <1>7, <1>8

\* A dialog is answered: refused, or on its way to its lane.
LEMMA AnswerKeeps == ASSUME RpcInv, NEW d \in Dialogs, Answer(d) PROVE RpcInv'
<1>1. /\ sync = <<>> /\ outcome[d] = "new" /\ UNCHANGED <<pending, written, response, due, fenced, lanes, stream, life>>
      /\ micro' = micro /\ d \in Frames /\ d \notin Ids
  BY Names DEF Answer, CallerTurn
<1>2. Rest = {} /\ Under = <<>>
  BY <1>1 DEF Rest, Under
<1>3. UNCHANGED <<LaneVars, Process, pending, response>> /\ Side
  BY <1>1 DEF LaneVars, Process, lanes, stream, life, Side, RpcInv, TypeOK
<1>4. CASE Unavailable(d)
  <2>1. outcome' = [outcome EXCEPT ![d] = "refused"] /\ sync' = Under
    BY <1>2, <1>4 DEF Answer
  <2>2. QED
    BY <1>1, <1>2, <1>3, <2>1, NewEnds
<1>5. CASE ~Unavailable(d)
  <2>1. outcome' = [outcome EXCEPT ![d] = "pending"] /\ sync' = <<Do("enqueue", d, "none")>> /\ ~closed
    BY <1>5 DEF Answer, Unavailable
  <2>2. pending' = IF d \in Ids THEN Append(pending, d) ELSE pending
    BY <1>1
  <2>3. QED
    BY <1>1, <1>2, <1>3, <2>1, <2>2, NewPends
<1>6. QED
  BY <1>4, <1>5


\* A frame joins its lane, or finds it full.
LEMMA EnqueueKeeps == ASSUME RpcInv, Enqueue PROVE RpcInv'
<1>1. Calling("enqueue") /\ UNCHANGED <<requests, active, acks, stream, life>>
  BY DEF Enqueue
<1>2. /\ sync # <<>> /\ sync[1] \in Ahead /\ sync[1][1] = "enqueue" /\ sync[1][2] = Arg /\ Under = Tail(sync)
      /\ Arg \in Frames
  BY <1>1, Innermost DEF OfFrame
<1>3. Arg \notin Writing \cup wire /\ ~For({"settled"}, Arg) /\ outcome[Arg] = "pending" /\ ~closed
  BY <1>2 DEF RpcInv, InvFrames, InvClosed
<1>4. /\ UNCHANGED <<Map, Process>> /\ UNCHANGED <<pending, outcome, response, active, wire, closed, fault, stop>>
      /\ UNCHANGED <<started, stopping>> /\ Pending' = Pending
  BY <1>1 DEF requests, stream, life, Map, Process, Pending
<1>5. /\ Ahead = {sync[1]} \cup Rest \cup Behind /\ Range(sync) = {sync[1]} \cup Rest
      /\ \A s \in Rest \cup Behind : s[1] # "enqueue"
  BY <1>2, StackShape DEF Ahead, RpcInv, InvStack, Reactions, Bodies
<1> DEFINE limit == IF Arg \in Control THEN CONTROL_WRITES ELSE NORMAL_WRITES
           over == Cardinality(InLane(Writing, LaneOf(Arg))) >= limit
<1>6. CASE over
  <2> DEFINE y == Do("settled", Arg, "lost")
             x == Do("fail", "none", "lost")
  <2>1. micro' = Append(micro, y) /\ sync' = <<x>> \o Under /\ UNCHANGED <<queue, held>>
    BY <1>2, <1>6 DEF Enqueue, Then
  <2>2. /\ y \in Step /\ y[1] = "settled" /\ y[2] = Arg /\ y[3] = "lost"
        /\ x \in Step /\ x[1] = "fail" /\ x[3] = "lost" /\ x[1] \notin Reactions
    BY <1>2, Doings
  <2> HIDE DEF x, y
  <2>3. MicroOk /\ Behind' = Behind \cup {y}
    BY <2>1, <2>2, MicroOne DEF RpcInv
  <2>4. sync' \in Seq(Step) /\ Range(sync') = {x} \cup Rest /\ InvStack'
    BY <2>1, <2>2, <2>3, PushOne DEF RpcInv
  <2>5. Writing' = Writing /\ queue' = queue
    BY <1>1, <2>1 DEF Writing
  <2>6. TypeOK' /\ LanesBalanced'
    BY <1>1, <2>1, <2>3, <2>4, <2>5
       DEF RpcInv, TypeOK, MicroOk, LanesBalanced, InLane, requests, stream, life
  <2>7. Ahead' = {x, y} \cup Rest \cup Behind
    BY <2>3, <2>4 DEF Ahead
  <2>8. InvCalls' /\ InvClosed'
    BY <1>2, <1>3, <1>4, <1>5, <2>2, <2>7 DEF RpcInv, InvCalls, InvClosed, OfFrame, OfRequest, Errors
  <2>9. InvStop' /\ InvRequests'
    BY <1>2, <1>4, <1>5, <2>2, <2>7 DEF RpcInv, InvStop, InvRequests
  <2>10. /\ \A g : For({"enqueue", "settled"}, g)' <=> For({"enqueue", "settled"}, g)
         /\ \A s \in Ahead' : s[1] # "enqueue"
    BY <1>2, <1>5, <2>2, <2>7 DEF For
  <2>11. InvFrames'
    BY <1>2, <1>3, <1>4, <1>5, <2>2, <2>5, <2>7, <2>10 DEF RpcInv, InvFrames
  <2>12. Excused' /\ InvAnswers'
    BY <1>4, <2>2, <2>4 DEF RpcInv, Excused, InvAnswers
  <2>13. QED
    BY <2>4, <2>6, <2>8, <2>9, <2>11, <2>12 DEF RpcInv
<1>7. CASE ~over
  <2> DEFINE x == Do(IF Arg \in fenced \cap Signalled THEN "cancelFrame" ELSE "pump", Arg, "none")
  <2>1. /\ queue' = Append(queue, Arg) /\ held' = [held EXCEPT ![LaneOf(Arg)] = @ + 1]
        /\ sync' = <<x>> \o Under /\ micro' = micro
    BY <1>2, <1>7 DEF Enqueue, Then
  <2>2. x \in Step /\ x[1] \in {"cancelFrame", "pump"} /\ x[2] = Arg /\ x[1] \notin Reactions
    BY <1>2, Doings
  <2> HIDE DEF x
  <2>3. MicroOk /\ Behind' = Behind
    BY <2>1, MicroSame DEF RpcInv
  <2>4. sync' \in Seq(Step) /\ Range(sync') = {x} \cup Rest /\ InvStack'
    BY <2>1, <2>2, <2>3, PushOne DEF RpcInv
  <2>5. /\ queue' \in Seq(Frames) /\ IsInjective(queue') /\ Range(queue') = Range(queue) \cup {Arg}
        /\ Writing' = Writing \cup {Arg}
    <3>1. queue \in Seq(Frames) /\ IsInjective(queue) /\ Arg \notin Range(queue)
      BY <1>3 DEF RpcInv, TypeOK, InvFrames, Writing
    <3>2. queue' \in Seq(Frames) /\ IsInjective(queue') /\ Range(queue') = Range(queue) \cup {Arg}
      BY <1>2, <2>1, <3>1, RangeOfAppend, AppendOnce
    <3>3. QED
      BY <1>4, <3>2 DEF Writing
  <2>6. ASSUME NEW lane \in Lanes
        PROVE  held'[lane] \in Nat /\ held'[lane] = Cardinality(InLane(Writing', lane))
    <3>1. held[lane] = Cardinality(InLane(Writing, lane)) /\ held \in [Lanes -> Nat] /\ IsFiniteSet(Writing)
      BY WritingShape DEF RpcInv, LanesBalanced, TypeOK
    <3>2. held'[lane] = IF LaneOf(Arg) = lane THEN held[lane] + 1 ELSE held[lane]
      BY <2>1, <3>1, LaneNames
    <3>3. Cardinality(InLane(Writing \cup {Arg}, lane)) =
            Cardinality(InLane(Writing, lane)) + (IF LaneOf(Arg) = lane THEN 1 ELSE 0)
      BY <1>3, <3>1, LaneCounts
    <3>4. held[lane] \in Nat
      BY <3>1
    <3>5. QED
      BY <2>5, <3>1, <3>2, <3>3, <3>4
  <2>7. held' \in [Lanes -> Nat]
    <3>1. held' = [lane \in Lanes |-> held'[lane]]
      BY <2>1 DEF RpcInv, TypeOK
    <3>2. QED
      BY <2>6, <3>1
  <2>8. TypeOK'
    BY <1>1, <2>3, <2>4, <2>5, <2>7 DEF RpcInv, TypeOK, MicroOk, requests, stream, life
  <2>9. LanesBalanced'
    BY <2>6 DEF LanesBalanced, InLane
  <2>10. Ahead' = {x} \cup Rest \cup Behind
    BY <2>3, <2>4 DEF Ahead
  <2>11. InvCalls' /\ InvClosed'
    BY <1>2, <1>3, <1>4, <1>5, <2>2, <2>10 DEF RpcInv, InvCalls, InvClosed, OfFrame, OfRequest
  <2>12. InvStop' /\ InvRequests'
    BY <1>2, <1>4, <1>5, <2>2, <2>10 DEF RpcInv, InvStop, InvRequests
  <2>13. /\ \A g : For({"enqueue", "settled"}, g)' => For({"enqueue", "settled"}, g)
         /\ \A g : For({"enqueue", "settled"}, g) => g = Arg \/ For({"enqueue", "settled"}, g)'
         /\ \A s \in Ahead' : s[1] # "enqueue"
         /\ \A s \in Ahead' : s[1] = "settled" => s \in Ahead /\ s[2] # Arg
    BY <1>2, <1>3, <1>5, <2>2, <2>10 DEF For
  <2>14. InvFrames'
    <3>1. active # Arg
      BY <1>2, <1>3, Names DEF Writing
    <3>2. QED
      BY <1>2, <1>3, <1>4, <1>5, <2>2, <2>5, <2>10, <2>13, <3>1 DEF RpcInv, InvFrames
  <2>15. Excused => Excused'
    BY <1>2, <1>4, <2>4, ExcusedStays DEF RpcInv
  <2>16. InvAnswers'
    BY <1>4, <1>5, <2>2, <2>10, <2>15 DEF RpcInv, InvAnswers
  <2>17. QED
    BY <2>4, <2>8, <2>9, <2>11, <2>12, <2>14, <2>16 DEF RpcInv
<1>8. QED
  BY <1>6, <1>7

\* A frame is written: it is no longer waiting, and its request is still awaited.
LEMMA PumpWriteKeeps == ASSUME RpcInv, NEW f, PumpWrite(f) PROVE RpcInv'
<1>1. Pumping(f) /\ UNCHANGED <<requests, held, ended, life>> /\ micro' = micro /\ Current(f)
  BY DEF PumpWrite
<1>2. /\ sync # <<>> /\ sync[1][1] = "pump" /\ Under = Tail(sync) /\ active = "none" /\ ~closed
      /\ f \in Range(queue) /\ f \in Writing /\ f \in Frames /\ f \notin wire
  BY <1>1, Chosen
<1>3. /\ queue' = Without(queue, f) /\ active' = f /\ wire' = wire \cup {f} /\ sync' = Under
      /\ acks' \subseteq {"callback", "drain"} /\ full' \in BOOLEAN
  <2>1. Calling("pump")
    BY <1>1 DEF Pumping
  <2>2. sync' = Under
    BY <2>1, ThenNext DEF PumpWrite
  <2>3. full \in BOOLEAN
    BY DEF RpcInv, TypeOK
  <2>4. QED
    BY <2>2, <2>3 DEF PumpWrite
<1>4. queue' \in Seq(Frames) /\ IsInjective(queue') /\ Range(queue') = Range(queue) \ {f}
  BY <1>3, WithoutOne DEF RpcInv, TypeOK, InvFrames
<1>5. Writing' = Writing
  BY <1>2, <1>3, <1>4, Names DEF Writing
<1>6. MicroOk /\ Behind' = Behind
  BY <1>1, MicroSame DEF RpcInv
<1>7. sync' \in Seq(Step) /\ Range(sync') = Rest /\ InvStack'
  BY <1>3, <1>6, PushNone DEF RpcInv
<1>8. /\ UNCHANGED <<pending, outcome, response, held, started, closed, stopping, fault, stop>> /\ Pending' = Pending
      /\ UNCHANGED <<written, due, fenced, ended>>
  BY <1>1 DEF requests, life, Pending
<1>9. TypeOK' /\ LanesBalanced'
  BY <1>2, <1>3, <1>4, <1>5, <1>6, <1>7, <1>8 DEF RpcInv, TypeOK, MicroOk, LanesBalanced, InLane
<1>10. /\ Ahead' = Rest \cup Behind /\ Rest \cup Behind \subseteq Ahead
       /\ Ahead = {sync[1]} \cup Rest \cup Behind /\ Range(sync) = {sync[1]} \cup Rest
       /\ \A s \in Rest \cup Behind : s[1] # "enqueue" /\ ~(s[1] = "reject" /\ s[3] = "cancelled")
  BY <1>2, <1>6, <1>7, StackShape DEF Ahead, RpcInv, InvStack, Reactions, Bodies
<1>11. InvCalls' /\ InvStop' /\ InvRequests' /\ InvClosed'
  BY <1>2, <1>5, <1>8, <1>10 DEF RpcInv, InvCalls, InvStop, InvRequests, InvClosed
<1>12. /\ outcome[f] \notin {"new", "cancelled"}
       /\ \A s \in Ahead : s[1] = "settled" => s[2] # f
  <2>1. CASE f \in Ids
    BY <1>1, <1>2, <2>1, Names DEF Current, RpcInv, InvRequests, InvFrames
  <2>2. CASE f \in Dialogs
    BY <1>2, <2>2 DEF RpcInv, InvFrames
  <2>3. QED
    BY <1>2, <2>1, <2>2, Names
<1>13. /\ \A g : For({"enqueue", "settled"}, g)' <=> For({"enqueue", "settled"}, g)
       /\ \A s \in Ahead' : s[1] # "enqueue"
  BY <1>2, <1>10 DEF For
<1>14. InvFrames'
  BY <1>2, <1>3, <1>4, <1>5, <1>8, <1>10, <1>12, <1>13 DEF RpcInv, InvFrames
<1>15. Excused => Excused'
  BY <1>2, <1>7, <1>8, ExcusedStays DEF RpcInv, Process
<1>16. InvAnswers'
  BY <1>1, <1>2, <1>3, <1>8, <1>10, <1>15 DEF RpcInv, InvAnswers, Current
<1>17. QED
  BY <1>7, <1>9, <1>11, <1>14, <1>16 DEF RpcInv


-----------------------------------------------------------------------------
(* The steps of the process and its stop. *)

\* The process moves on: the map and the lanes stay, and what is to clear them is called.
LEMMA LifeMoves ==
  ASSUME TypeOK, InvStack, Turns, UNCHANGED <<Map, LaneVars>>,
         NEW X, NEW Y, Range(sync') = X \cup Rest, Behind' = Behind \cup Y,
         sync # <<>> => sync[1][1] \in {"fail"} \cup Bodies,
         \A x \in X : \/ x[1] \in {"fail", "rejectAll", "rejectWrites"} /\ x[3] = "lost" /\ Excused'
                      \/ x[1] = "send" /\ x[2] \in Ids,
         \A y \in Y : y[1] \in Bodies,
         fault' # "unasked", Excused => Excused', InvStop',
         closed' => closed \/ /\ \E x \in X : x[1] = "rejectAll"
                              /\ \E x \in X : x[1] = "rejectWrites"
  PROVE  Turns'
<1>1. /\ Ahead' = X \cup Y \cup Rest \cup Behind /\ Rest \cup Behind \subseteq Ahead
      /\ sync = <<>> => Ahead = Behind /\ Rest = {}
      /\ sync # <<>> => Ahead = {sync[1]} \cup Rest \cup Behind
      /\ \A s \in Rest \cup Behind : s[1] # "enqueue"
  BY StackShape DEF Ahead, InvStack, Reactions, Bodies
<1>2. /\ Pending' = Pending /\ Writing' = Writing
      /\ UNCHANGED <<pending, outcome, response, queue, active, wire>>
  BY DEF Map, LaneVars, Pending, Writing
<1>3. /\ \A x \in X \cup Y : x[1] \notin {"settled", "enqueue", "reject"}
      /\ \A s \in Ahead' : s[1] # "enqueue"
      /\ \A s \in Ahead : s[1] \notin {"fail"} \cup Bodies => s \in Rest \cup Behind
  BY <1>1 DEF Bodies
<1>4. InvCalls'
  BY <1>1 DEF Turns, InvCalls, OfFrame, OfRequest, Bodies
<1>5. InvRequests'
  BY <1>2 DEF Turns, InvRequests
<1>6. /\ \A g : For({"enqueue", "settled"}, g)' <=> For({"enqueue", "settled"}, g)
  BY <1>1, <1>3 DEF For, Bodies
<1>7. InvFrames'
  BY <1>1, <1>2, <1>3, <1>6 DEF Turns, InvFrames
<1>8. InvAnswers'
  BY <1>1, <1>2 DEF Turns, InvAnswers, Bodies
<1>9. InvClosed'
  <2>1. \A c \in {"rejectAll", "rejectWrites"} : (\E s \in Ahead : s[1] = c) => \E s \in Ahead' : s[1] = c
    BY <1>1, <1>3 DEF Bodies
  <2>2. \A x \in X : x \in Ahead'
    BY <1>1
  <2>3. QED
    BY <1>2, <1>3, <2>1, <2>2 DEF Turns, InvClosed
<1>10. QED
  BY <1>4, <1>5, <1>7, <1>8, <1>9 DEF Turns

\* A step of the process keeps the invariant when it keeps the stack and the stop in order.
LEMMA LifeKeeps ==
  ASSUME RpcInv, UNCHANGED <<requests, lanes>>, UNCHANGED <<wire, full>>, MicroOk, ended' \in BOOLEAN,
         started' \in BOOLEAN, closed' \in BOOLEAN, stopping' \in BOOLEAN, fault' \in {"none", "lost"},
         stop' \in {"none", "called", "clearing", "aborting", "eof", "idle", "closing",
                    "term", "kill", "over", "unconfirmed"},
         sync' \in Seq(Step), InvStack',
         NEW X, NEW Y, Range(sync') = X \cup Rest, Behind' = Behind \cup Y,
         sync # <<>> => sync[1][1] \in {"fail"} \cup Bodies,
         \A x \in X : \/ x[1] \in {"fail", "rejectAll", "rejectWrites"} /\ x[3] = "lost" /\ Excused'
                      \/ x[1] = "send" /\ x[2] \in Ids,
         \A y \in Y : y[1] \in Bodies,
         Excused => Excused', InvStop',
         closed' => closed \/ /\ \E x \in X : x[1] = "rejectAll"
                              /\ \E x \in X : x[1] = "rejectWrites"
  PROVE  RpcInv'
<1> USE Splits
<1>1. UNCHANGED <<Map, LaneVars>> /\ Writing' = Writing
  BY DEF requests, lanes, Map, LaneVars, Writing
<1>2. TypeOK'
  BY DEF TypeOK, MicroOk, requests, lanes
<1>3. LanesBalanced'
  BY <1>1 DEF LaneVars, LanesBalanced, InLane
<1>4. fault' # "unasked"
  OBVIOUS
<1>5. Turns'
  BY <1>1, <1>4, LifeMoves
<1>6. QED
  BY <1>2, <1>3, <1>5


\* A stop begins once: while none has, no body of one is to come.
LEMMA NoBodyYet == ASSUME RpcInv, stop = "none" PROVE \A s \in Ahead : s[1] \notin Bodies
  BY DEF RpcInv, InvStop, Bodies

\* A fault begins a stop, and both maps are to be cleared.
LEMMA FailKeeps == ASSUME RpcInv, Fail PROVE RpcInv'
<1>1. Calling("fail") /\ UNCHANGED <<requests, lanes, stream, started, closed>> /\ UNCHANGED <<wire, full, ended>>
  BY DEF Fail, stream
<1>2. /\ sync # <<>> /\ sync[1] \in Ahead /\ sync[1] \in Range(sync) /\ sync[1][1] = "fail" /\ Under = Tail(sync)
      /\ Error = "lost"
  BY <1>1, Innermost
<1>3. /\ Ahead = {sync[1]} \cup Rest \cup Behind /\ outcome' = outcome
      /\ \A s \in Rest \cup Behind : s \in Ahead /\ s[1] # "enqueue"
  BY <1>1, <1>2, StackShape DEF Ahead, RpcInv, InvStack, Reactions, Bodies, requests
<1>4. CASE fault # "none"
  <2> DEFINE X == {}
             Y == {}
  <2>1. sync' = Under /\ UNCHANGED <<fault, stopping, stop>> /\ micro' = micro
    BY <1>1, <1>4, ThenNext DEF Fail
  <2>2. MicroOk /\ Behind' = Behind \cup Y
    BY <2>1, MicroSame DEF RpcInv
  <2>3. sync' \in Seq(Step) /\ Range(sync') = X \cup Rest /\ InvStack'
    BY <2>1, <2>2, PushNone DEF RpcInv
  <2>4. InvStop'
    <3>1. Ahead' = Rest \cup Behind
      BY <2>2, <2>3 DEF Ahead
    <3>2. QED
      BY <1>1, <1>2, <1>3, <2>1, <3>1 DEF RpcInv, InvStop
  <2>5. Excused'
    BY <1>4, <2>1 DEF Excused
  <2>6. (\A x \in X : FALSE) /\ (\A y \in Y : FALSE) /\ (closed' => closed)
    BY <1>1
  <2> HIDE DEF X, Y
  <2>7. /\ ended' \in BOOLEAN /\ started' \in BOOLEAN /\ closed' \in BOOLEAN /\ stopping' \in BOOLEAN
        /\ fault' \in {"none", "lost"}
        /\ stop' \in {"none", "called", "clearing", "aborting", "eof", "idle", "closing",
                      "term", "kill", "over", "unconfirmed"}
    BY <1>1, <2>1 DEF RpcInv, TypeOK, InvAnswers
  <2>8. QED
    BY <1>1, <1>2, <2>2, <2>3, <2>4, <2>5, <2>6, <2>7, LifeKeeps
<1>5. CASE fault = "none"
  <2> DEFINE a == Do("rejectAll", "none", "lost")
             b == Do("rejectWrites", "none", "lost")
             y == Do("stopBody", "none", "none")
             began == closed \/ stop # "none" \/ ~started
             X == {a, b}
             Y == IF began THEN {} ELSE {y}
  <2>1. /\ fault' = "lost" /\ sync' = <<a, b>> \o Under
        /\ began => UNCHANGED <<stopping, stop, micro>>
        /\ ~began => stopping' = TRUE /\ stop' = "called" /\ micro' = Append(micro, y)
    BY <1>2, <1>5 DEF Fail, Then, BeginStop
  <2>2. /\ a \in Step /\ a[1] = "rejectAll" /\ a[3] = "lost" /\ b \in Step /\ b[1] = "rejectWrites" /\ b[3] = "lost"
        /\ y \in Step /\ y[1] = "stopBody"
    BY Doings
  <2> HIDE DEF a, b, y
  <2>3. MicroOk /\ Behind' = Behind \cup Y
    <3>1. CASE began
      BY <2>1, <3>1, MicroSame DEF RpcInv
    <3>2. CASE ~began
      <4>1. \A s \in Behind : s[1] \notin Bodies
        BY <3>2, NoBodyYet DEF Ahead
      <4>2. QED
        BY <2>1, <2>2, <3>2, <4>1, MicroOne DEF RpcInv, Bodies
    <3>3. QED
      BY <3>1, <3>2
  <2>4. sync' \in Seq(Step) /\ Range(sync') = X \cup Rest /\ InvStack'
    <3>1. /\ a[1] \notin Reactions \cup {"send"} /\ b[1] \notin Reactions \cup {"send", "enqueue"}
          /\ b[1] # "reject"
      BY <2>2, Doings
    <3>2. QED
      BY <2>1, <2>2, <2>3, <3>1, PushTwo DEF RpcInv
  <2>5. Ahead' = X \cup Y \cup Rest \cup Behind
    BY <2>3, <2>4 DEF Ahead
  <2>6. InvStop'
    <3>1. CASE began
      BY <1>1, <1>2, <1>3, <2>1, <2>2, <2>5, <3>1 DEF RpcInv, InvStop
    <3>2. CASE ~began
      BY <1>1, <1>2, <1>3, <2>1, <2>2, <2>5, <3>2 DEF RpcInv, InvStop
    <3>3. QED
      BY <3>1, <3>2
  <2>7. Excused'
    BY <2>1 DEF Excused
  <2>8. /\ \A x \in X : x[1] \in {"fail", "rejectAll", "rejectWrites"} /\ x[3] = "lost"
        /\ \A z \in Y : z[1] \in Bodies
    BY <2>2 DEF Bodies
  <2>9. /\ ended' \in BOOLEAN /\ started' \in BOOLEAN /\ closed' \in BOOLEAN /\ stopping' \in BOOLEAN
        /\ fault' \in {"none", "lost"} /\ (closed' => closed)
        /\ stop' \in {"none", "called", "clearing", "aborting", "eof", "idle", "closing",
                      "term", "kill", "over", "unconfirmed"}
    BY <1>1, <2>1 DEF RpcInv, TypeOK
  <2> HIDE DEF X, Y, began
  <2>10. QED
    BY <1>1, <1>2, <2>3, <2>4, <2>6, <2>7, <2>8, <2>9, LifeKeeps
<1>6. QED
  BY <1>4, <1>5

\* The body of a stop: everything is rejected, and the first of its commands is sent.
LEMMA StopBodyKeeps == ASSUME RpcInv, StopBody PROVE RpcInv'
<1> DEFINE a == Do("rejectAll", "none", "lost")
           b == Do("rejectWrites", "none", "lost")
           c == Do("send", StopClear, "none")
           X == {a, b, c}
           Y == {}
<1>1. /\ Calling("stopBody") /\ UNCHANGED <<requests, lanes, stream, started, closed, stopping, fault>>
      /\ micro' = micro /\ stop' = "clearing" /\ UNCHANGED <<wire, full, ended>>
  BY DEF StopBody, stream
<1>2. sync # <<>> /\ sync[1] \in Ahead /\ sync[1][1] = "stopBody" /\ Under = Tail(sync)
  BY <1>1, Innermost
<1>3. Rest = {} /\ \A s \in Behind : s[1] \notin Bodies /\ s[1] \in Reactions
  BY <1>2 DEF RpcInv, InvStack, Bodies
<1>4. sync' = <<a, b, c>> \o Under
  BY <1>2 DEF StopBody, Then
<1>5. /\ a \in Step /\ a[1] = "rejectAll" /\ a[3] = "lost" /\ b \in Step /\ b[1] = "rejectWrites" /\ b[3] = "lost"
      /\ c \in Step /\ c[1] = "send" /\ c[2] = StopClear
  BY Doings, Names
<1>6. MicroOk /\ Behind' = Behind \cup Y
  BY <1>1, MicroSame DEF RpcInv
<1> HIDE DEF a, b, c
<1>7. sync' \in Seq(Step) /\ Range(sync') = X \cup Rest /\ InvStack'
  <2>1. /\ a[1] \notin Reactions \cup {"send"} /\ b[1] \notin Reactions \cup {"send", "enqueue", "reject"}
        /\ c[1] \notin Reactions \cup {"enqueue", "reject"}
    BY <1>5, Doings
  <2>2. QED
    BY <1>3, <1>4, <1>5, <1>6, <2>1, PushThree DEF RpcInv
<1>8. Ahead' = X \cup Behind
  BY <1>3, <1>6, <1>7 DEF Ahead
<1>9. stop = "called" /\ outcome[StopClear] = "new" /\ outcome[StopAbort] = "new" /\ outcome' = outcome
  BY <1>1, <1>2 DEF RpcInv, InvStop, requests
<1>10. InvStop'
  BY <1>1, <1>3, <1>5, <1>8, <1>9, Names DEF RpcInv, InvStop, Reactions, Bodies
<1>11. Excused'
  BY <1>1 DEF Excused
<1>12. /\ \A x \in X : \/ x[1] \in {"fail", "rejectAll", "rejectWrites"} /\ x[3] = "lost"
                       \/ x[1] = "send" /\ x[2] \in Ids
       /\ \A z \in Y : FALSE
  BY <1>5, Names
<1>13. /\ ended' \in BOOLEAN /\ started' \in BOOLEAN /\ closed' \in BOOLEAN /\ stopping' \in BOOLEAN
       /\ fault' \in {"none", "lost"} /\ (closed' => closed)
       /\ stop' \in {"none", "called", "clearing", "aborting", "eof", "idle", "closing",
                     "term", "kill", "over", "unconfirmed"}
  BY <1>1 DEF RpcInv, TypeOK, InvAnswers
<1> HIDE DEF X, Y
<1>14. sync[1][1] \in {"fail"} \cup Bodies
  BY <1>2 DEF Bodies
<1>15. QED
  BY <1>1, <1>6, <1>7, <1>10, <1>11, <1>12, <1>13, <1>14, LifeKeeps

\* The body of an idle close: it ends stdin, or the process.
LEMMA IdleBodyKeeps == ASSUME RpcInv, IdleBody PROVE RpcInv'
<1> DEFINE X == {}
           Y == {}
<1>1. /\ Calling("idleBody") /\ UNCHANGED <<requests, lanes, wire, full, started, closed, stopping, fault>>
      /\ micro' = micro /\ stop' \in {"closing", "term"} /\ ended' \in {TRUE, ended} /\ sync' = Under
  <2>1. Calling("idleBody")
    BY DEF IdleBody
  <2>2. QED
    BY <2>1, ThenNext DEF IdleBody
<1>2. sync # <<>> /\ sync[1] \in Ahead /\ sync[1][1] = "idleBody"
  BY <1>1, Innermost
<1>3. Rest = {} /\ \A s \in Behind : s[1] \notin Bodies /\ s[1] \in Reactions
  BY <1>2 DEF RpcInv, InvStack, Bodies
<1>4. MicroOk /\ Behind' = Behind \cup Y
  BY <1>1, MicroSame DEF RpcInv
<1>5. sync' \in Seq(Step) /\ Range(sync') = X \cup Rest /\ InvStack'
  BY <1>1, <1>4, PushNone DEF RpcInv
<1>6. Ahead' = Behind
  BY <1>3, <1>4, <1>5 DEF Ahead
<1>7. InvStop'
  <2>1. stop = "idle" /\ outcome' = outcome
    BY <1>1, <1>2 DEF RpcInv, InvStop, requests
  <2>2. QED
    BY <1>1, <1>3, <1>6, <2>1 DEF RpcInv, InvStop, Reactions, Bodies
<1>8. Excused'
  BY <1>1 DEF Excused
<1>9. (\A x \in X : FALSE) /\ (\A y \in Y : FALSE) /\ (closed' => closed)
  BY <1>1
<1>10. /\ ended' \in BOOLEAN /\ started' \in BOOLEAN /\ closed' \in BOOLEAN /\ stopping' \in BOOLEAN
       /\ fault' \in {"none", "lost"}
       /\ stop' \in {"none", "called", "clearing", "aborting", "eof", "idle", "closing",
                     "term", "kill", "over", "unconfirmed"}
  BY <1>1 DEF RpcInv, TypeOK, InvAnswers
<1> HIDE DEF X, Y
<1>11. sync[1][1] \in {"fail"} \cup Bodies
  BY <1>2 DEF Bodies
<1>12. QED
  BY <1>1, <1>4, <1>5, <1>7, <1>8, <1>9, <1>10, <1>11, LifeKeeps


\* A stop goes on when the command it awaits has settled.
LEMMA StopNextKeeps == ASSUME RpcInv, StopNext PROVE RpcInv'
<1> DEFINE c == Do("send", StopAbort, "none")
           X == IF ~closed /\ stop = "clearing" THEN {c} ELSE {}
           Y == {}
<1>1. /\ sync = <<>> /\ micro = <<>> /\ micro' = micro /\ stop \in {"clearing", "aborting"}
      /\ UNCHANGED <<requests, lanes, wire, full, started, closed, stopping, fault>>
      /\ ended' \in {TRUE, ended}
      /\ closed => stop' = "over" /\ sync' = sync
      /\ ~closed /\ stop = "clearing" => stop' = "aborting" /\ sync' = <<c>>
      /\ ~closed /\ stop # "clearing" => stop' = "eof" /\ sync' = sync
  BY DEF StopNext, CallerTurn, StopReady
<1>2. c \in Step /\ c[1] = "send" /\ c[2] = StopAbort /\ c[1] \notin Reactions
  BY Doings, Names
<1>3. Rest = {} /\ Behind = {} /\ Ahead = {} /\ Under = <<>>
  BY <1>1, ShortSequences DEF Rest, Behind, Ahead, Under
<1> HIDE DEF c
<1>4. MicroOk /\ Behind' = Behind \cup Y
  BY <1>1, MicroSame DEF RpcInv
<1>5. sync' \in Seq(Step) /\ Range(sync') = X \cup Rest /\ InvStack'
  <2>1. CASE ~closed /\ stop = "clearing"
    BY <1>1, <1>2, <1>3, <1>4, <2>1, PushOne DEF RpcInv
  <2>2. CASE closed \/ stop # "clearing"
    <3>1. sync' = Under
      BY <1>1, <1>3, <2>2
    <3>2. QED
      BY <1>4, <2>2, <3>1, PushNone DEF RpcInv
  <2>3. QED
    BY <2>1, <2>2
<1>6. Ahead' = X
  BY <1>3, <1>4, <1>5 DEF Ahead
<1>7. InvStop'
  <2>1. outcome' = outcome /\ stop' \notin {"none", "called", "clearing", "idle"}
    BY <1>1 DEF requests
  <2>2. QED
    BY <1>1, <1>2, <1>6, <2>1, Names DEF RpcInv, InvStop
<1>8. Excused'
  BY <1>1 DEF Excused
<1>9. (\A x \in X : x[1] = "send" /\ x[2] \in Ids) /\ (\A y \in Y : FALSE) /\ (closed' => closed)
  BY <1>1, <1>2, Names
<1>10. /\ ended' \in BOOLEAN /\ started' \in BOOLEAN /\ closed' \in BOOLEAN /\ stopping' \in BOOLEAN
       /\ fault' \in {"none", "lost"}
       /\ stop' \in {"none", "called", "clearing", "aborting", "eof", "idle", "closing",
                     "term", "kill", "over", "unconfirmed"}
  BY <1>1 DEF RpcInv, TypeOK, InvAnswers
<1> HIDE DEF X, Y
<1>11. QED
  BY <1>1, <1>4, <1>5, <1>7, <1>8, <1>9, <1>10, LifeKeeps

\* The process is started, or an escalation goes on.
LEMMA StartKeeps == ASSUME RpcInv, Start \/ Escalate PROVE RpcInv'
<1> DEFINE X == {}
           Y == {}
<1>1. /\ sync = <<>> /\ sync' = sync /\ micro' = micro /\ UNCHANGED <<requests, lanes, stream, closed, stopping, fault>>
      /\ UNCHANGED <<wire, full, ended>>
      /\ Start => started' = TRUE /\ stop' = stop
      /\ Escalate => started' = started /\ micro = <<>> /\ stop' \in {"over", "term", "kill", "unconfirmed"}
      /\ Escalate => stop # "none"
  BY DEF Start, Escalate, CallerTurn, IdleTurn, NextSignal, stream
<1>2. sync' = Under
  BY <1>1 DEF Under
<1>3. MicroOk /\ Behind' = Behind \cup Y
  BY <1>1, MicroSame DEF RpcInv
<1>4. sync' \in Seq(Step) /\ Range(sync') = X \cup Rest /\ InvStack'
  BY <1>2, <1>3, PushNone DEF RpcInv
<1>5. Ahead' = Ahead /\ outcome' = outcome /\ (micro = <<>> => Ahead = {})
  BY <1>1, <1>3, ShortSequences DEF Ahead, Behind, requests
<1>6. InvStop'
  <2>1. CASE Start
    BY <1>1, <1>5, <2>1 DEF RpcInv, InvStop
  <2>2. CASE Escalate
    BY <1>1, <1>5, <2>2 DEF RpcInv, InvStop
  <2>3. QED
    BY <2>1, <2>2
<1>7. Excused => Excused'
  BY <1>1 DEF Excused
<1>8. (\A x \in X : FALSE) /\ (\A y \in Y : FALSE) /\ (closed' => closed)
  BY <1>1
<1>9. /\ ended' \in BOOLEAN /\ started' \in BOOLEAN /\ closed' \in BOOLEAN /\ stopping' \in BOOLEAN
      /\ fault' \in {"none", "lost"}
      /\ stop' \in {"none", "called", "clearing", "aborting", "eof", "idle", "closing",
                    "term", "kill", "over", "unconfirmed"}
  BY <1>1 DEF RpcInv, TypeOK, InvAnswers
<1> HIDE DEF X, Y
<1>10. QED
  BY <1>1, <1>3, <1>4, <1>6, <1>7, <1>8, <1>9, LifeKeeps

\* The process never starts.
LEMMA SpawnFailsKeeps == ASSUME RpcInv, SpawnFails PROVE RpcInv'
<1> DEFINE a == Do("rejectAll", "none", "lost")
           b == Do("rejectWrites", "none", "lost")
           c == Do("fail", "none", "lost")
           X == {a, b, c}
           Y == {}
<1>1. /\ sync = <<>> /\ sync' = <<a, b, c>> /\ micro' = micro /\ ~started /\ started' = TRUE /\ closed' = TRUE
      /\ UNCHANGED <<requests, lanes, stream, stopping, fault, stop>> /\ UNCHANGED <<wire, full, ended>>
  BY DEF SpawnFails, CallerTurn, stream
<1>2. /\ a \in Step /\ a[1] = "rejectAll" /\ a[3] = "lost" /\ b \in Step /\ b[1] = "rejectWrites" /\ b[3] = "lost"
      /\ c \in Step /\ c[1] = "fail" /\ c[3] = "lost"
  BY Doings
<1>3. MicroOk /\ Behind' = Behind \cup Y
  BY <1>1, MicroSame DEF RpcInv
<1> HIDE DEF a, b, c
<1>4. sync' \in Seq(Step) /\ Range(sync') = X \cup Rest /\ InvStack'
  <2>1. /\ a[1] \notin Reactions \cup {"send"} /\ b[1] \notin Reactions \cup {"send", "enqueue", "reject"}
        /\ c[1] \notin Reactions \cup {"enqueue", "reject", "send"}
    BY <1>2, Doings
  <2>2. QED
    BY <1>1, <1>2, <1>3, <2>1, PushThree DEF RpcInv
<1>5. stop = "none" /\ \A s \in Ahead : s[1] \notin Bodies
  BY <1>1, NoBodyYet DEF RpcInv, InvStop
<1>6. Ahead' = X \cup Ahead
  BY <1>1, <1>3, <1>4, ShortSequences DEF Ahead, Rest
<1>7. InvStop'
  BY <1>1, <1>2, <1>5, <1>6 DEF RpcInv, InvStop, Bodies, requests
<1>8. Excused'
  BY <1>1 DEF Excused
<1>9. /\ \A x \in X : x[1] \in {"fail", "rejectAll", "rejectWrites"} /\ x[3] = "lost"
      /\ (\E x \in X : x[1] = "rejectAll") /\ (\E x \in X : x[1] = "rejectWrites")
      /\ \A y \in Y : FALSE
  BY <1>2
<1>10. /\ ended' \in BOOLEAN /\ started' \in BOOLEAN /\ closed' \in BOOLEAN /\ stopping' \in BOOLEAN
       /\ fault' \in {"none", "lost"}
       /\ stop' \in {"none", "called", "clearing", "aborting", "eof", "idle", "closing",
                     "term", "kill", "over", "unconfirmed"}
  BY <1>1 DEF RpcInv, TypeOK, InvAnswers
<1> HIDE DEF X, Y
<1>11. QED
  BY <1>1, <1>3, <1>4, <1>7, <1>8, <1>9, <1>10, LifeKeeps

\* The process ends.
LEMMA ExitKeeps == ASSUME RpcInv, Exit PROVE RpcInv'
<1> DEFINE a == Do("rejectAll", "none", "lost")
           b == Do("rejectWrites", "none", "lost")
           X == {a, b}
           Y == {}
<1>1. /\ sync = <<>> /\ micro = <<>> /\ sync' = <<a, b>> /\ micro' = micro /\ closed' = TRUE
      /\ UNCHANGED <<requests, lanes, stream, started, stopping, fault, stop>> /\ UNCHANGED <<wire, full, ended>>
  BY DEF Exit, EndRequests, IdleTurn, stream
<1>2. /\ a \in Step /\ a[1] = "rejectAll" /\ a[3] = "lost" /\ b \in Step /\ b[1] = "rejectWrites" /\ b[3] = "lost"
  BY Doings
<1>3. MicroOk /\ Behind' = Behind \cup Y
  BY <1>1, MicroSame DEF RpcInv
<1> HIDE DEF a, b
<1>4. sync' \in Seq(Step) /\ Range(sync') = X \cup Rest /\ InvStack'
  <2>1. a[1] \notin Reactions \cup {"send"} /\ b[1] \notin Reactions \cup {"send", "enqueue", "reject"}
    BY <1>2, Doings
  <2>2. QED
    BY <1>1, <1>2, <1>3, <2>1, PushTwo DEF RpcInv
<1>5. Ahead = {} /\ Ahead' = X
  BY <1>1, <1>3, <1>4, ShortSequences DEF Ahead, Behind, Rest
<1>6. InvStop'
  BY <1>1, <1>2, <1>5 DEF RpcInv, InvStop, requests
<1>7. Excused'
  BY <1>1 DEF Excused
<1>8. /\ \A x \in X : x[1] \in {"fail", "rejectAll", "rejectWrites"} /\ x[3] = "lost"
      /\ (\E x \in X : x[1] = "rejectAll") /\ (\E x \in X : x[1] = "rejectWrites")
      /\ \A y \in Y : FALSE
  BY <1>2
<1>9. /\ ended' \in BOOLEAN /\ started' \in BOOLEAN /\ closed' \in BOOLEAN /\ stopping' \in BOOLEAN
      /\ fault' \in {"none", "lost"}
      /\ stop' \in {"none", "called", "clearing", "aborting", "eof", "idle", "closing",
                    "term", "kill", "over", "unconfirmed"}
  BY <1>1 DEF RpcInv, TypeOK, InvAnswers
<1> HIDE DEF X, Y
<1>10. QED
  BY <1>1, <1>3, <1>4, <1>6, <1>7, <1>8, <1>9, LifeKeeps

\* The owner stops the process, at once or while it is idle.
LEMMA StopCallsKeep == ASSUME RpcInv, AbortAndStop \/ CloseIdle PROVE RpcInv'
<1>1. /\ sync = <<>> /\ sync' = sync /\ started /\ ~closed /\ stop = "none" /\ stopping' = TRUE
      /\ UNCHANGED <<requests, lanes, stream, started, closed, fault>> /\ UNCHANGED <<wire, full, ended>>
      /\ \/ AbortAndStop /\ stop' = "called" /\ micro' = Append(micro, Do("stopBody", "none", "none"))
         \/ CloseIdle /\ stop' = "idle" /\ micro' = Append(micro, Do("idleBody", "none", "none"))
  BY DEF AbortAndStop, CloseIdle, BeginStop, CallerTurn, stream
<1>0. /\ Do("stopBody", "none", "none") \in Step /\ Do("stopBody", "none", "none")[1] = "stopBody"
      /\ Do("idleBody", "none", "none") \in Step /\ Do("idleBody", "none", "none")[1] = "idleBody"
  BY Doings
<1>2. PICK z \in Step :
         /\ micro' = Append(micro, z)
         /\ (z[1] = "stopBody" /\ stop' = "called") \/ (z[1] = "idleBody" /\ stop' = "idle")
  BY <1>0, <1>1
<1>3. z[1] \in Bodies
  BY <1>2 DEF Bodies
<1>4. \A s \in Ahead : s[1] \notin Bodies
  BY <1>1, NoBodyYet
<1>5. MicroOk /\ Behind' = Behind \cup {z}
  BY <1>2, <1>3, <1>4, MicroOne DEF RpcInv, Ahead
<1>6. sync' = Under
  BY <1>1 DEF Under
<1> DEFINE W == {}
           V == {z}
<1>7. sync' \in Seq(Step) /\ Range(sync') = W \cup Rest /\ InvStack'
  BY <1>5, <1>6, PushNone DEF RpcInv
<1>8. Ahead' = {z} \cup Behind /\ Ahead = Behind
  BY <1>1, <1>5, <1>7, ShortSequences DEF Ahead, Rest
<1>9. InvStop'
  <2>1. outcome' = outcome /\ \A s \in Behind : s[1] # "send"
    BY <1>1 DEF requests, RpcInv, InvStack, Reactions, Bodies
  <2>2. QED
    BY <1>1, <1>2, <1>3, <1>4, <1>8, <2>1 DEF RpcInv, InvStop, Bodies
<1>10. Excused => Excused'
  BY <1>1 DEF Excused
<1>11. (\A x \in W : FALSE) /\ (\A v \in V : v[1] \in Bodies) /\ (closed' => closed) /\ Behind' = Behind \cup V
  BY <1>1, <1>3, <1>5
<1>12. /\ ended' \in BOOLEAN /\ started' \in BOOLEAN /\ closed' \in BOOLEAN /\ stopping' \in BOOLEAN
       /\ fault' \in {"none", "lost"}
       /\ stop' \in {"none", "called", "clearing", "aborting", "eof", "idle", "closing",
                     "term", "kill", "over", "unconfirmed"}
  BY <1>1 DEF RpcInv, TypeOK, InvAnswers
<1> HIDE DEF V, W
<1>13. QED
  BY <1>1, <1>5, <1>7, <1>9, <1>10, <1>11, <1>12, LifeKeeps


\* The next reaction runs: what is ahead stays ahead.
LEMMA MicrotaskKeeps == ASSUME RpcInv, Microtask PROVE RpcInv'
<1>1. /\ sync = <<>> /\ micro # <<>> /\ sync' = <<Head(micro)>> /\ micro' = Tail(micro)
      /\ UNCHANGED <<requests, lanes, stream, life>>
  BY DEF Microtask, CallerTurn
<1>2. /\ sync' \in Seq(Step) /\ micro' \in Seq(Step) /\ Range(sync') = {Head(micro)}
      /\ Behind = {Head(micro)} \cup Behind' /\ InvStack'
  BY <1>1, MicroNext DEF RpcInv
<1>3. Range(sync) = {} /\ Ahead' = Ahead
  BY <1>1, <1>2, ShortSequences DEF Ahead
<1>4. /\ UNCHANGED <<pending, outcome, response, queue, active, held, wire, started, closed, stopping, fault, stop>>
      /\ Pending' = Pending /\ Writing' = Writing
  BY <1>1 DEF requests, lanes, stream, life, Pending, Writing
<1>5. TypeOK' /\ LanesBalanced'
  BY <1>1, <1>2, <1>4 DEF RpcInv, TypeOK, LanesBalanced, InLane, requests, lanes, stream, life
<1>6. InvCalls' /\ InvStop' /\ InvRequests' /\ InvClosed'
  BY <1>3, <1>4 DEF RpcInv, InvCalls, InvStop, InvRequests, InvClosed
<1>7. InvFrames'
  BY <1>3, <1>4 DEF RpcInv, InvFrames, For
<1>8. InvAnswers'
  <2>1. Excused => Excused'
    BY <1>3, <1>4 DEF Excused
  <2>2. QED
    BY <1>3, <1>4, <2>1 DEF RpcInv, InvAnswers
<1>9. QED
  BY <1>2, <1>5, <1>6, <1>7, <1>8 DEF RpcInv

\* When nothing happens, nothing changes.
LEMMA StutterKeeps == ASSUME RpcInv, UNCHANGED vars PROVE RpcInv'
<1>1. UNCHANGED <<requests, lanes, stream, life>> /\ micro' = micro /\ sync' = sync
  BY DEF vars
<1>2. /\ UNCHANGED <<pending, outcome, response, queue, active, held, wire, started, closed, stopping, fault, stop>>
      /\ Pending' = Pending /\ Writing' = Writing /\ Ahead' = Ahead /\ Rest' = Rest /\ Behind' = Behind
  BY <1>1 DEF requests, lanes, stream, life, Pending, Writing, Ahead, Behind, Rest
<1>3. TypeOK' /\ LanesBalanced' /\ InvStack'
  BY <1>1, <1>2 DEF RpcInv, TypeOK, LanesBalanced, InLane, InvStack, requests, lanes, stream, life
<1>4. InvCalls' /\ InvStop' /\ InvRequests' /\ InvClosed'
  BY <1>2 DEF RpcInv, InvCalls, InvStop, InvRequests, InvClosed
<1>5. InvFrames'
  BY <1>2 DEF RpcInv, InvFrames, For
<1>6. InvAnswers'
  BY <1>1, <1>2 DEF RpcInv, InvAnswers, Excused
<1>7. QED
  BY <1>3, <1>4, <1>5, <1>6 DEF RpcInv

-----------------------------------------------------------------------------
(* The invariant, and what follows from it. *)

\* A new handle satisfies the invariant.
LEMMA RpcStarts == Init => RpcInv
<1> SUFFICES ASSUME Init PROVE RpcInv
  OBVIOUS
<1>1. /\ pending = <<>> /\ queue = <<>> /\ sync = <<>> /\ micro = <<>> /\ active = "none" /\ wire = {}
      /\ outcome = [f \in Frames |-> "new"] /\ held = [lane \in Lanes |-> 0] /\ stop = "none" /\ fault = "none"
      /\ stopping = FALSE /\ closed = FALSE
  BY DEF Init
<1>2. /\ Pending = {} /\ Writing = {} /\ Range(queue) = {} /\ Range(sync) = {} /\ Behind = {} /\ Rest = {}
      /\ Ahead = {}
  BY <1>1, ShortSequences DEF Pending, Writing, Behind, Rest, Ahead
<1>3. TypeOK
  <2>1. outcome \in [Frames -> Outcomes]
    BY <1>1 DEF Outcomes
  <2>2. pending \in Seq(Ids) /\ queue \in Seq(Frames) /\ sync \in Seq(Step) /\ micro \in Seq(Step)
    BY <1>1
  <2>3. held \in [Lanes -> Nat]
    BY <1>1
  <2>4. QED
    BY <2>1, <2>2, <2>3 DEF Init, TypeOK
<1>4. InvCalls /\ InvStop /\ InvClosed
  BY <1>1, <1>2, Names DEF InvCalls, InvStop, InvClosed
<1>5. InvStack
  BY <1>1, <1>2 DEF InvStack
<1>6. IsInjective(pending) /\ IsInjective(queue)
  BY <1>1 DEF IsInjective
<1>7. InvRequests /\ InvFrames
  BY <1>1, <1>2, <1>6, Names DEF InvRequests, InvFrames, For
<1>8. InvAnswers
  BY <1>1, <1>2 DEF InvAnswers
<1>9. LanesBalanced
  <2>1. \A lane \in Lanes : InLane(Writing, lane) = {} /\ held[lane] = 0
    BY <1>1, <1>2 DEF InLane
  <2>2. Cardinality({}) = 0
    BY FS_EmptySet
  <2>3. QED
    BY <2>1, <2>2 DEF LanesBalanced
<1>10. QED
  BY <1>3, <1>4, <1>5, <1>7, <1>8, <1>9 DEF RpcInv

\* Every step keeps it.
LEMMA RpcKeeps == RpcInv /\ [Next]_vars => RpcInv'
<1> SUFFICES ASSUME RpcInv, [Next]_vars PROVE RpcInv'
  OBVIOUS
<1>1. CASE UNCHANGED vars
  BY <1>1, StutterKeeps
<1>2. CASE Run
  <2>1. ASSUME NEW f \in Frames, PumpHeld(f) \/ PumpEnded(f) \/ PumpLate(f) \/ PumpFenced(f) PROVE RpcInv'
    BY <2>1, PumpDropsKeep
  <2>2. ASSUME NEW f \in Frames, PumpWrite(f) PROVE RpcInv'
    BY <2>2, PumpWriteKeeps
  <2>3. CASE Microtask \/ Reject \/ RejectAll \/ Settled \/ SendFrame \/ Cancel \/ Enqueue \/ CancelFrame
    BY <2>3, MicrotaskKeeps, RejectKeeps, RejectAllKeeps, SettledKeeps, SendFrameKeeps, CancelKeeps, EnqueueKeeps,
       CancelFrameKeeps
  <2>4. CASE RejectWrites \/ PumpIdle \/ Complete \/ Fail \/ StopBody \/ IdleBody \/ StopNext
    BY <2>4, RejectWritesKeeps, PumpIdleKeeps, CompleteKeeps, FailKeeps, StopBodyKeeps, IdleBodyKeeps, StopNextKeeps
  <2>5. QED
    BY <1>2, <2>1, <2>2, <2>3, <2>4 DEF Run
<1>3. CASE Caller
  <2>1. ASSUME NEW f \in Frames, Revoke(f) PROVE RpcInv'
    BY <2>1, RevokeKeeps
  <2>2. ASSUME NEW r \in Callers, Send(r) PROVE RpcInv'
    BY <2>2, SendKeeps
  <2>3. ASSUME NEW d \in Dialogs, Answer(d) PROVE RpcInv'
    BY <2>3, AnswerKeeps
  <2>4. CASE Start \/ SpawnFails \/ AbortAndStop \/ CloseIdle
    BY <2>4, StartKeeps, SpawnFailsKeeps, StopCallsKeep
  <2>5. QED
    BY <1>3, <2>1, <2>2, <2>3, <2>4 DEF Caller
<1>4. CASE Timer
  <2>1. ASSUME NEW f \in Frames, Expire(f) \/ WriteTimer(f) PROVE RpcInv'
    BY <2>1, ExpireKeeps, WriteEndsKeep
  <2>2. ASSUME NEW r \in Ids, RequestTimer(r) PROVE RpcInv'
    BY <2>2, RequestTimerKeeps
  <2>3. CASE Escalate
    BY <2>3, StartKeeps
  <2>4. QED
    BY <1>4, <2>1, <2>2, <2>3 DEF Timer
<1>5. CASE Worker
  <2>1. ASSUME NEW f \in Frames, WriteCallback(f) \/ WriteError(f) PROVE RpcInv'
    BY <2>1, WriteCallbackKeeps, WriteEndsKeep
  <2>2. ASSUME NEW r \in Ids, Reply(r) PROVE RpcInv'
    BY <2>2, ReplyKeeps
  <2>3. CASE Drain \/ StreamFails \/ Exit
    BY <2>3, DrainKeeps, StreamFailsKeeps, ExitKeeps
  <2>4. QED
    BY <1>5, <2>1, <2>2, <2>3 DEF Worker
<1>6. QED
  BY <1>1, <1>2, <1>3, <1>4, <1>5 DEF Next


\* The inductive invariant: what may be called next, and what that says of every frame.
THEOREM RpcInvariant == Spec => []RpcInv
  BY RpcStarts, RpcKeeps, PTL DEF Spec

\* The types of every variable.
THEOREM RpcTyped == Spec => []TypeOK
<1>1. RpcInv => TypeOK
  BY DEF RpcInv
<1>2. QED
  BY <1>1, RpcInvariant, PTL

\* What a caller was told of its request is so: a request cancelled as unsent was never written, an
\* answer never finds its request forgotten while the transport is healthy, and the end of the process
\* leaves no promise open once its turn is over.
THEOREM OutcomesAreTrueHolds == Spec => []OutcomesAreTrue
<1>1. RpcInv => OutcomesAreTrue
  <2> SUFFICES ASSUME RpcInv PROVE OutcomesAreTrue
    OBVIOUS
  <2>1. CancelledNeverWritten /\ AnswersAreExpected
    BY DEF RpcInv, InvFrames, InvAnswers, CancelledNeverWritten, AnswersAreExpected
  <2>2. ASSUME closed, sync = <<>>, micro = <<>>, NEW f \in Frames PROVE outcome[f] # "pending"
    <3>1. Ahead = {}
      BY <2>2, ShortSequences DEF Ahead, Behind
    <3>2. Pending = {} /\ Writing = {} /\ ~For({"enqueue", "settled"}, f)
      BY <2>2, <3>1 DEF RpcInv, InvClosed, For
    <3>3. CASE f \in Ids
      BY <3>2, <3>3 DEF RpcInv, InvRequests
    <3>4. CASE f \in Dialogs
      BY <3>2, <3>4 DEF RpcInv, InvFrames
    <3>5. QED
      BY <3>3, <3>4, Names
  <2>3. QED
    BY <2>1, <2>2 DEF ClosedIsSettled, OutcomesAreTrue
<1>2. QED
  BY <1>1, RpcInvariant, PTL

\* The bytes counted against each lane are those of the frames in it: a lane never leaks its room,
\* and never gives it away twice.
THEOREM LanesBalancedHolds == Spec => []LanesBalanced
<1>1. RpcInv => LanesBalanced
  BY DEF RpcInv
<1>2. QED
  BY <1>1, RpcInvariant, PTL

\* What reaches stdin is what the pump writes.
LEMMA WireGrows == ASSUME RpcInv, Next PROVE wire' = wire \/ \E f \in Frames : PumpWrite(f)
<1>1. CASE Run
  BY <1>1 DEF Run, Microtask, Reject, RejectAll, Settled, SendFrame, Cancel, Enqueue, CancelFrame, RejectWrites,
     PumpIdle, Complete, Fail, StopBody, IdleBody, StopNext, PumpHeld, PumpEnded, PumpLate, PumpFenced, Drop, stream
<1>2. CASE Caller
  BY <1>2 DEF Caller, Start, SpawnFails, AbortAndStop, CloseIdle, Send, Answer, Revoke, stream
<1>3. CASE Timer
  BY <1>3 DEF Timer, Escalate, Expire, WriteTimer, RequestTimer, stream
<1>4. CASE Worker
  BY <1>4 DEF Worker, Drain, StreamFails, Exit, WriteCallback, WriteError, Reply, stream
<1>5. QED
  BY <1>1, <1>2, <1>3, <1>4 DEF Next

\* Once the transport has faulted or is stopping, nothing but control frames reaches the worker.
THEOREM OrdinaryLaneHeldHolds == Spec => OrdinaryLaneHeld
<1>1. RpcInv /\ [Next]_vars => [fault # "none" \/ stopping => wire' \ wire \subseteq Control]_vars
  <2> SUFFICES ASSUME RpcInv, Next, fault # "none" \/ stopping PROVE wire' \ wire \subseteq Control
    OBVIOUS
  <2>1. ASSUME NEW f \in Frames, PumpWrite(f) PROVE wire' \ wire \subseteq Control
    BY <2>1 DEF PumpWrite, LaneHeld
  <2>2. QED
    BY <2>1, WireGrows
<1>2. QED
  BY <1>1, RpcInvariant, PTL DEF Spec, OrdinaryLaneHeld

\* Only the body of an idle close ends stdin as clean.
LEMMA ClosingBegins == ASSUME RpcInv, Next, stop # "closing", stop' = "closing" PROVE IdleBody
<1>1. CASE Run
  BY <1>1 DEF Run, Microtask, Reject, RejectAll, Settled, SendFrame, Cancel, Enqueue, CancelFrame, RejectWrites,
     PumpIdle, Complete, Fail, BeginStop, StopBody, StopNext, PumpHeld, PumpEnded, PumpLate, PumpFenced, PumpWrite,
     Drop, life
<1>2. CASE Caller
  BY <1>2 DEF Caller, Start, SpawnFails, AbortAndStop, BeginStop, CloseIdle, Send, Answer, Revoke, life
<1>3. CASE Timer
  BY <1>3 DEF Timer, Escalate, NextSignal, Expire, WriteTimer, RequestTimer, life
<1>4. CASE Worker
  BY <1>4 DEF Worker, Drain, StreamFails, Exit, WriteCallback, WriteError, Reply, life
<1>5. QED
  BY <1>1, <1>2, <1>3, <1>4 DEF Next

\* While the transport is healthy, an idle close ends stdin only when nothing is half written and
\* every request the worker was ever sent has been answered.
THEOREM IdleEndIsCleanHolds == Spec => IdleEndIsClean
<1> DEFINE Clean == fault = "none" /\ stop # "closing" /\ stop' = "closing" =>
                      active = "none" /\ wire \cap Ids \subseteq response
<1>1. RpcInv /\ [Next]_vars => [Clean]_vars
  <2> SUFFICES ASSUME RpcInv, Next, fault = "none", stop # "closing", stop' = "closing"
               PROVE  active = "none" /\ wire \cap Ids \subseteq response
    OBVIOUS
  <2>1. IdleBody
    BY ClosingBegins
  <2>2. Calling("idleBody") /\ MayEnd
    BY <2>1 DEF IdleBody
  <2>3. pending = <<>> /\ active = "none"
    BY <2>2 DEF MayEnd, Unsettled
  <2>4. Pending = {}
    BY <2>3, ShortSequences DEF Pending
  <2>5. sync[1] \in Ahead /\ sync[1][1] = "idleBody" /\ sync # <<>>
    BY <2>2, Innermost
  <2>6. stop = "idle" /\ ~closed
    BY <2>5 DEF RpcInv, InvStop
  <2>7. Range(sync) = {sync[1]}
    <3>1. Rest = {}
      BY <2>5 DEF RpcInv, InvStack, Bodies
    <3>2. QED
      BY <2>5, <3>1, StackShape DEF RpcInv
  <2>8. ~Excused
    BY <2>5, <2>6, <2>7 DEF Excused
  <2>9. QED
    BY <2>3, <2>4, <2>8 DEF RpcInv, InvAnswers
<1>2. QED
  BY <1>1, RpcInvariant, PTL DEF Spec, IdleEndIsClean
=============================================================================
