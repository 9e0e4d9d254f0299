-------------------------- MODULE VcMailboxProofs --------------------------
(***************************************************************************)
(* Proofs about the VideoCore mailbox, for every heap, every set of calls  *)
(* and every set of boards that the assumptions of VcMailbox allow.        *)
(*                                                                         *)
(* The layout of the property buffer is a recursive function of the number *)
(* of the tag.  That there is one, and that its tags lie apart, is shown   *)
(* by induction on sets of natural numbers (Induction).                    *)
(***************************************************************************)
EXTENDS VcMailbox, Induction, SequenceTheorems, TLAPS

-----------------------------------------------------------------------------
(* The inductive invariant.                                                *)

\* Where build_property_buffer() puts the buffer of every call, and the message that says so.
Prop == align_address(HEAP, 16)
Msg == Message(Prop, CHANNEL_PROPERTY)
At(reqs) == TagAddrs(reqs, Prop)

\* The words of a tag that the VideoCore leaves alone are still there, and so is the end marker.
Kept(m, reqs) ==
  /\ \A k \in 1..Len(reqs) :
       m[At(reqs)[k]] = reqs[k].id /\ m[At(reqs)[k] + 4] = BufSz(reqs[k])
  /\ m[At(reqs)[Len(reqs) + 1]] = 0

\* The value of a tag whose code says that it is answered in full is the answer to request nr.
Fresh(m, reqs, nr) ==
  \A k \in 1..Len(reqs) :
    m[At(reqs)[k] + 8] = RESPONSE + reqs[k].ret_sz =>
      \A w \in 2..reqs[k].ret_sz \div 4 :
        m[At(reqs)[k] + HEADER + 4 * (w - 1)] = Value(nr, k, w)

\* The answers of the first tags that the core has copied.
Copied(r, reqs, nr, n) ==
  /\ Len(r) = n
  /\ \A k \in 1..n :
       /\ Len(r[k]) = reqs[k].ret_sz \div 4
       /\ \A w \in 2..Len(r[k]) : r[k][w] = Value(nr, k, w)

Types ==
  /\ TypeOK /\ ret \in Seq(Seq(Nat))
  /\ mbox1 \in {<<>>, <<0>>, <<Msg>>}

\* Before the first call nothing is under way; from then on there is a call, and its buffer.
Started ==
  IF seqnr = 0
    THEN pc = "idle" /\ vc = "idle" /\ mbox1 # <<Msg>>
    ELSE tag_requests \in Calls /\ send_prop = Prop

Buffer == seqnr > 0 => Kept(mem, tag_requests) /\ Fresh(mem, tag_requests, seqnr)

\* The request is with the VideoCore, or on the way to it, only while the code of the buffer is
\* that of a request, and the VideoCore works on the request of this call, tag by tag.
Asking == pc # "write" /\ mem[Prop + 4] = 0

Phase ==
  /\ vc = "tags" =>
       /\ Asking /\ vnr = seqnr /\ mbox1 = <<>>
       /\ vi \in 1..Len(tag_requests) + 1 /\ vtag = At(tag_requests)[vi]
  /\ mbox1 = <<Msg>> => Asking
  /\ pc = "write" => mem[Prop + 4] = 0

\* What the core has got so far.
Got ==
  /\ pc \in {"write", "read", "check_message", "check_buffer"} => ret = <<>>
  /\ pc = "walk" =>
       /\ i <= Len(tag_requests) /\ tag = At(tag_requests)[i + 1]
       /\ Copied(ret, tag_requests, seqnr, i) /\ mem[Prop + 4] >= RESPONSE
  /\ (pc = "caller" /\ error = "none") \/ (pc = "idle" /\ seqnr > 0) =>
       /\ Copied(ret, tag_requests, seqnr, Len(tag_requests)) /\ mem[Prop + 4] >= RESPONSE
  /\ pc = "idle" /\ seqnr > 0 => EchoIsRight

IInv == Types /\ Started /\ Buffer /\ Phase /\ Got

-----------------------------------------------------------------------------
(* The invariant of a VideoCore that does what it is asked to.             *)

\* The first tags are answered, and the others still hold their arguments.
Answered(m, reqs, n) ==
  \A k \in 1..Len(reqs) :
    IF k <= n
      THEN /\ m[At(reqs)[k] + 8] = RESPONSE + reqs[k].ret_sz
           /\ m[At(reqs)[k] + HEADER] = Echo(reqs[k])
      ELSE m[At(reqs)[k] + HEADER] = reqs[k].args[1]

\* Where the request is: nowhere, on the way, with the VideoCore, answered, or on the way back.
Nowhere == vc = "idle" /\ mbox0 = <<>> /\ mbox1 = <<>>
OnTheWay == vc = "idle" /\ mbox0 = <<>> /\ mbox1 = <<Msg>> /\ Answered(mem, tag_requests, 0)
AtWork == vc = "tags" /\ mbox0 = <<>> /\ Answered(mem, tag_requests, vi - 1)
Complete == mem[Prop + 4] = RESPONSE /\ Answered(mem, tag_requests, Len(tag_requests))
ToReply == vc = "reply" /\ mbox0 = <<>> /\ mbox1 = <<>> /\ Complete
OnTheWayBack == vc = "idle" /\ mbox0 = <<Msg>> /\ mbox1 = <<>> /\ Complete

Obeyed ==
  /\ pc # "halt" /\ error = "none"
  /\ pc = "idle" => Nowhere
  /\ pc = "write" => Nowhere /\ Answered(mem, tag_requests, 0)
  /\ pc = "read" => OnTheWay \/ AtWork \/ ToReply \/ OnTheWayBack
  /\ pc \in {"check_message", "check_buffer", "walk", "caller"} => Nowhere /\ Complete
  /\ pc = "check_message" => recv_msg = Msg
  /\ pc \in {"walk", "caller"} => \A k \in 1..Len(ret) : ret[k][1] = Echo(tag_requests[k])

ObeyInv == Quirks = {} => Obeyed

-----------------------------------------------------------------------------
(* The layout of the property buffer.                                      *)

\* The address after one tag, as TagAddrs computes it from the one before.
After(reqs, k, addr) == align_address(addr + HEADER + BufSz(reqs[k - 1]), 4)

IsLayout(f, reqs, prop, n) ==
  f = [k \in 1..n + 1 |-> IF k = 1 THEN prop + 8 ELSE After(reqs, k, f[k - 1])]

\* There is a function that satisfies the recursion.
LEMMA LayoutExists ==
  ASSUME NEW reqs, NEW prop
  PROVE  \A n \in Nat : \E f : IsLayout(f, reqs, prop, n)
<1> DEFINE S == {n \in Nat : \E f : IsLayout(f, reqs, prop, n)}
<1>1. 0 \in S
  <2>1. IsLayout([k \in 1..1 |-> prop + 8], reqs, prop, 0)
    BY DEF IsLayout
  <2> QED BY <2>1
<1>2. ASSUME NEW n \in Nat, n \in S
      PROVE  n + 1 \in S
  <2>1. PICK f : IsLayout(f, reqs, prop, n)
    BY <1>2
  <2> DEFINE g == [k \in 1..n + 2 |-> IF k = n + 2 THEN After(reqs, k, f[n + 1]) ELSE f[k]]
  <2>2. g = [k \in 1..n + 2 |-> IF k = 1 THEN prop + 8 ELSE After(reqs, k, g[k - 1])]
    BY <2>1 DEF IsLayout
  <2>3. IsLayout(g, reqs, prop, n + 1)
    BY <2>2 DEF IsLayout
  <2> HIDE DEF g
  <2>4. \E h : IsLayout(h, reqs, prop, n + 1)
    BY <2>3
  <2> QED BY <2>4
<1>3. Nat \subseteq S
  <2> HIDE DEF S
  <2> QED BY <1>1, <1>2, SetInduction
<1> QED BY <1>3

\* TagAddrs satisfies its recursion.
LEMMA LayoutUnfolds ==
  ASSUME NEW reqs, NEW prop, Len(reqs) \in Nat
  PROVE  IsLayout(TagAddrs(reqs, prop), reqs, prop, Len(reqs))
<1>1. \E f : IsLayout(f, reqs, prop, Len(reqs))
  BY LayoutExists
<1>2. IsLayout(CHOOSE f : IsLayout(f, reqs, prop, Len(reqs)), reqs, prop, Len(reqs))
  BY <1>1
<1>3. TagAddrs(reqs, prop) = CHOOSE f : IsLayout(f, reqs, prop, Len(reqs))
  BY Zenon DEF TagAddrs, IsLayout, After
<1> QED BY <1>2, <1>3

-----------------------------------------------------------------------------
\* The heap, the aligned buffer and the tags in it.
LEMMA PropFacts ==
  /\ Prop \in Nat /\ Prop % 16 = 0 /\ HEAP <= Prop
  /\ Channel(Msg) = CHANNEL_PROPERTY /\ Data(Msg) = Prop /\ ~WrongChannel(Msg) /\ Msg # 0
BY HeapAssumption DEF Prop, Msg, Message, align_address, Channel, Data, WrongChannel,
   CHANNEL_PROPERTY

\* What a call is made of.
LEMMA CallFacts ==
  ASSUME NEW reqs \in Calls
  PROVE  /\ reqs \in Seq(TagRequests) /\ Len(reqs) \in Nat
         /\ \A k \in 1..Len(reqs) :
              /\ reqs[k].id \in Nat /\ reqs[k].id # 0
              /\ reqs[k].args \in Seq(Nat) /\ reqs[k].args[1] \in Nat /\ 1 <= Len(reqs[k].args)
              /\ reqs[k].ret_sz \in Nat /\ reqs[k].ret_sz % 4 = 0 /\ reqs[k].ret_sz >= 4
              /\ BufSz(reqs[k]) = reqs[k].ret_sz
<1>1. reqs \in Seq(TagRequests)
  BY CallsAssumption
<1>2. ASSUME NEW req \in TagRequests
      PROVE  /\ req.id \in Nat /\ req.id # 0
             /\ req.args \in Seq(Nat) /\ req.args[1] \in Nat /\ 1 <= Len(req.args)
             /\ req.ret_sz \in Nat /\ req.ret_sz % 4 = 0 /\ req.ret_sz >= 4
             /\ BufSz(req) = req.ret_sz
  BY SMTT(60) DEF TagRequests, BufSz
<1> HIDE DEF TagRequests
<1>3. \A k \in 1..Len(reqs) : reqs[k] \in TagRequests
  BY <1>1
<1> QED BY <1>1, <1>2, <1>3

\* The address of a word stays what it is.
LEMMA AlignedWord ==
  ASSUME NEW x \in Nat, x % 4 = 0
  PROVE  align_address(x, 4) = x
BY DEF align_address

\* Tags follow each other without a gap, at addresses of words.
LEMMA LayoutSteps ==
  ASSUME NEW reqs \in Calls
  PROVE  /\ At(reqs)[1] = Prop + 8
         /\ \A k \in 1..Len(reqs) + 1 : At(reqs)[k] \in Nat /\ At(reqs)[k] % 4 = 0
         /\ \A k \in 1..Len(reqs) : At(reqs)[k + 1] = At(reqs)[k] + HEADER + reqs[k].ret_sz
<1> DEFINE n == Len(reqs)
<1>1. IsLayout(At(reqs), reqs, Prop, n) /\ n \in Nat
  BY CallFacts, LayoutUnfolds DEF At
<1>2. At(reqs)[1] = Prop + 8
  BY <1>1 DEF IsLayout
<1>3. \A k \in 1..n :
        At(reqs)[k + 1] = align_address(At(reqs)[k] + HEADER + BufSz(reqs[k]), 4)
  BY <1>1 DEF IsLayout, After
<1> DEFINE Good(k) == At(reqs)[k] \in Nat /\ At(reqs)[k] % 4 = 0
           S == {j \in Nat : j <= n => Good(j + 1)}
<1>4. 0 \in S
  BY <1>1, <1>2, PropFacts
<1>5. ASSUME NEW k \in 1..n, Good(k)
      PROVE  Good(k + 1) /\ At(reqs)[k + 1] = At(reqs)[k] + HEADER + reqs[k].ret_sz
  <2>1. /\ At(reqs)[k + 1] = align_address(At(reqs)[k] + HEADER + reqs[k].ret_sz, 4)
        /\ reqs[k].ret_sz \in Nat /\ reqs[k].ret_sz % 4 = 0
    BY <1>3, CallFacts
  <2>2. (At(reqs)[k] + HEADER + reqs[k].ret_sz) % 4 = 0
    BY <2>1, <1>5, SMTT(60) DEF HEADER
  <2>3. At(reqs)[k] + HEADER + reqs[k].ret_sz \in Nat
    BY <2>1, <1>5, SMTT(60) DEF HEADER
  <2> QED BY <2>1, <2>2, <2>3, AlignedWord
<1>6. ASSUME NEW j \in Nat, j \in S
      PROVE  j + 1 \in S
  BY <1>1, <1>5, <1>6
<1>7. Nat \subseteq S
  <2> HIDE DEF S
  <2> QED BY <1>4, <1>6, SetInduction
<1>8. \A k \in 1..n + 1 : Good(k)
  <2> TAKE k \in 1..n + 1
  <2>1. k - 1 \in Nat /\ k - 1 <= n /\ k = (k - 1) + 1
    BY <1>1
  <2> QED BY <2>1, <1>7
<1> QED BY <1>2, <1>5, <1>8, <1>1

\* Tags lie apart: a later one begins after the end of an earlier one.
LEMMA LayoutApart ==
  ASSUME NEW reqs \in Calls, NEW j \in 1..Len(reqs)
  PROVE  \A k \in 1..Len(reqs) + 1 : j < k => At(reqs)[j] + HEADER + reqs[j].ret_sz <= At(reqs)[k]
<1> DEFINE n == Len(reqs)
           end == At(reqs)[j] + HEADER + reqs[j].ret_sz
           S == {d \in Nat : j + 1 + d <= n + 1 => end <= At(reqs)[j + 1 + d]}
<1>1. n \in Nat /\ \A k \in 1..n : reqs[k].ret_sz \in Nat
  BY CallFacts
<1>2. 0 \in S
  BY <1>1, LayoutSteps DEF HEADER
<1>3. ASSUME NEW d \in Nat, d \in S
      PROVE  d + 1 \in S
  <2> SUFFICES ASSUME j + 1 + (d + 1) <= n + 1
               PROVE  end <= At(reqs)[j + 1 + (d + 1)]
    OBVIOUS
  <2> DEFINE k == j + 1 + d
  <2>1. k \in 1..n /\ j + 1 + (d + 1) = k + 1
    <3>1. j \in Nat /\ j >= 1
      BY <1>1
    <3> QED BY <3>1, <1>1
  <2>2. end <= At(reqs)[k]
    BY <1>3, <2>1, <1>1
  <2>3. At(reqs)[k + 1] = At(reqs)[k] + HEADER + reqs[k].ret_sz /\ At(reqs)[k] \in Nat
    BY <2>1, LayoutSteps, <1>1
  <2>4. end \in Nat
    BY <1>1, LayoutSteps, SMTT(60) DEF HEADER
  <2>5. reqs[k].ret_sz \in Nat
    BY <2>1, <1>1
  <2>6. end <= At(reqs)[k + 1]
    <3> HIDE DEF k, end
    <3> QED BY <2>2, <2>3, <2>4, <2>5 DEF HEADER
  <2> QED BY <2>1, <2>6
<1>4. Nat \subseteq S
  <2> HIDE DEF S
  <2> QED BY <1>2, <1>3, SetInduction
<1>5. ASSUME NEW k \in 1..n + 1, j < k
      PROVE  end <= At(reqs)[k]
  <2>1. PICK d \in Nat : j + 1 + d = k
    <3>1. k - j - 1 \in Nat /\ j + 1 + (k - j - 1) = k
      BY <1>1, <1>5
    <3> QED BY <3>1
  <2>2. d \in S
    <3> HIDE DEF S
    <3> QED BY <1>4
  <2>3. j + 1 + d <= n + 1 => end <= At(reqs)[j + 1 + d]
    <3> HIDE DEF end
    <3> QED BY <2>2
  <2>4. k <= n + 1
    BY <1>1
  <2> HIDE DEF end
  <2> QED BY <2>1, <2>3, <2>4
<1> QED BY <1>5

LEMMA InWords ==
  ASSUME NEW a \in Nat
  PROVE  a \in Words <=> HEAP <= a /\ a <= HEAP + HEAP_SZ /\ a % 4 = 0
BY HeapAssumption DEF Words

LEMMA WordsAreNat == Words \subseteq Nat
BY HeapAssumption DEF Words

\* Every tag, and the word that ends them, lies in the heap after the header of the buffer.
LEMMA TagPlace ==
  ASSUME NEW reqs \in Calls, NEW k \in 1..Len(reqs) + 1
  PROVE  /\ At(reqs)[k] \in Words /\ At(reqs)[k] \in Nat
         /\ Prop + 8 <= At(reqs)[k] /\ At(reqs)[k] <= At(reqs)[Len(reqs) + 1]
<1> DEFINE n == Len(reqs)
           end == At(reqs)[n + 1]
<1>1. n \in Nat /\ \A j \in 1..n : reqs[j].ret_sz \in Nat
  BY CallFacts
<1>2. At(reqs)[k] \in Nat /\ At(reqs)[k] % 4 = 0 /\ end \in Nat /\ At(reqs)[1] = Prop + 8
  BY <1>1, LayoutSteps
<1>3. Prop + 8 <= At(reqs)[k]
  <2>1. CASE k = 1
    BY <2>1, <1>2, PropFacts
  <2>2. CASE k # 1
    <3>1. 1 \in 1..n /\ 1 < k
      BY <2>2, <1>1
    <3>2. At(reqs)[1] + HEADER + reqs[1].ret_sz <= At(reqs)[k]
      BY <3>1, LayoutApart
    <3> QED BY <3>1, <3>2, <1>1, <1>2, PropFacts DEF HEADER
  <2> QED BY <2>1, <2>2
<1>4. At(reqs)[k] <= end
  <2>1. CASE k = n + 1
    BY <2>1, <1>2
  <2>2. CASE k # n + 1
    <3>1. k \in 1..n /\ n + 1 \in 1..n + 1 /\ k < n + 1
      BY <2>2, <1>1
    <3>2. At(reqs)[k] + HEADER + reqs[k].ret_sz <= end
      BY <3>1, LayoutApart
    <3> QED BY <3>1, <3>2, <1>1, <1>2 DEF HEADER
  <2> QED BY <2>1, <2>2
<1>5. end <= HEAP + HEAP_SZ
  BY RoomAssumption DEF At, Prop
<1>6. At(reqs)[k] \in Words
  <2> HIDE DEF end
  <2> QED BY <1>2, <1>3, <1>4, <1>5, InWords, PropFacts, HeapAssumption
<1> QED BY <1>2, <1>3, <1>4, <1>6

\* And so does every word of a tag.
LEMMA WordPlace ==
  ASSUME NEW reqs \in Calls, NEW k \in 1..Len(reqs),
         NEW x \in Nat, x % 4 = 0, x < HEADER + reqs[k].ret_sz
  PROVE  /\ At(reqs)[k] + x \in Words /\ At(reqs)[k] \in Nat
         /\ Prop + 8 <= At(reqs)[k] + x /\ At(reqs)[k] + x < At(reqs)[Len(reqs) + 1]
<1> DEFINE n == Len(reqs)
           end == At(reqs)[n + 1]
<1>1. n \in Nat /\ reqs[k].ret_sz \in Nat
  BY CallFacts
<1>2. k \in 1..n + 1 /\ n + 1 \in 1..n + 1 /\ k < n + 1
  BY <1>1
<1>3. /\ At(reqs)[k] \in Nat /\ At(reqs)[k] % 4 = 0 /\ end \in Nat
      /\ Prop + 8 <= At(reqs)[k] /\ end <= HEAP + HEAP_SZ
  BY <1>2, LayoutSteps, TagPlace, RoomAssumption DEF At, Prop
<1>4. At(reqs)[k] + HEADER + reqs[k].ret_sz <= end
  BY <1>2, LayoutApart
<1>5. At(reqs)[k] + x < end
  BY <1>1, <1>3, <1>4, SMTT(60) DEF HEADER
<1>6. At(reqs)[k] + x \in Nat /\ (At(reqs)[k] + x) % 4 = 0
  BY <1>3, SMTT(60)
<1>7. At(reqs)[k] + x \in Words
  <2> HIDE DEF end
  <2> QED BY <1>3, <1>5, <1>6, InWords, PropFacts, HeapAssumption
<1> QED BY <1>3, <1>5, <1>7, PropFacts

\* No word belongs to two tags.
LEMMA WordOfOneTag ==
  ASSUME NEW reqs \in Calls, NEW j \in 1..Len(reqs), NEW k \in 1..Len(reqs), NEW a \in Nat,
         At(reqs)[j] <= a, a < At(reqs)[j] + HEADER + reqs[j].ret_sz,
         At(reqs)[k] <= a, a < At(reqs)[k] + HEADER + reqs[k].ret_sz
  PROVE  j = k
<1>1. Len(reqs) \in Nat /\ \A l \in 1..Len(reqs) : reqs[l].ret_sz \in Nat /\ At(reqs)[l] \in Nat
  <2>1. Len(reqs) \in Nat /\ \A l \in 1..Len(reqs) : reqs[l].ret_sz \in Nat
    BY CallFacts
  <2>2. \A l \in 1..Len(reqs) : l \in 1..Len(reqs) + 1
    BY <2>1
  <2> QED BY <2>1, <2>2, LayoutSteps
<1>2. j \in 1..Len(reqs) + 1 /\ k \in 1..Len(reqs) + 1
  BY <1>1
<1>3. ASSUME j < k PROVE FALSE
  <2>1. At(reqs)[j] + HEADER + reqs[j].ret_sz <= At(reqs)[k]
    BY <1>2, <1>3, LayoutApart
  <2> QED BY <2>1, <1>1 DEF HEADER
<1>4. ASSUME k < j PROVE FALSE
  <2>1. At(reqs)[k] + HEADER + reqs[k].ret_sz <= At(reqs)[j]
    BY <1>2, <1>4, LayoutApart
  <2> QED BY <2>1, <1>1, SMTT(60) DEF HEADER
<1>5. j \in Int /\ k \in Int
  BY <1>1
<1> QED BY <1>3, <1>4, <1>5, SMTT(60)

\* The words of the header of the buffer.
LEMMA HeaderPlace ==
  ASSUME NEW reqs \in Calls
  PROVE  Prop \in Words /\ Prop + 4 \in Words
<1>1. 1 \in 1..Len(reqs) + 1
  BY CallFacts
<1>2. At(reqs)[1] \in Words /\ At(reqs)[1] = Prop + 8
  BY <1>1, TagPlace, LayoutSteps
<1> QED BY <1>2, InWords, PropFacts, HeapAssumption

-----------------------------------------------------------------------------
(* Building the buffer.                                                    *)

\* Words from the fourth one of a tag on, and their numbers.
LEMMA ThirdWord ==
  ASSUME NEW a \in Nat, NEW b \in Nat, a % 4 = 0, b % 4 = 0, b <= a,
         a \notin {b, b + 4, b + 8}
  PROVE  a >= b + 12
OBVIOUS

LEMMA WordNumber ==
  ASSUME NEW a \in Nat, NEW b \in Nat, a >= b + 12
  PROVE  (a - b - 12) \div 4 + 1 \in Nat /\ (a - b - 12) \div 4 + 1 >= 1
OBVIOUS

\* What build_property_buffer() leaves in the heap, whatever was there.
LEMMA Built ==
  ASSUME NEW reqs \in Calls, NEW nr, mem \in [Words -> Nat]
  PROVE  LET m == build_property_buffer(reqs, Prop)
         IN  /\ m \in [Words -> Nat]
             /\ m[Prop + 4] = 0
             /\ Kept(m, reqs) /\ Fresh(m, reqs, nr) /\ Answered(m, reqs, 0)
<1> DEFINE n == Len(reqs)
           at == TagAddrs(reqs, Prop)
           end == at[n + 1]
           m == build_property_buffer(reqs, Prop)
           T(k) == build_tag(reqs[k], at[k])
<1>1. /\ n \in Nat /\ DOMAIN mem = Words /\ at = At(reqs)
      /\ \A k \in 1..n : /\ reqs[k].id \in Nat /\ reqs[k].id # 0
                         /\ reqs[k].args \in Seq(Nat) /\ reqs[k].args[1] \in Nat
                         /\ 1 <= Len(reqs[k].args)
                         /\ reqs[k].ret_sz \in Nat /\ reqs[k].ret_sz >= 4
                         /\ BufSz(reqs[k]) = reqs[k].ret_sz
  BY CallFacts DEF At
<1>2. \A k \in 1..n : at[k] \in Nat /\ at[k] >= Prop + 8
  <2> TAKE k \in 1..n
  <2>1. k \in 1..n + 1
    BY <1>1
  <2> QED BY <2>1, <1>1, TagPlace
<1>3. end \in Nat /\ end >= Prop + 8 /\ end \in Words
  <2>1. n + 1 \in 1..n + 1
    BY <1>1
  <2> QED BY <2>1, <1>1, TagPlace
<1>4. \A k \in 1..n :
        DOMAIN T(k) = {x \in Words : at[k] <= x /\ x < at[k] + HEADER + reqs[k].ret_sz}
  BY <1>1 DEF build_tag
<1>5. ASSUME NEW k \in 1..n, NEW a \in DOMAIN T(k)
      PROVE  a # end /\ m[a] = T(k)[a]
  <2>1. a \in Nat /\ a \in Words /\ at[k] <= a /\ a < at[k] + HEADER + reqs[k].ret_sz
    BY <1>4, WordsAreNat
  <2>2. a # Prop /\ a # Prop + 4
    BY <2>1, <1>2, PropFacts
  <2>3. a # end
    <3>1. n + 1 \in 1..n + 1 /\ k < n + 1
      BY <1>1
    <3>2. at[k] + HEADER + reqs[k].ret_sz <= end
      BY <3>1, <1>1, LayoutApart
    <3>3. at[k] \in Nat /\ reqs[k].ret_sz \in Nat
      BY <1>1, <1>2
    <3> HIDE DEF at, end
    <3> QED BY <3>2, <3>3, <2>1, <1>3 DEF HEADER
  <2>4. \A j \in 1..n : a \in DOMAIN T(j) => j = k
    BY <1>1, <1>4, <2>1, WordOfOneTag
  <2>5. (CHOOSE j \in 1..n : a \in DOMAIN T(j)) = k
    <3> HIDE DEF T
    <3> QED BY <2>4
  <2>6. m[a] = T(CHOOSE j \in 1..n : a \in DOMAIN T(j))[a]
    <3>1. \E j \in 1..n : a \in DOMAIN T(j)
      OBVIOUS
    <3> QED BY <3>1, <2>1, <2>2, <2>3, <1>1 DEF build_property_buffer
  <2> QED BY <2>3, <2>5, <2>6
<1>6. ASSUME NEW k \in 1..n
      PROVE  /\ m[at[k]] = reqs[k].id /\ m[at[k] + 4] = reqs[k].ret_sz
             /\ m[at[k] + 8] = 0 /\ m[at[k] + HEADER] = reqs[k].args[1]
  <2>1. at[k] \in Nat /\ reqs[k].ret_sz \in Nat /\ reqs[k].ret_sz >= 4
    BY <1>1, <1>2
  <2>2. \A x \in {0, 4, 8, 12} : at[k] + x \in DOMAIN T(k)
    <3> TAKE x \in {0, 4, 8, 12}
    <3>1. x \in Nat /\ x % 4 = 0 /\ x < HEADER + reqs[k].ret_sz
      BY <2>1 DEF HEADER
    <3>2. at[k] + x \in Words
      BY <3>1, <1>1, WordPlace
    <3>3. at[k] + x < at[k] + HEADER + reqs[k].ret_sz
      BY <3>1, <2>1 DEF HEADER
    <3>4. at[k] <= at[k] + x
      BY <3>1, <2>1
    <3> HIDE DEF at, T
    <3> QED BY <3>2, <3>3, <3>4, <1>4
  <2>3. at[k] \in DOMAIN T(k)
    BY <2>2, <2>1
  <2>4. /\ T(k)[at[k]] = reqs[k].id /\ T(k)[at[k] + 4] = BufSz(reqs[k])
        /\ T(k)[at[k] + 8] = 0
    <3> HIDE DEF at
    <3> QED BY <2>1, <2>2, <2>3 DEF build_tag, RequestCode
  <2>5. T(k)[at[k] + 12] = reqs[k].args[1]
    <3>1. (at[k] + 12 - at[k] - 12) \div 4 + 1 = 1
      BY <2>1
    <3>2. 1 <= Len(reqs[k].args)
      BY <1>1
    <3>3. at[k] + 12 # at[k] /\ at[k] + 12 # at[k] + 4 /\ at[k] + 12 # at[k] + 8
      BY <2>1
    <3>4. at[k] + 12 \in {x \in DOMAIN mem : at[k] <= x /\ x < at[k] + 12 + BufSz(reqs[k])}
      BY <2>2 DEF build_tag, HEADER
    <3>5. T(k)[at[k] + 12] = LET w == (at[k] + 12 - at[k] - 12) \div 4 + 1
                             IN  IF w <= Len(reqs[k].args) THEN reqs[k].args[w] ELSE 0
      <4> HIDE DEF at
      <4> QED BY <2>1, <3>3, <3>4 DEF build_tag, HEADER
    <3> HIDE DEF at, T
    <3> QED BY <3>1, <3>2, <3>5
  <2>6. m[at[k]] = T(k)[at[k]] /\ \A x \in {4, 8, 12} : m[at[k] + x] = T(k)[at[k] + x]
    BY <1>5, <2>2, <2>3
  <2> HIDE DEF m, T, at
  <2> QED BY <2>4, <2>5, <2>6, <1>1 DEF HEADER
<1> DEFINE W(a) ==
      CASE a = Prop     -> align_address(end + 4, 16) - Prop
        [] a = Prop + 4 -> RequestCode(a)
        [] a = end      -> EndMarker(a)
        [] \E k \in 1..n : a \in DOMAIN T(k) -> T(CHOOSE k \in 1..n : a \in DOMAIN T(k))[a]
        [] OTHER -> mem[a]
<1>0. m = [a \in Words |-> W(a)]
  BY <1>1, Zenon DEF build_property_buffer
<1>7. m[Prop + 4] = 0
  <2>1. Prop + 4 \in Words /\ Prop + 4 # Prop
    BY HeaderPlace, PropFacts
  <2>2. Prop + 4 # end /\ \A k \in 1..n : Prop + 4 \notin DOMAIN T(k)
    <3>1. \A k \in 1..n : ~(at[k] <= Prop + 4)
      BY <1>2, PropFacts
    <3>2. Prop + 4 # end
      BY <1>3, PropFacts
    <3> HIDE DEF T, at, end
    <3> QED BY <1>4, <3>1, <3>2
  <2>3. W(Prop + 4) = 0
    <3> HIDE DEF T, end
    <3> QED BY <2>1, <2>2 DEF RequestCode
  <2> HIDE DEF W, m
  <2> QED BY <2>1, <2>3, <1>0
<1>8. m[end] = 0
  <2>1. W(end) = 0
    <3>1. end # Prop /\ end # Prop + 4
      BY <1>3, PropFacts
    <3>2. \A k \in 1..n : end \notin DOMAIN T(k)
      BY <1>5, <3>1
    <3> HIDE DEF T, end
    <3> QED BY <3>1, <3>2 DEF EndMarker
  <2> HIDE DEF W, m, end
  <2> QED BY <2>1, <1>0, <1>3
<1>9. ASSUME NEW k \in 1..n, NEW a \in DOMAIN T(k)
      PROVE  T(k)[a] \in Nat
  <2>1. /\ a \in Nat /\ a \in Words /\ at[k] <= a /\ at[k] \in Nat
        /\ BufSz(reqs[k]) \in Nat /\ reqs[k].id \in Nat /\ reqs[k].args \in Seq(Nat)
    BY <1>1, <1>2, <1>4, WordsAreNat
  <2>2. a % 4 = 0 /\ at[k] % 4 = 0
    <3>1. k \in 1..n + 1
      BY <1>1
    <3> QED BY <3>1, <2>1, <1>1, InWords, LayoutSteps
  <2> DEFINE w == (a - at[k] - HEADER) \div 4 + 1
  <2>3. CASE a \in {at[k], at[k] + 4, at[k] + 8}
    <3>1. at[k] # at[k] + 4 /\ at[k] # at[k] + 8 /\ at[k] + 4 # at[k] + 8
      BY <2>1
    <3> HIDE DEF at
    <3> QED BY <3>1, <2>1, <2>3 DEF build_tag, RequestCode
  <2>4. CASE a \notin {at[k], at[k] + 4, at[k] + 8}
    <3>1. T(k)[a] = IF w <= Len(reqs[k].args) THEN reqs[k].args[w] ELSE 0
      <4> HIDE DEF at
      <4> QED BY <2>4 DEF build_tag
    <3>2. a >= at[k] + 12
      BY <2>1, <2>2, <2>4, ThirdWord
    <3>3. w \in Nat /\ w >= 1
      BY <2>1, <3>2, WordNumber DEF HEADER
    <3> HIDE DEF at, w, T
    <3> QED BY <2>1, <3>1, <3>3
  <2> QED BY <2>3, <2>4
<1>10. ASSUME NEW a \in Words
       PROVE  m[a] \in Nat
  <2>1. CASE a = Prop + 4 \/ a = end
    BY <2>1, <1>7, <1>8
  <2>2. CASE \E k \in 1..n : a \in DOMAIN T(k)
    BY <2>2, <1>5, <1>9
  <2>3. CASE a # Prop + 4 /\ a # end /\ ~\E k \in 1..n : a \in DOMAIN T(k)
    <3>1. m[a] = W(a)
      <4> HIDE DEF m, W
      <4> QED BY <1>0
    <3>2. W(a) = IF a = Prop THEN align_address(end + 4, 16) - Prop ELSE mem[a]
      <4> HIDE DEF T, end, at
      <4> QED BY <2>3
    <3>3. align_address(end + 4, 16) - Prop \in Nat
      <4> HIDE DEF end
      <4> QED BY <1>3, PropFacts DEF align_address
    <3> HIDE DEF m, W, end
    <3> QED BY <3>1, <3>2, <3>3
  <2> QED BY <2>1, <2>2, <2>3
<1>11. m \in [Words -> Nat]
  <2> HIDE DEF m, W
  <2> QED BY <1>0, <1>10
<1>12. Kept(m, reqs)
  <2> HIDE DEF m, at
  <2> QED BY <1>1, <1>6, <1>8 DEF Kept
<1>13. Fresh(m, reqs, nr)
  <2> SUFFICES ASSUME NEW k \in 1..n, m[at[k] + 8] = RESPONSE + reqs[k].ret_sz
               PROVE  FALSE
    BY <1>1 DEF Fresh
  <2>1. m[at[k] + 8] = 0 /\ reqs[k].ret_sz \in Nat
    BY <1>1, <1>6
  <2> HIDE DEF m, at
  <2> QED BY <2>1 DEF RESPONSE
<1>14. Answered(m, reqs, 0)
  <2> SUFFICES ASSUME NEW k \in 1..n
               PROVE  ~(k <= 0) /\ m[at[k] + HEADER] = reqs[k].args[1]
    BY <1>1 DEF Answered
  <2> HIDE DEF m, at
  <2> QED BY <1>1, <1>6
<1> QED BY <1>7, <1>11, <1>12, <1>13, <1>14

-----------------------------------------------------------------------------
(* The VideoCore answers a tag.                                            *)

\* The heap after VcAnswer, for tag k of request nr at address addr.
Wrote(m, addr, nr, k, sz, first) ==
  [a \in Words |->
     CASE a = addr + 8      -> RESPONSE + sz
       [] a = addr + HEADER -> first
       [] addr + HEADER < a /\ a < addr + HEADER + sz ->
            Value(nr, k, (a - addr - HEADER) \div 4 + 1)
       [] OTHER -> m[a]]

\* The words that it writes, and those that it does not.
Written(m2, m, reqs, nr, k, sz, first) ==
  /\ m2 \in [Words -> Nat]
  /\ m2[At(reqs)[k] + 8] = RESPONSE + sz /\ m2[At(reqs)[k] + HEADER] = first
  /\ \A w \in 2..sz \div 4 : m2[At(reqs)[k] + HEADER + 4 * (w - 1)] = Value(nr, k, w)
  /\ \A a \in Words :
       a < At(reqs)[k] + 8 \/ a >= At(reqs)[k] + HEADER + reqs[k].ret_sz => m2[a] = m[a]

LEMMA WroteWords ==
  ASSUME NEW reqs \in Calls, NEW k \in 1..Len(reqs), NEW m \in [Words -> Nat], NEW nr \in Nat,
         NEW sz \in {reqs[k].ret_sz, 4}, NEW first \in Nat
  PROVE  Written(Wrote(m, At(reqs)[k], nr, k, sz, first), m, reqs, nr, k, sz, first)
<1> DEFINE b == At(reqs)[k]
           m2 == Wrote(m, b, nr, k, sz, first)
<1>1. /\ reqs[k].ret_sz \in Nat /\ reqs[k].ret_sz >= 4 /\ reqs[k].ret_sz % 4 = 0
      /\ Len(reqs) \in Nat /\ k \in Nat
  BY CallFacts
<1>2. sz \in Nat /\ sz >= 4 /\ sz <= reqs[k].ret_sz
  BY <1>1
<1>3. b \in Nat
  <2>1. k \in 1..Len(reqs) + 1
    BY <1>1
  <2> QED BY <2>1, TagPlace
<1>4. \A x \in Nat : x % 4 = 0 /\ x < HEADER + reqs[k].ret_sz => b + x \in Words
  BY WordPlace
<1>5. b + 8 \in Words /\ b + HEADER \in Words
  <2>1. 8 \in Nat /\ 8 % 4 = 0 /\ 8 < HEADER + reqs[k].ret_sz
    BY <1>1 DEF HEADER
  <2>2. 12 \in Nat /\ 12 % 4 = 0 /\ 12 < HEADER + reqs[k].ret_sz
    BY <1>1 DEF HEADER
  <2> QED BY <2>1, <2>2, <1>4 DEF HEADER
<1> HIDE DEF b
<1>6. m2[b + 8] = RESPONSE + sz
  <2>1. b + 8 # b + HEADER /\ ~(b + HEADER < b + 8)
    BY <1>3 DEF HEADER
  <2> QED BY <1>5, <2>1 DEF Wrote
<1>7. m2[b + HEADER] = first
  <2>1. b + 8 # b + HEADER /\ ~(b + HEADER < b + HEADER)
    BY <1>3 DEF HEADER
  <2> QED BY <1>5, <2>1 DEF Wrote
<1>8. ASSUME NEW w \in 2..sz \div 4
      PROVE  m2[b + HEADER + 4 * (w - 1)] = Value(nr, k, w)
  <2> DEFINE x == HEADER + 4 * (w - 1)
  <2>1. w \in Nat /\ w >= 2 /\ 4 * w <= sz
    BY <1>2
  <2>2. x \in Nat /\ x % 4 = 0 /\ HEADER < x /\ x < HEADER + sz /\ (x - HEADER) \div 4 + 1 = w
    BY <2>1, <1>2 DEF HEADER
  <2>3. b + x \in Words
    BY <2>2, <1>2, <1>1, <1>4 DEF HEADER
  <2>4. /\ b + x # b + 8 /\ b + x # b + HEADER
        /\ b + HEADER < b + x /\ b + x < b + HEADER + sz
        /\ (b + x) - b - HEADER = x - HEADER /\ b + HEADER + 4 * (w - 1) = b + x
    BY <2>1, <2>2, <1>2, <1>3 DEF HEADER
  <2> HIDE DEF x
  <2> QED BY <2>2, <2>3, <2>4 DEF Wrote
<1>9. ASSUME NEW a \in Words, a < b + 8 \/ a >= b + HEADER + reqs[k].ret_sz
      PROVE  m2[a] = m[a]
  <2>1. a \in Nat
    BY WordsAreNat
  <2>2. a # b + 8 /\ a # b + HEADER /\ ~(b + HEADER < a /\ a < b + HEADER + sz)
    BY <2>1, <1>1, <1>2, <1>3, <1>9 DEF HEADER
  <2> QED BY <2>2 DEF Wrote
<1>10. ASSUME NEW a \in Words
       PROVE  m2[a] \in Nat
  <2>1. a \in Nat
    BY WordsAreNat
  <2>2. CASE a = b + 8 \/ a = b + HEADER
    BY <2>2, <1>6, <1>7, <1>2 DEF RESPONSE
  <2>3. CASE b + HEADER < a /\ a < b + HEADER + sz
    <3>1. a # b + 8 /\ a # b + HEADER
      BY <2>1, <2>3, <1>3 DEF HEADER
    <3>2. m2[a] = Value(nr, k, (a - b - HEADER) \div 4 + 1)
      BY <3>1, <2>3 DEF Wrote
    <3>3. (a - b - HEADER) \div 4 + 1 \in Nat
      BY <2>1, <2>3, <1>3 DEF HEADER
    <3> QED BY <3>2, <3>3, <1>1 DEF Value
  <2>4. CASE a # b + 8 /\ a # b + HEADER /\ ~(b + HEADER < a /\ a < b + HEADER + sz)
    <3>1. m2[a] = m[a]
      BY <2>4 DEF Wrote
    <3> QED BY <3>1
  <2> QED BY <2>2, <2>3, <2>4
<1>11. m2 \in [Words -> Nat]
  <2>1. m2 = [a \in Words |-> m2[a]]
    BY DEF Wrote
  <2> HIDE DEF m2
  <2> QED BY <2>1, <1>10
<1> HIDE DEF m2
<1>12. Written(m2, m, reqs, nr, k, sz, first)
  BY <1>6, <1>7, <1>8, <1>9, <1>11 DEF b, Written
<1> QED BY <1>12 DEF b, m2

LEMMA Apart ==
  ASSUME NEW b \in Nat, NEW c \in Nat, NEW x \in Nat, NEW y \in Nat, NEW z \in Nat, x < HEADER + y
  PROVE  /\ c + HEADER + y <= b => c + x < b + 8
         /\ b + HEADER + z <= c => c + x >= b + HEADER + z
BY DEF HEADER

\* The words of other tags are not among them.
Elsewhere(m2, m, reqs, k) ==
  \A j \in 1..Len(reqs) : \A x \in Nat :
    x % 4 = 0 /\ x < HEADER + reqs[j].ret_sz /\ (j # k \/ x < 8) =>
      m2[At(reqs)[j] + x] = m[At(reqs)[j] + x]

LEMMA WroteElsewhere ==
  ASSUME NEW reqs \in Calls, NEW k \in 1..Len(reqs), NEW m \in [Words -> Nat], NEW nr \in Nat,
         NEW m2, NEW sz, NEW first, Written(m2, m, reqs, nr, k, sz, first)
  PROVE  Elsewhere(m2, m, reqs, k)
<1> SUFFICES ASSUME NEW j \in 1..Len(reqs), NEW x \in Nat,
                    x % 4 = 0, x < HEADER + reqs[j].ret_sz, j # k \/ x < 8
             PROVE  m2[At(reqs)[j] + x] = m[At(reqs)[j] + x]
  BY DEF Elsewhere
<1> DEFINE b == At(reqs)[k]
           a == At(reqs)[j] + x
<1>1. /\ Len(reqs) \in Nat /\ reqs[k].ret_sz \in Nat /\ reqs[j].ret_sz \in Nat
      /\ k \in 1..Len(reqs) + 1 /\ j \in 1..Len(reqs) + 1
  BY CallFacts
<1>2. At(reqs)[j] \in Nat /\ b \in Nat /\ a \in Words
  BY <1>1, TagPlace, WordPlace
<1>3. a < b + 8 \/ a >= b + HEADER + reqs[k].ret_sz
  <2>1. CASE j = k
    BY <2>1, <1>2
  <2>2. CASE j < k
    <3>1. At(reqs)[j] + HEADER + reqs[j].ret_sz <= b
      BY <2>2, <1>1, LayoutApart
    <3> QED BY <3>1, <1>1, <1>2, Apart DEF HEADER
  <2>3. CASE k < j
    <3>1. b + HEADER + reqs[k].ret_sz <= At(reqs)[j]
      BY <2>3, <1>1, LayoutApart
    <3> QED BY <3>1, <1>1, <1>2, Apart DEF HEADER
  <2> QED BY <2>1, <2>2, <2>3, <1>1
<1>4. \A y \in Words :
        y < b + 8 \/ y >= b + HEADER + reqs[k].ret_sz => m2[y] = m[y]
  BY DEF Written
<1> HIDE DEF a, b
<1>5. m2[a] = m[a]
  BY <1>2, <1>3, <1>4
<1> QED BY <1>5 DEF a

\* An answer leaves the layout and the code of the buffer, and is fresh when it is in full.
LEMMA AnswerKeeps ==
  ASSUME NEW reqs \in Calls, NEW k \in 1..Len(reqs), NEW m \in [Words -> Nat], NEW nr \in Nat,
         NEW sz \in {reqs[k].ret_sz, 4}, NEW first \in Nat,
         NEW m2, Written(m2, m, reqs, nr, k, sz, first)
  PROVE  /\ m2 \in [Words -> Nat] /\ m2[Prop + 4] = m[Prop + 4]
         /\ Kept(m, reqs) => Kept(m2, reqs)
         /\ Fresh(m, reqs, nr) => Fresh(m2, reqs, nr)
         /\ Answered(m, reqs, k - 1) /\ sz = reqs[k].ret_sz /\ first = Echo(reqs[k]) =>
              Answered(m2, reqs, k)
<1> DEFINE n == Len(reqs)
<1>1. /\ n \in Nat /\ k \in 1..n + 1
      /\ \A j \in 1..n : /\ reqs[j].ret_sz \in Nat /\ reqs[j].ret_sz >= 4
                         /\ reqs[j].ret_sz % 4 = 0 /\ BufSz(reqs[j]) = reqs[j].ret_sz
  BY CallFacts
<1>2. Written(m2, m, reqs, nr, k, sz, first)
  OBVIOUS
<1>3. \A j \in 1..n : \A x \in Nat :
        x % 4 = 0 /\ x < HEADER + reqs[j].ret_sz /\ (j # k \/ x < 8) =>
          m2[At(reqs)[j] + x] = m[At(reqs)[j] + x]
  <2>1. Elsewhere(m2, m, reqs, k)
    BY WroteElsewhere
  <2> QED BY <2>1 DEF Elsewhere
<1>4. \A j \in 1..n + 1 : At(reqs)[j] \in Nat /\ At(reqs)[j] \in Words /\ Prop + 8 <= At(reqs)[j]
  BY TagPlace
<1>5. m2[Prop + 4] = m[Prop + 4]
  <2>1. Prop + 4 \in Words /\ Prop + 4 < At(reqs)[k] + 8
    BY HeaderPlace, PropFacts, <1>1, <1>4, SMTT(60)
  <2> QED BY <2>1, <1>2 DEF Written
<1>6. ASSUME NEW j \in 1..n
      PROVE  m2[At(reqs)[j]] = m[At(reqs)[j]] /\ m2[At(reqs)[j] + 4] = m[At(reqs)[j] + 4]
  <2>1. reqs[j].ret_sz \in Nat /\ j \in 1..n + 1
    BY <1>1
  <2>2. 0 < HEADER + reqs[j].ret_sz /\ 4 < HEADER + reqs[j].ret_sz /\ 0 % 4 = 0 /\ 4 % 4 = 0
    BY <2>1 DEF HEADER
  <2>3. m2[At(reqs)[j] + 0] = m[At(reqs)[j] + 0] /\ m2[At(reqs)[j] + 4] = m[At(reqs)[j] + 4]
    BY <1>3, <2>2
  <2>4. At(reqs)[j] + 0 = At(reqs)[j]
    BY <2>1, <1>4
  <2> QED BY <2>3, <2>4
<1>7. m2[At(reqs)[n + 1]] = m[At(reqs)[n + 1]]
  <2>1. n + 1 \in 1..n + 1 /\ k < n + 1
    BY <1>1
  <2>2. At(reqs)[k] + HEADER + reqs[k].ret_sz <= At(reqs)[n + 1]
    BY <2>1, LayoutApart
  <2>3. At(reqs)[n + 1] >= At(reqs)[k] + HEADER + reqs[k].ret_sz /\ At(reqs)[n + 1] \in Words
    BY <2>1, <2>2, <1>1, <1>4 DEF HEADER
  <2> QED BY <2>3, <1>2 DEF Written
<1>8. ASSUME Kept(m, reqs)
      PROVE  Kept(m2, reqs)
  BY <1>6, <1>7, <1>8 DEF Kept
<1>9. ASSUME Fresh(m, reqs, nr), NEW j \in 1..n,
             m2[At(reqs)[j] + 8] = RESPONSE + reqs[j].ret_sz,
             NEW w \in 2..reqs[j].ret_sz \div 4
      PROVE  m2[At(reqs)[j] + HEADER + 4 * (w - 1)] = Value(nr, j, w)
  <2>1. reqs[j].ret_sz \in Nat /\ w \in Nat /\ w >= 2 /\ 4 * w <= reqs[j].ret_sz
    BY <1>1
  <2>2. CASE j = k
    <3>1. RESPONSE + sz = RESPONSE + reqs[j].ret_sz
      BY <2>2, <1>2, <1>9 DEF Written
    <3>2. sz = reqs[j].ret_sz
      BY <3>1, <2>1, <2>2 DEF RESPONSE
    <3> QED BY <3>2, <2>2, <1>2 DEF Written
  <2>3. CASE j # k
    <3>1. m2[At(reqs)[j] + 8] = m[At(reqs)[j] + 8]
      <4>1. 8 \in Nat /\ 8 % 4 = 0 /\ 8 < HEADER + reqs[j].ret_sz
        BY <2>1 DEF HEADER
      <4> QED BY <4>1, <2>3, <1>3
    <3> DEFINE x == HEADER + 4 * (w - 1)
    <3>2. m2[At(reqs)[j] + x] = m[At(reqs)[j] + x]
      <4>1. x \in Nat /\ x % 4 = 0 /\ x < HEADER + reqs[j].ret_sz
        BY <2>1, SMTT(60) DEF HEADER
      <4> HIDE DEF x
      <4> QED BY <4>1, <2>3, <1>3
    <3>3. At(reqs)[j] + x = At(reqs)[j] + HEADER + 4 * (w - 1)
      <4>1. At(reqs)[j] \in Nat
        BY <1>1, <1>4
      <4> QED BY <4>1, <2>1 DEF HEADER
    <3>4. m[At(reqs)[j] + HEADER + 4 * (w - 1)] = Value(nr, j, w)
      BY <3>1, <1>9 DEF Fresh
    <3> QED BY <3>2, <3>3, <3>4
  <2> QED BY <2>2, <2>3
<1>10. Fresh(m, reqs, nr) => Fresh(m2, reqs, nr)
  BY <1>9 DEF Fresh
<1>11. ASSUME Answered(m, reqs, k - 1), sz = reqs[k].ret_sz, first = Echo(reqs[k]),
              NEW j \in 1..n
       PROVE  IF j <= k
                THEN /\ m2[At(reqs)[j] + 8] = RESPONSE + reqs[j].ret_sz
                     /\ m2[At(reqs)[j] + HEADER] = Echo(reqs[j])
                ELSE m2[At(reqs)[j] + HEADER] = reqs[j].args[1]
  <2>1. reqs[j].ret_sz \in Nat /\ reqs[j].ret_sz >= 4
    BY <1>1
  <2>2. CASE j = k
    BY <2>2, <1>1, <1>2, <1>11 DEF Written
  <2>3. CASE j # k
    <3>1. 8 \in Nat /\ 8 % 4 = 0 /\ 8 < HEADER + reqs[j].ret_sz
      BY <2>1 DEF HEADER
    <3>2. 12 \in Nat /\ 12 % 4 = 0 /\ 12 < HEADER + reqs[j].ret_sz
      BY <2>1 DEF HEADER
    <3>3. /\ m2[At(reqs)[j] + 8] = m[At(reqs)[j] + 8]
          /\ m2[At(reqs)[j] + HEADER] = m[At(reqs)[j] + HEADER]
      BY <3>1, <3>2, <2>3, <1>3 DEF HEADER
    <3>4. j <= k - 1 <=> j <= k
      BY <2>3, <1>1
    <3> QED BY <3>3, <3>4, <1>11 DEF Answered
  <2> QED BY <2>2, <2>3
<1>12. Answered(m, reqs, k - 1) /\ sz = reqs[k].ret_sz /\ first = Echo(reqs[k]) =>
         Answered(m2, reqs, k)
  BY <1>11 DEF Answered
<1>13. m2 \in [Words -> Nat]
  BY <1>2 DEF Written
<1> QED BY <1>5, <1>8, <1>10, <1>12, <1>13

\* The code of the buffer is none of the words of its tags.
CodeSet(m2, m, c) == m2 = [m EXCEPT ![Prop + 4] = c]

LEMMA CodeApart ==
  ASSUME NEW reqs \in Calls, NEW m \in [Words -> Nat], NEW c \in Nat, NEW nr,
         NEW m2, CodeSet(m2, m, c)
  PROVE  /\ m2 \in [Words -> Nat] /\ m2[Prop + 4] = c
         /\ Kept(m, reqs) => Kept(m2, reqs)
         /\ Fresh(m, reqs, nr) => Fresh(m2, reqs, nr)
         /\ \A n \in Nat : Answered(m, reqs, n) => Answered(m2, reqs, n)
<1>1. Prop + 4 \in Words /\ Prop \in Nat
  BY HeaderPlace, PropFacts
<1>2. m2 \in [Words -> Nat] /\ m2[Prop + 4] = c
  BY <1>1 DEF CodeSet
<1>3. \A a \in Words : a >= Prop + 8 => m2[a] = m[a]
  BY <1>1, WordsAreNat DEF CodeSet
<1>4. ASSUME NEW k \in 1..Len(reqs), NEW x \in Nat
      PROVE  x % 4 = 0 /\ x < HEADER + reqs[k].ret_sz => m2[At(reqs)[k] + x] = m[At(reqs)[k] + x]
  <2> HAVE x % 4 = 0 /\ x < HEADER + reqs[k].ret_sz
  <2>1. At(reqs)[k] + x \in Words /\ Prop + 8 <= At(reqs)[k] + x /\ At(reqs)[k] \in Nat
    BY WordPlace
  <2> QED BY <2>1, <1>1, <1>3
<1>5. /\ Len(reqs) \in Nat
      /\ \A k \in 1..Len(reqs) : reqs[k].ret_sz \in Nat /\ reqs[k].ret_sz >= 4
  BY CallFacts
<1>6. ASSUME NEW k \in 1..Len(reqs)
      PROVE  /\ m2[At(reqs)[k]] = m[At(reqs)[k]] /\ m2[At(reqs)[k] + 4] = m[At(reqs)[k] + 4]
             /\ m2[At(reqs)[k] + 8] = m[At(reqs)[k] + 8]
             /\ m2[At(reqs)[k] + HEADER] = m[At(reqs)[k] + HEADER]
             /\ \A w \in 2..reqs[k].ret_sz \div 4 :
                  m2[At(reqs)[k] + HEADER + 4 * (w - 1)] = m[At(reqs)[k] + HEADER + 4 * (w - 1)]
  <2>1. reqs[k].ret_sz \in Nat /\ reqs[k].ret_sz >= 4 /\ k \in 1..Len(reqs) + 1
    BY <1>5
  <2>2. At(reqs)[k] \in Nat /\ At(reqs)[k] + 0 = At(reqs)[k]
    BY <2>1, TagPlace
  <2>3. \A x \in {0, 4, 8, 12} : x \in Nat /\ x % 4 = 0 /\ x < HEADER + reqs[k].ret_sz
    BY <2>1 DEF HEADER
  <2>4. \A x \in {0, 4, 8, 12} : m2[At(reqs)[k] + x] = m[At(reqs)[k] + x]
    BY <2>3, <1>4
  <2>5. ASSUME NEW w \in 2..reqs[k].ret_sz \div 4
        PROVE  m2[At(reqs)[k] + HEADER + 4 * (w - 1)] = m[At(reqs)[k] + HEADER + 4 * (w - 1)]
    <3> DEFINE x == HEADER + 4 * (w - 1)
    <3>1. w \in Nat /\ w >= 2 /\ 4 * w <= reqs[k].ret_sz
      BY <2>1
    <3>2. x \in Nat /\ x % 4 = 0 /\ x < HEADER + reqs[k].ret_sz
      BY <3>1, <2>1 DEF HEADER
    <3>3. At(reqs)[k] + x = At(reqs)[k] + HEADER + 4 * (w - 1)
      BY <2>2, <3>1 DEF HEADER
    <3> HIDE DEF x
    <3> QED BY <1>4, <3>2, <3>3
  <2> QED BY <2>2, <2>4, <2>5 DEF HEADER
<1>7. m2[At(reqs)[Len(reqs) + 1]] = m[At(reqs)[Len(reqs) + 1]]
  <2>1. Len(reqs) + 1 \in 1..Len(reqs) + 1
    BY <1>5
  <2>2. /\ At(reqs)[Len(reqs) + 1] \in Words /\ At(reqs)[Len(reqs) + 1] \in Nat
        /\ Prop + 8 <= At(reqs)[Len(reqs) + 1]
    BY <2>1, TagPlace
  <2> QED BY <2>2, <1>1, <1>3
<1>8. Kept(m, reqs) => Kept(m2, reqs)
  BY <1>6, <1>7 DEF Kept
<1>9. Fresh(m, reqs, nr) => Fresh(m2, reqs, nr)
  BY <1>6 DEF Fresh
<1>10. \A n \in Nat : Answered(m, reqs, n) => Answered(m2, reqs, n)
  BY <1>6 DEF Answered
<1> QED BY <1>2, <1>8, <1>9, <1>10

-----------------------------------------------------------------------------
(* The core copies an answer.                                              *)

\* The output buffers r, and that of one more request after them.
Copies(r2, r, m, addr, req) ==
  r2 = Append(r, [w \in 1..req.ret_sz \div 4 |-> m[addr + HEADER + 4 * (w - 1)]])

OneMore(r2, r, m, reqs, nr, j) ==
  /\ r2 \in Seq(Seq(Nat)) /\ Copied(r2, reqs, nr, j + 1)
  /\ \A k \in 1..j : r2[k] = r[k]
  /\ r2[j + 1][1] = m[At(reqs)[j + 1] + HEADER]

\* The words of an answer in full, copied, are those of the answer to this request.
LEMMA CopyTag ==
  ASSUME NEW reqs \in Calls, NEW m \in [Words -> Nat], NEW nr \in Nat,
         NEW r \in Seq(Seq(Nat)), NEW j \in Nat, j + 1 \in 1..Len(reqs),
         Fresh(m, reqs, nr), Copied(r, reqs, nr, j),
         m[At(reqs)[j + 1] + 8] = RESPONSE + reqs[j + 1].ret_sz,
         NEW r2, Copies(r2, r, m, At(reqs)[j + 1], reqs[j + 1])
  PROVE  OneMore(r2, r, m, reqs, nr, j)
<1> DEFINE req == reqs[j + 1]
           b == At(reqs)[j + 1]
           l == req.ret_sz \div 4
           f == [w \in 1..l |-> m[b + HEADER + 4 * (w - 1)]]
<1>1. Len(reqs) \in Nat /\ req.ret_sz \in Nat /\ req.ret_sz >= 4 /\ req.ret_sz % 4 = 0
  BY CallFacts
<1>2. l \in Nat /\ l >= 1 /\ 4 * l = req.ret_sz
  <2> HIDE DEF req
  <2> QED BY <1>1
<1>3. b \in Nat
  <2>1. j + 1 \in 1..Len(reqs) + 1
    BY <1>1
  <2> QED BY <2>1, TagPlace
<1>4. ASSUME NEW w \in 1..l
      PROVE  m[b + HEADER + 4 * (w - 1)] \in Nat
  <2> DEFINE x == HEADER + 4 * (w - 1)
  <2>1. x \in Nat /\ x % 4 = 0 /\ x < HEADER + req.ret_sz
    <3> HIDE DEF l, req
    <3> QED BY <1>1, <1>2 DEF HEADER
  <2>2. b + x = b + HEADER + 4 * (w - 1)
    <3> HIDE DEF b, l
    <3> QED BY <1>2, <1>3 DEF HEADER
  <2> HIDE DEF x
  <2>3. b + x \in Words
    BY <2>1, WordPlace
  <2> QED BY <2>2, <2>3
<1>5. f \in [1..l -> Nat]
  <2> HIDE DEF b, l
  <2> QED BY <1>4
<1>0. r2 = Append(r, f)
  BY DEF Copies
<1>6. f \in Seq(Nat) /\ Len(f) = l
  <2> HIDE DEF l, f
  <2>1. f \in Seq(Nat)
    <3>1. f \in UNION {[1..n -> Nat] : n \in Nat}
      BY <1>2, <1>5
    <3> QED BY <3>1, SeqDef
  <2>2. DOMAIN f = 1..l /\ DOMAIN f = 1..Len(f) /\ Len(f) \in Nat
    BY <1>5, <2>1, LenProperties
  <2> QED BY <2>1, <2>2, <1>2
<1>7. r2 \in Seq(Seq(Nat)) /\ Len(r) = j /\ Len(r2) = j + 1
  <2> HIDE DEF f
  <2> QED BY <1>0, <1>6 DEF Copied
<1>8. r2[j + 1] = f /\ \A k \in 1..j : r2[k] = r[k]
  <2> HIDE DEF f
  <2> QED BY <1>0, <1>6, <1>7
<1>9. f[1] = m[b + HEADER]
  <2>1. 1 \in 1..l /\ b + HEADER + 4 * (1 - 1) = b + HEADER
    <3> HIDE DEF b, l
    <3> QED BY <1>2, <1>3 DEF HEADER
  <2> QED BY <2>1
<1>10. \A w \in 2..Len(f) : f[w] = Value(nr, j + 1, w)
  <2>1. \A w \in 2..l : m[b + HEADER + 4 * (w - 1)] = Value(nr, j + 1, w)
    BY DEF Fresh
  <2>2. \A w \in 2..l : w \in 1..l
    <3> HIDE DEF l
    <3> QED BY <1>2
  <2> QED BY <2>1, <2>2, <1>6
<1>11. Copied(r2, reqs, nr, j + 1)
  <2> SUFFICES ASSUME NEW k \in 1..j + 1
               PROVE  /\ Len(r2[k]) = reqs[k].ret_sz \div 4
                      /\ \A w \in 2..Len(r2[k]) : r2[k][w] = Value(nr, k, w)
    BY <1>7 DEF Copied
  <2>1. CASE k = j + 1
    <3> HIDE DEF f
    <3> QED BY <2>1, <1>6, <1>8, <1>10
  <2>2. CASE k # j + 1
    <3>1. k \in 1..j
      BY <2>2
    <3>2. r2[k] = r[k]
      BY <3>1, <1>8
    <3>3. /\ Len(r[k]) = reqs[k].ret_sz \div 4
          /\ \A w \in 2..Len(r[k]) : r[k][w] = Value(nr, k, w)
      BY <3>1 DEF Copied
    <3> QED BY <3>2, <3>3
  <2> QED BY <2>1, <2>2
<1> QED BY <1>7, <1>8, <1>9, <1>11 DEF OneMore

-----------------------------------------------------------------------------
(* The invariant holds at first and is kept by every step.                 *)

LEMMA IInvInit == Init => IInv
<1> SUFFICES ASSUME Init
             PROVE  IInv
  OBVIOUS
<1> USE DEF Init
<1>1. mem \in [Words -> Nat]
  <2>1. PICK junk \in {0, RESPONSE + 8} : mem = [a \in Words |-> junk]
    OBVIOUS
  <2>2. junk \in Nat
    BY DEF RESPONSE
  <2> QED BY <2>1, <2>2
<1>2. mbox1 \in {<<>>, <<0>>}
  OBVIOUS
<1>3. mbox1 # <<Msg>>
  BY <1>2, PropFacts
<1>4. ret \in Seq(Seq(Nat)) /\ Len(ret) = 0 /\ Len(tag_requests) = 0
  OBVIOUS
<1>5. TypeOK
  BY <1>1, <1>4, MaxCallsAssumption DEF TypeOK
<1> QED BY <1>2, <1>3, <1>4, <1>5 DEF IInv, Types, Started, Buffer, Phase, Got

\* A new call: whatever is still on the way belongs to no request, and the buffer is as built.
LEMMA RequestStep ==
  ASSUME IInv, NEW reqs \in Calls, vcmailbox_request_tags(reqs)
  PROVE  IInv'
<1> USE DEF vcmailbox_request_tags, videocore
<1>1. /\ TypeOK /\ Types /\ Started /\ Phase /\ Got /\ seqnr \in Nat /\ seqnr < MAX_CALLS
      /\ mem \in [Words -> Nat]
  BY MaxCallsAssumption DEF IInv, Types, TypeOK
<1>2. mem' = build_property_buffer(reqs, Prop) /\ send_prop' = Prop
  BY DEF Prop
<1>3. /\ mem' \in [Words -> Nat] /\ mem'[Prop + 4] = 0
      /\ Kept(mem', reqs) /\ Fresh(mem', reqs, seqnr')
  BY <1>1, <1>2, Built
<1>4. vc # "tags" /\ mbox1 # <<Msg>>
  BY <1>1 DEF Started, Phase, Asking, Got, RESPONSE
<1>5. ret' \in Seq(Seq(Nat)) /\ Len(ret') = 0 /\ Len(tag_requests') \in Nat
  BY CallFacts
<1>6. TypeOK'
  BY <1>1, <1>3, <1>5, MaxCallsAssumption DEF TypeOK
<1>7. Types'
  BY <1>1, <1>5, <1>6 DEF Types
<1>8. Started'
  BY <1>1, <1>2 DEF Started
<1>9. Buffer'
  BY <1>3 DEF Buffer
<1>10. Phase'
  BY <1>3, <1>4 DEF Phase
<1>11. Got'
  BY DEF Got
<1> QED BY <1>7, <1>8, <1>9, <1>10, <1>11 DEF IInv

LEMMA WriteStep ==
  ASSUME IInv, vcmailbox_write_message
  PROVE  IInv'
<1> USE DEF vcmailbox_write_message, IInv, videocore
<1>1. mbox1' = <<Msg>> /\ mem[Prop + 4] = 0 /\ seqnr # 0 /\ mbox1 = <<>>
  BY DEF Started, Phase, Msg, mbox1_status_full_flag_set
<1>2. Types'
  BY <1>1 DEF Types, TypeOK
<1>3. Started' /\ Buffer'
  BY <1>1 DEF Started, Buffer
<1>4. Phase'
  BY <1>1 DEF Phase, Asking
<1>5. Got'
  BY DEF Got
<1> QED BY <1>2, <1>3, <1>4, <1>5

LEMMA ReadStep ==
  ASSUME IInv, vcmailbox_read_message
  PROVE  IInv'
<1> USE DEF vcmailbox_read_message, IInv, videocore
<1>1. Types'
  BY DEF Types, TypeOK
<1>2. Started' /\ Buffer'
  BY DEF Started, Buffer
<1>3. Phase' /\ Got'
  BY DEF Phase, Asking, Got
<1> QED BY <1>1, <1>2, <1>3

LEMMA TimeoutStep ==
  ASSUME IInv, Timeout
  PROVE  IInv'
<1> USE DEF Timeout, IInv, videocore
<1>1. Types'
  BY DEF Types, TypeOK
<1>2. Started' /\ Buffer'
  BY DEF Started, Buffer
<1>3. Phase' /\ Got'
  BY DEF Phase, Asking, Got
<1> QED BY <1>1, <1>2, <1>3

LEMMA CheckMessageStep ==
  ASSUME IInv, CheckMessage
  PROVE  IInv'
<1> USE DEF CheckMessage, IInv, Return, videocore
<1>1. pc' \in {"caller", "check_buffer"} /\ (pc' = "caller" => error' # "none")
  OBVIOUS
<1>2. Types'
  BY <1>1 DEF Types, TypeOK
<1>3. Started' /\ Buffer'
  BY <1>1 DEF Started, Buffer
<1>4. Phase' /\ Got'
  BY <1>1 DEF Phase, Asking, Got
<1> QED BY <1>2, <1>3, <1>4

\* The walk starts at the first tag.
LEMMA CheckBufferStep ==
  ASSUME IInv, CheckBuffer
  PROVE  IInv'
<1> USE DEF CheckBuffer, IInv, Return, videocore
<1>1. /\ tag_requests \in Calls /\ send_prop = Prop /\ seqnr # 0 /\ mem \in [Words -> Nat]
      /\ mem[Prop + 4] \in Nat /\ ret = <<>>
  <2>1. tag_requests \in Calls /\ send_prop = Prop /\ seqnr # 0 /\ mem \in [Words -> Nat]
    BY DEF Started, Types, TypeOK
  <2> QED BY <2>1, HeaderPlace DEF Got
<1>2. \/ pc' = "caller" /\ error' # "none" /\ UNCHANGED <<tag, i>>
      \/ pc' = "walk" /\ tag' = Prop + 8 /\ i' = 0 /\ mem[Prop + 4] >= RESPONSE
  BY <1>1
<1>3. At(tag_requests)[1] = Prop + 8 /\ Prop + 8 \in Words /\ Len(tag_requests) \in Nat
  <2>1. Len(tag_requests) \in Nat /\ 1 \in 1..Len(tag_requests) + 1
    BY <1>1, CallFacts
  <2> QED BY <2>1, <1>1, LayoutSteps, TagPlace
<1>4. Types'
  BY <1>2, <1>3 DEF Types, TypeOK
<1>5. Started' /\ Buffer' /\ Phase'
  BY <1>2 DEF Started, Buffer, Phase, Asking
<1>6. Copied(ret, tag_requests, seqnr, 0)
  BY <1>1 DEF Copied
<1>7. Got'
  <2>1. CASE pc' = "caller" /\ error' # "none"
    BY <2>1 DEF Got
  <2>2. CASE pc' = "walk" /\ tag' = Prop + 8 /\ i' = 0 /\ mem[Prop + 4] >= RESPONSE
    BY <2>2, <1>3, <1>6 DEF Got
  <2> QED BY <1>2, <2>1, <2>2
<1> QED BY <1>4, <1>5, <1>7

\* Where the end marker is not, there is a tag of the call, and the words it is made of.
LEMMA TagAt ==
  ASSUME NEW reqs \in Calls, NEW m \in [Words -> Nat], Kept(m, reqs),
         NEW k \in 1..Len(reqs) + 1, m[At(reqs)[k]] # 0
  PROVE  /\ k \in 1..Len(reqs) /\ k + 1 \in 1..Len(reqs) + 1
         /\ m[At(reqs)[k]] = reqs[k].id /\ m[At(reqs)[k] + 4] = reqs[k].ret_sz
         /\ At(reqs)[k + 1] = At(reqs)[k] + HEADER + reqs[k].ret_sz
         /\ align_address(At(reqs)[k] + HEADER + reqs[k].ret_sz, 4) = At(reqs)[k + 1]
         /\ At(reqs)[k + 1] \in Words
         /\ At(reqs)[k] + 8 \in Words /\ At(reqs)[k] + HEADER \in Words
<1>1. Len(reqs) \in Nat
  BY CallFacts
<1>2. k # Len(reqs) + 1
  BY DEF Kept
<1>3. k \in 1..Len(reqs) /\ k + 1 \in 1..Len(reqs) + 1
  BY <1>1, <1>2
<1>4. BufSz(reqs[k]) = reqs[k].ret_sz /\ reqs[k].ret_sz \in Nat /\ reqs[k].ret_sz >= 4
  BY <1>3, CallFacts
<1>5. /\ At(reqs)[k + 1] = At(reqs)[k] + HEADER + reqs[k].ret_sz
      /\ At(reqs)[k + 1] \in Nat /\ At(reqs)[k + 1] % 4 = 0
  BY <1>3, LayoutSteps
<1>6. At(reqs)[k + 1] \in Words
  BY <1>3, TagPlace
<1>7. align_address(At(reqs)[k + 1], 4) = At(reqs)[k + 1]
  BY <1>5, AlignedWord
<1>8. /\ 8 \in Nat /\ 8 % 4 = 0 /\ 8 < HEADER + reqs[k].ret_sz
      /\ 12 \in Nat /\ 12 % 4 = 0 /\ 12 < HEADER + reqs[k].ret_sz
  BY <1>4 DEF HEADER
<1>9. At(reqs)[k] + 8 \in Words /\ At(reqs)[k] + HEADER \in Words
  BY <1>3, <1>8, WordPlace DEF HEADER
<1> QED BY <1>3, <1>4, <1>5, <1>6, <1>7, <1>9 DEF Kept

\* One turn of the loop: the answer copied is fresh, and the next tag is where it was put.
LEMMA ReturnTagStep ==
  ASSUME IInv, ReturnTagResponse
  PROVE  IInv'
<1> USE DEF ReturnTagResponse, IInv, Return, videocore
<1> DEFINE k == i + 1
           req == tag_requests[k]
<1>1. /\ tag_requests \in Calls /\ seqnr # 0 /\ mem \in [Words -> Nat] /\ seqnr \in Nat
      /\ i \in Nat /\ i <= Len(tag_requests) /\ tag = At(tag_requests)[k]
      /\ Copied(ret, tag_requests, seqnr, i) /\ mem[Prop + 4] >= RESPONSE
      /\ Kept(mem, tag_requests) /\ Fresh(mem, tag_requests, seqnr) /\ ret \in Seq(Seq(Nat))
  BY MaxCallsAssumption DEF Started, Types, TypeOK, Got, Buffer
<1>2. Len(tag_requests) \in Nat /\ k \in 1..Len(tag_requests) + 1
  BY <1>1, CallFacts
<1>3. /\ k \in 1..Len(tag_requests)
      /\ mem[tag] = req.id /\ mem[tag + 4] = req.ret_sz
      /\ At(tag_requests)[k + 1] = tag + HEADER + req.ret_sz
      /\ At(tag_requests)[k + 1] \in Words /\ tag + 8 \in Words
  BY <1>1, <1>2, TagAt
<1>4. Started' /\ Buffer' /\ Phase'
  BY DEF Started, Buffer, Phase, Asking
<1>5. CASE TagError(req) # "none" /\ Return(TagError(req)) /\ UNCHANGED <<tag, i, ret>>
  <2>1. Types'
    BY <1>5 DEF Types, TypeOK
  <2>2. Got'
    BY <1>5 DEF Got
  <2> QED BY <1>4, <2>1, <2>2
<1>6. CASE /\ TagError(req) = "none"
           /\ ret' = Append(ret, [w \in 1..req.ret_sz \div 4 |-> mem[tag + HEADER + 4 * (w - 1)]])
           /\ tag' = NextTag /\ i' = i + 1 /\ UNCHANGED <<pc, error>>
  <2>1. mem[tag + 8] = RESPONSE + req.ret_sz
    <3>1. ~(mem[tag] # req.id) /\ ~(mem[tag + 8] < RESPONSE) /\ ~(mem[tag + 8] - RESPONSE # req.ret_sz)
      BY <1>6 DEF TagError
    <3>2. mem[tag + 8] \in Nat /\ req.ret_sz \in Nat
      BY <1>1, <1>3, CallFacts
    <3> HIDE DEF req
    <3> QED BY <3>1, <3>2 DEF RESPONSE
  <2>2. ret' \in Seq(Seq(Nat)) /\ Copied(ret', tag_requests, seqnr, i + 1)
    <3>1. Copies(ret', ret, mem, At(tag_requests)[i + 1], tag_requests[i + 1])
      BY <1>1, <1>6 DEF Copies
    <3>2. mem[At(tag_requests)[i + 1] + 8] = RESPONSE + tag_requests[i + 1].ret_sz
      BY <1>1, <2>1
    <3>3. i + 1 \in 1..Len(tag_requests)
      BY <1>3
    <3>4. OneMore(ret', ret, mem, tag_requests, seqnr, i)
      BY <1>1, <3>1, <3>2, <3>3, CopyTag
    <3> QED BY <3>4 DEF OneMore
  <2>3. tag' = At(tag_requests)[k + 1] /\ tag' \in Words /\ i' = k
    BY <1>3, <1>6 DEF NextTag
  <2>4. Types'
    <3>1. Len(ret') \in 0..Len(tag_requests)
      BY <2>2, <1>2, <1>3 DEF Copied
    <3> QED BY <2>2, <2>3, <3>1, <1>1, <1>6 DEF Types, TypeOK
  <2>5. Got'
    BY <2>2, <2>3, <1>1, <1>2, <1>3, <1>6 DEF Got
  <2> QED BY <1>4, <2>4, <2>5
<1> QED BY <1>5, <1>6

LEMMA EndTagStep ==
  ASSUME IInv, EndTagResponses
  PROVE  IInv'
<1> USE DEF EndTagResponses, IInv, Return, videocore
<1>1. pc' = "caller" /\ (error' = "none" => i = Len(tag_requests))
  OBVIOUS
<1>2. Types'
  BY <1>1 DEF Types, TypeOK
<1>3. Started' /\ Buffer' /\ Phase'
  BY <1>1 DEF Started, Buffer, Phase, Asking
<1>4. Got'
  BY <1>1 DEF Got
<1> QED BY <1>2, <1>3, <1>4

LEMMA TagReturnsStep ==
  ASSUME IInv, TagReturns
  PROVE  IInv'
<1> USE DEF TagReturns, IInv, videocore
<1>1. EchoIsRight' = EchoIsRight
  BY DEF EchoIsRight
<1>2. \/ pc = "caller" /\ error = "none" /\ EchoIsRight /\ pc' = "idle"
      \/ pc' = "halt"
  OBVIOUS
<1>3. Types'
  BY <1>2 DEF Types, TypeOK
<1>4. Started' /\ Buffer' /\ Phase'
  BY <1>2 DEF Started, Buffer, Phase, Asking
<1>5. Got'
  BY <1>1, <1>2 DEF Got
<1> QED BY <1>3, <1>4, <1>5

LEMMA VcTakeStep ==
  ASSUME IInv, VcTake
  PROVE  IInv'
<1> USE DEF VcTake, IInv, videocore, core
<1>1. mbox1 \in {<<0>>, <<Msg>>} /\ vc = "idle" /\ mbox1' = <<>>
  BY DEF Types
<1>2. CASE mbox1 = <<0>>
  <2>1. Channel(Head(mbox1)) # CHANNEL_PROPERTY
    BY <1>2 DEF Channel, CHANNEL_PROPERTY
  <2>2. UNCHANGED videocore
    BY <2>1
  <2>3. Types'
    BY <2>2, <1>1 DEF Types, TypeOK
  <2>4. mbox1' # <<Msg>>
    BY <1>1
  <2>5. Started' /\ Buffer' /\ Phase'
    BY <2>2, <2>4, <1>1 DEF Started, Buffer, Phase, Asking
  <2>6. Got'
    BY <2>2 DEF Got, EchoIsRight
  <2> QED BY <2>3, <2>5, <2>6
<1>3. CASE mbox1 = <<Msg>>
  <2>1. Channel(Head(mbox1)) = CHANNEL_PROPERTY /\ Data(Head(mbox1)) = Prop
    BY <1>3, PropFacts
  <2>2. vc' = "tags" /\ vnr' = seqnr /\ vtag' = Prop + 8 /\ vi' = 1
    BY <2>1
  <2>3. Asking /\ seqnr # 0 /\ tag_requests \in Calls
    BY <1>3 DEF Phase, Started
  <2>4. 1 \in 1..Len(tag_requests) + 1 /\ At(tag_requests)[1] = Prop + 8 /\ Prop + 8 \in Words
    <3>1. 1 \in 1..Len(tag_requests) + 1
      BY <2>3, CallFacts
    <3> QED BY <3>1, <2>3, LayoutSteps, TagPlace
  <2>5. Types'
    BY <2>2, <2>4, <1>1 DEF Types, TypeOK
  <2>6. mbox1' # <<Msg>>
    BY <1>1
  <2>7. Started' /\ Buffer'
    BY <2>3 DEF Started, Buffer
  <2>8. Phase'
    BY <2>2, <2>3, <2>4, <2>6, <1>1 DEF Phase, Asking
  <2>9. Got'
    BY DEF Got, EchoIsRight
  <2> QED BY <2>5, <2>7, <2>8, <2>9
<1> QED BY <1>1, <1>2, <1>3

\* What VcAnswer and VcIgnore find: a tag of this call, and the one after it.
LEMMA AtTag ==
  ASSUME IInv, vc = "tags", mem[vtag] # 0
  PROVE  /\ tag_requests \in Calls /\ seqnr \in Nat /\ seqnr # 0 /\ mem \in [Words -> Nat]
         /\ Kept(mem, tag_requests) /\ Fresh(mem, tag_requests, seqnr)
         /\ vi \in 1..Len(tag_requests) /\ vi + 1 \in 1..Len(tag_requests) + 1
         /\ vtag = At(tag_requests)[vi] /\ mem[vtag] = tag_requests[vi].id
         /\ mem[vtag + 4] = tag_requests[vi].ret_sz
         /\ align_address(vtag + HEADER + mem[vtag + 4], 4) = At(tag_requests)[vi + 1]
         /\ At(tag_requests)[vi + 1] \in Words /\ vtag + HEADER \in Words
         /\ mem[Prop + 4] = 0 /\ pc # "write" /\ vnr = seqnr /\ mbox1 = <<>>
<1>1. /\ tag_requests \in Calls /\ seqnr \in Nat /\ seqnr # 0 /\ mem \in [Words -> Nat]
      /\ Kept(mem, tag_requests) /\ Fresh(mem, tag_requests, seqnr)
      /\ vi \in 1..Len(tag_requests) + 1 /\ vtag = At(tag_requests)[vi]
      /\ mem[Prop + 4] = 0 /\ pc # "write" /\ vnr = seqnr /\ mbox1 = <<>>
  BY MaxCallsAssumption DEF IInv, Types, TypeOK, Started, Buffer, Phase, Asking
<1> QED BY <1>1, TagAt

LEMMA VcAnswerStep ==
  ASSUME IInv, VcAnswer
  PROVE  IInv'
<1> USE DEF VcAnswer, IInv, core
<1> DEFINE req == tag_requests[vi]
<1>1. /\ tag_requests \in Calls /\ seqnr \in Nat /\ seqnr # 0 /\ mem \in [Words -> Nat]
      /\ Kept(mem, tag_requests) /\ Fresh(mem, tag_requests, seqnr)
      /\ vi \in 1..Len(tag_requests) /\ vi + 1 \in 1..Len(tag_requests) + 1
      /\ vtag = At(tag_requests)[vi] /\ mem[vtag + 4] = req.ret_sz
      /\ vtag' = At(tag_requests)[vi + 1] /\ vtag' \in Words /\ vtag + HEADER \in Words
      /\ mem[Prop + 4] = 0 /\ pc # "write" /\ vnr = seqnr /\ mbox1 = <<>>
  BY AtTag
<1>2. PICK sz \in AnswerSizes, first \in AnswerEchoes :
        mem' = Wrote(mem, vtag, vnr, vi, sz, first)
  BY Zenon DEF Wrote
<1>3. sz \in {req.ret_sz, 4}
  BY <1>1 DEF AnswerSizes
<1>4. first \in Nat
  BY <1>1 DEF AnswerEchoes
<1>5. /\ mem' \in [Words -> Nat] /\ mem'[Prop + 4] = 0
      /\ Kept(mem', tag_requests) /\ Fresh(mem', tag_requests, seqnr)
  <2>1. Written(mem', mem, tag_requests, seqnr, vi, sz, first)
    <3>1. Written(Wrote(mem, At(tag_requests)[vi], seqnr, vi, sz, first), mem, tag_requests,
                  seqnr, vi, sz, first)
      BY <1>1, <1>3, <1>4, WroteWords
    <3> QED BY <3>1, <1>1, <1>2
  <2>2. /\ mem' \in [Words -> Nat] /\ mem'[Prop + 4] = mem[Prop + 4]
        /\ Kept(mem, tag_requests) => Kept(mem', tag_requests)
        /\ Fresh(mem, tag_requests, seqnr) => Fresh(mem', tag_requests, seqnr)
    <3>1. /\ tag_requests \in Calls /\ vi \in 1..Len(tag_requests) /\ mem \in [Words -> Nat]
          /\ seqnr \in Nat /\ sz \in {tag_requests[vi].ret_sz, 4} /\ first \in Nat
      BY <1>1, <1>3, <1>4
    <3> QED BY <2>1, <3>1, AnswerKeeps, SMTT(30)
  <2> QED BY <2>2, <1>1
<1>6. Types'
  BY <1>1, <1>5 DEF Types, TypeOK
<1>7. Started' /\ Buffer'
  BY <1>1, <1>5 DEF Started, Buffer
<1>8. Phase'
  BY <1>1, <1>5 DEF Phase, Asking
<1>9. Got'
  BY <1>1 DEF Got, EchoIsRight, RESPONSE
<1> QED BY <1>6, <1>7, <1>8, <1>9

LEMMA VcIgnoreStep ==
  ASSUME IInv, VcIgnore
  PROVE  IInv'
<1> USE DEF VcIgnore, IInv, core
<1>1. /\ vi + 1 \in 1..Len(tag_requests) + 1
      /\ vtag' = At(tag_requests)[vi + 1] /\ vtag' \in Words
  BY AtTag
<1>2. Types'
  BY <1>1 DEF Types, TypeOK
<1>3. Started' /\ Buffer'
  BY DEF Started, Buffer
<1>4. Phase'
  BY <1>1 DEF Phase, Asking
<1>5. Got'
  BY DEF Got, EchoIsRight
<1> QED BY <1>2, <1>3, <1>4, <1>5

LEMMA VcFinishStep ==
  ASSUME IInv, VcFinish
  PROVE  IInv'
<1> USE DEF VcFinish, IInv, core
<1>1. /\ tag_requests \in Calls /\ send_prop = Prop /\ seqnr # 0 /\ mem \in [Words -> Nat]
      /\ Kept(mem, tag_requests) /\ Fresh(mem, tag_requests, seqnr)
      /\ mem[Prop + 4] = 0 /\ pc # "write" /\ mbox1 = <<>>
  BY MaxCallsAssumption DEF Types, TypeOK, Started, Buffer, Phase, Asking
<1>2. PICK c \in {RESPONSE, RESPONSE + PROP_RESPONSE_CODE_ERROR} :
        mem' = [mem EXCEPT ![Prop + 4] = c]
  BY <1>1
<1>3. c \in Nat /\ c >= RESPONSE
  BY DEF RESPONSE, PROP_RESPONSE_CODE_ERROR
<1>4. /\ mem' \in [Words -> Nat] /\ mem'[Prop + 4] = c
      /\ Kept(mem', tag_requests) /\ Fresh(mem', tag_requests, seqnr)
  <2>1. /\ mem' \in [Words -> Nat] /\ mem'[Prop + 4] = c
        /\ Kept(mem, tag_requests) => Kept(mem', tag_requests)
        /\ Fresh(mem, tag_requests, seqnr) => Fresh(mem', tag_requests, seqnr)
    <3>1. CodeSet(mem', mem, c)
      BY <1>2 DEF CodeSet
    <3> QED BY <1>1, <1>3, <3>1, CodeApart
  <2> QED BY <2>1, <1>1
<1>5. Types'
  BY <1>4 DEF Types, TypeOK
<1>6. Started' /\ Buffer'
  BY <1>1, <1>4 DEF Started, Buffer
<1>7. Phase'
  BY <1>1 DEF Phase
<1>8. Got'
  BY <1>3, <1>4 DEF Got, EchoIsRight
<1> QED BY <1>5, <1>6, <1>7, <1>8

LEMMA VcReplyStep ==
  ASSUME IInv, VcReply
  PROVE  IInv'
<1> USE DEF VcReply, IInv, core
<1>1. Types'
  BY DEF Types, TypeOK
<1>2. Started' /\ Buffer'
  BY DEF Started, Buffer
<1>3. Phase'
  BY DEF Phase, Asking
<1>4. Got'
  BY DEF Got, EchoIsRight
<1> QED BY <1>1, <1>2, <1>3, <1>4

LEMMA StrayStep ==
  ASSUME IInv, Stray
  PROVE  IInv'
<1> USE DEF Stray, IInv, core, videocore
<1>1. Types'
  BY DEF Types, TypeOK
<1>2. Started' /\ Buffer'
  BY DEF Started, Buffer
<1>3. Phase'
  BY DEF Phase, Asking
<1>4. Got'
  BY DEF Got, EchoIsRight
<1> QED BY <1>1, <1>2, <1>3, <1>4

LEMMA StutterStep ==
  ASSUME IInv, UNCHANGED vars
  PROVE  IInv'
<1> USE DEF vars, IInv, core, videocore
<1>1. Types'
  BY DEF Types, TypeOK
<1>2. Started' /\ Buffer'
  BY DEF Started, Buffer
<1>3. Phase'
  BY DEF Phase, Asking
<1>4. Got'
  BY DEF Got, EchoIsRight
<1> QED BY <1>1, <1>2, <1>3, <1>4

LEMMA IInvNext == IInv /\ [Next]_vars => IInv'
<1> SUFFICES ASSUME IInv, [Next]_vars
             PROVE  IInv'
  OBVIOUS
<1>1. CASE \E reqs \in Calls : vcmailbox_request_tags(reqs)
  BY <1>1, RequestStep
<1>2. CASE Core
  BY <1>2, WriteStep, ReadStep, TimeoutStep, CheckMessageStep, CheckBufferStep, ReturnTagStep,
     EndTagStep, TagReturnsStep DEF Core
<1>3. CASE VideoCore
  BY <1>3, VcTakeStep, VcAnswerStep, VcFinishStep, VcReplyStep DEF VideoCore
<1>4. CASE VcIgnore
  BY <1>4, VcIgnoreStep
<1>5. CASE Stray
  BY <1>5, StrayStep
<1>6. CASE Finished \/ UNCHANGED vars
  BY <1>6, StutterStep DEF Finished
<1> QED BY <1>1, <1>2, <1>3, <1>4, <1>5, <1>6 DEF Next

LEMMA IInvHolds == Spec => []IInv
BY IInvInit, IInvNext, PTL DEF Spec

-----------------------------------------------------------------------------
\* Every address that vcmailbox_request_tags() or the VideoCore uses is one of a word of the
\* heap, and the core never fills more output buffers than there are requests.
THEOREM TypeCorrect == Spec => []TypeOK
<1>1. IInv => TypeOK
  BY DEF IInv, Types
<1> QED BY <1>1, IInvHolds, PTL

\* The functions of bld/tag.c only get the answer to the request they have just made: whatever
\* the heap held, whatever messages arrive, and however late the VideoCore is.
THEOREM OnlyFreshAnswers == Spec => []AnswerIsFresh
<1>1. IInv => AnswerIsFresh
  <2> SUFFICES ASSUME IInv, pc = "idle", seqnr > 0
               PROVE  /\ Copied(ret, tag_requests, seqnr, Len(tag_requests)) /\ EchoIsRight
    BY DEF AnswerIsFresh, Copied, EchoIsRight
  <2> QED BY DEF IInv, Got
<1> QED BY <1>1, IInvHolds, PTL

\* return_tag_responses() visits the tags where build_property_buffer() put them and stops at the
\* end marker, for every layout of tags whose sizes are those of words.
THEOREM WalkIsInStep == Spec => []WalkFollowsLayout
<1>1. IInv => WalkFollowsLayout
  <2> SUFFICES ASSUME IInv, pc = "walk"
               PROVE  /\ i <= Len(tag_requests)
                      /\ tag = TagAddrs(tag_requests, send_prop)[i + 1]
                      /\ i = Len(tag_requests) => mem[tag] = 0
    BY DEF WalkFollowsLayout
  <2>1. seqnr # 0 /\ seqnr \in Nat /\ send_prop = Prop
    BY MaxCallsAssumption DEF IInv, Started, Types, TypeOK
  <2>2. i <= Len(tag_requests) /\ tag = At(tag_requests)[i + 1]
    BY DEF IInv, Got
  <2>3. mem[At(tag_requests)[Len(tag_requests) + 1]] = 0
    BY <2>1 DEF IInv, Buffer, Kept
  <2> QED BY <2>1, <2>2, <2>3 DEF At
<1> QED BY <1>1, IInvHolds, PTL

-----------------------------------------------------------------------------
(* A VideoCore that does what it is asked to makes no request fail.        *)

LEMMA ObeyInit == Init => ObeyInv
BY DEF Init, ObeyInv, Obeyed, Nowhere

LEMMA ObeyRequest ==
  ASSUME IInv, Obeyed, NEW reqs \in Calls, vcmailbox_request_tags(reqs)
  PROVE  Obeyed'
<1> USE DEF vcmailbox_request_tags, videocore
<1>1. mem \in [Words -> Nat]
  BY DEF IInv, Types, TypeOK
<1>2. mem' = build_property_buffer(reqs, Prop)
  BY DEF Prop
<1>3. Answered(mem', tag_requests', 0)
  BY <1>1, <1>2, Built
<1> QED BY <1>3 DEF Obeyed, Nowhere

LEMMA ObeyWrite ==
  ASSUME IInv, Obeyed, vcmailbox_write_message
  PROVE  Obeyed'
<1> USE DEF vcmailbox_write_message, videocore
<1>1. mbox1' = <<Msg>>
  BY DEF IInv, Started, Msg
<1> QED BY <1>1 DEF Obeyed, Nowhere, OnTheWay

LEMMA ObeyRead ==
  ASSUME IInv, Obeyed, vcmailbox_read_message
  PROVE  Obeyed'
<1> USE DEF vcmailbox_read_message, videocore
<1>1. mbox0 = <<Msg>> /\ mbox1 = <<>> /\ vc = "idle" /\ Complete
  BY DEF Obeyed, OnTheWay, AtWork, ToReply, OnTheWayBack, mbox0_status_empty_flag_set
<1>2. mbox0' = <<>> /\ recv_msg' = Msg
  BY <1>1
<1> QED BY <1>1, <1>2 DEF Obeyed, Nowhere, Complete

LEMMA ObeyCheckMessage ==
  ASSUME IInv, Obeyed, CheckMessage
  PROVE  Obeyed'
<1> USE DEF CheckMessage, videocore
<1>1. recv_msg = Msg /\ send_prop = Prop
  BY DEF IInv, Started, Obeyed
<1>2. ~WrongChannel(recv_msg) /\ Data(recv_msg) = send_prop
  BY <1>1, PropFacts
<1>3. pc' = "check_buffer" /\ error' = error
  BY <1>2
<1> QED BY <1>3 DEF Obeyed, Nowhere, Complete

LEMMA ObeyCheckBuffer ==
  ASSUME IInv, Obeyed, CheckBuffer
  PROVE  Obeyed'
<1> USE DEF CheckBuffer, videocore
<1>1. mem[send_prop + 4] = RESPONSE /\ ret = <<>>
  BY DEF IInv, Started, Obeyed, Complete, Got
<1>2. pc' = "walk" /\ error' = error
  BY <1>1 DEF RESPONSE, PROP_RESPONSE_CODE_ERROR
<1>3. \A k \in 1..Len(ret') : ret'[k][1] = Echo(tag_requests'[k])
  BY <1>1
<1> QED BY <1>2, <1>3 DEF Obeyed, Nowhere, Complete

LEMMA ObeyReturnTag ==
  ASSUME IInv, Obeyed, ReturnTagResponse
  PROVE  Obeyed'
<1> USE DEF ReturnTagResponse, videocore
<1> DEFINE k == i + 1
           req == tag_requests[k]
<1>1. /\ tag_requests \in Calls /\ seqnr # 0 /\ mem \in [Words -> Nat] /\ seqnr \in Nat
      /\ i \in Nat /\ i <= Len(tag_requests) /\ tag = At(tag_requests)[k]
      /\ Copied(ret, tag_requests, seqnr, i)
      /\ Kept(mem, tag_requests) /\ Fresh(mem, tag_requests, seqnr) /\ ret \in Seq(Seq(Nat))
  BY MaxCallsAssumption DEF IInv, Started, Types, TypeOK, Got, Buffer
<1>2. Len(tag_requests) \in Nat /\ k \in 1..Len(tag_requests) + 1
  BY <1>1, CallFacts
<1>3. k \in 1..Len(tag_requests) /\ mem[tag] = req.id
  BY <1>1, <1>2, TagAt
<1>4. mem[tag + 8] = RESPONSE + req.ret_sz /\ mem[tag + HEADER] = Echo(req)
  BY <1>1, <1>2, <1>3 DEF Obeyed, Complete, Answered
<1>5. TagError(req) = "none"
  <2>1. req.ret_sz \in Nat
    BY <1>1, <1>3, CallFacts
  <2>2. ~(mem[tag + 8] < RESPONSE) /\ mem[tag + 8] - RESPONSE = req.ret_sz
    <3> HIDE DEF req
    <3> QED BY <2>1, <1>4 DEF RESPONSE
  <2> HIDE DEF req
  <2> QED BY <2>2, <1>3 DEF TagError
<1>6. /\ pc' = pc /\ error' = error
      /\ ret' = Append(ret, [w \in 1..req.ret_sz \div 4 |-> mem[tag + HEADER + 4 * (w - 1)]])
  BY <1>5
<1>7. /\ Copied(ret', tag_requests, seqnr, i + 1)
      /\ \A j \in 1..i : ret'[j] = ret[j]
      /\ ret'[i + 1][1] = mem[At(tag_requests)[i + 1] + HEADER]
  <2>1. Copies(ret', ret, mem, At(tag_requests)[i + 1], tag_requests[i + 1])
    BY <1>1, <1>6 DEF Copies
  <2>2. mem[At(tag_requests)[i + 1] + 8] = RESPONSE + tag_requests[i + 1].ret_sz
    BY <1>1, <1>4
  <2>3. i + 1 \in 1..Len(tag_requests)
    BY <1>3
  <2>4. OneMore(ret', ret, mem, tag_requests, seqnr, i)
    BY <1>1, <2>1, <2>2, <2>3, CopyTag
  <2> QED BY <2>4 DEF OneMore
<1>8. ASSUME NEW j \in 1..Len(ret')
      PROVE  ret'[j][1] = Echo(tag_requests[j])
  <2>1. Len(ret) = i /\ Len(ret') = i + 1 /\ j \in 1..i + 1
    BY <1>1, <1>7 DEF Copied
  <2>2. CASE j = i + 1
    BY <2>2, <1>1, <1>4, <1>7
  <2>3. CASE j # i + 1
    <3>1. j \in 1..i
      BY <2>1, <2>3, <1>1
    <3> QED BY <3>1, <2>1, <1>7 DEF Obeyed
  <2> QED BY <2>2, <2>3
<1>9. Nowhere' /\ Complete'
  BY DEF Obeyed, Nowhere, Complete
<1> QED BY <1>6, <1>8, <1>9 DEF Obeyed

LEMMA ObeyEndTag ==
  ASSUME IInv, Obeyed, EndTagResponses
  PROVE  Obeyed'
<1> USE DEF EndTagResponses, Return, videocore
<1>1. /\ tag_requests \in Calls /\ seqnr # 0 /\ seqnr \in Nat
      /\ i \in Nat /\ i <= Len(tag_requests) /\ tag = At(tag_requests)[i + 1]
      /\ Kept(mem, tag_requests)
  BY MaxCallsAssumption DEF IInv, Started, Types, TypeOK, Got, Buffer
<1>2. i = Len(tag_requests)
  <2> SUFFICES ASSUME i # Len(tag_requests)
               PROVE  FALSE
    OBVIOUS
  <2>1. i + 1 \in 1..Len(tag_requests)
    BY <1>1, CallFacts
  <2>2. mem[tag] = tag_requests[i + 1].id
    BY <2>1, <1>1 DEF Kept
  <2> QED BY <2>1, <2>2, <1>1, CallFacts
<1>3. pc' = "caller" /\ error' = "none"
  BY <1>2
<1> QED BY <1>3 DEF Obeyed, Nowhere, Complete

LEMMA ObeyTagReturns ==
  ASSUME IInv, Obeyed, TagReturns
  PROVE  Obeyed'
<1> USE DEF TagReturns, videocore
<1>1. error = "none" /\ Nowhere
  BY DEF Obeyed
<1>2. Copied(ret, tag_requests, seqnr, Len(tag_requests))
  BY <1>1 DEF IInv, Got
<1>3. EchoIsRight
  <2> SUFFICES ASSUME Len(tag_requests) = 1
               PROVE  ret[1][1] = Echo(tag_requests[1])
    BY DEF EchoIsRight
  <2>1. 1 \in 1..Len(ret)
    BY <1>2 DEF Copied
  <2> QED BY <2>1 DEF Obeyed
<1>4. pc' = "idle" /\ error' = "none"
  BY <1>1, <1>3
<1> QED BY <1>1, <1>4 DEF Obeyed, Nowhere

LEMMA ObeyTake ==
  ASSUME IInv, Obeyed, VcTake
  PROVE  Obeyed'
<1> USE DEF VcTake, videocore, core
<1>1. pc = "read" /\ mbox1 = <<Msg>> /\ mbox0 = <<>> /\ Answered(mem, tag_requests, 0)
  BY DEF IInv, Types, TypeOK, Obeyed, Nowhere, OnTheWay, AtWork, ToReply, OnTheWayBack
<1>2. Channel(Head(mbox1)) = CHANNEL_PROPERTY
  BY <1>1, PropFacts
<1>3. vc' = "tags" /\ vi' = 1 /\ vi' - 1 = 0
  BY <1>2
<1>4. AtWork'
  BY <1>1, <1>3 DEF AtWork
<1> QED BY <1>1, <1>4 DEF Obeyed

LEMMA ObeyAnswer ==
  ASSUME IInv, Obeyed, Quirks = {}, VcAnswer
  PROVE  Obeyed'
<1> USE DEF VcAnswer, core
<1> DEFINE req == tag_requests[vi]
<1>1. /\ tag_requests \in Calls /\ seqnr \in Nat /\ mem \in [Words -> Nat]
      /\ vi \in 1..Len(tag_requests) /\ vtag = At(tag_requests)[vi]
      /\ mem[vtag] = req.id /\ mem[vtag + 4] = req.ret_sz /\ vnr = seqnr
      /\ vtag + HEADER \in Words
  BY AtTag
<1>2. pc = "read" /\ AtWork
  BY DEF IInv, Types, TypeOK, Obeyed, Nowhere, OnTheWay, ToReply, OnTheWayBack
<1>3. vi \in Nat /\ ~(vi <= vi - 1) /\ vi' - 1 = vi
  BY <1>1, CallFacts
<1>4. mem[vtag + HEADER] = req.args[1]
  BY <1>1, <1>2, <1>3 DEF AtWork, Answered
<1>5. PICK sz \in AnswerSizes, first \in AnswerEchoes :
        mem' = Wrote(mem, vtag, vnr, vi, sz, first)
  BY Zenon DEF Wrote
<1>6. sz = req.ret_sz
  BY <1>1 DEF AnswerSizes
<1>7. first = Echo(req)
  BY <1>1, <1>4 DEF AnswerEchoes, Echo
<1>8. first \in Nat
  BY <1>1 DEF AnswerEchoes
<1>9. Written(mem', mem, tag_requests, seqnr, vi, sz, first)
  <2>1. Written(Wrote(mem, At(tag_requests)[vi], seqnr, vi, sz, first), mem, tag_requests,
                seqnr, vi, sz, first)
    BY <1>1, <1>6, <1>8, WroteWords
  <2> QED BY <2>1, <1>1, <1>5
<1>10. Answered(mem', tag_requests, vi)
  <2>1. Answered(mem, tag_requests, vi - 1)
    BY <1>2 DEF AtWork
  <2>2. sz \in {tag_requests[vi].ret_sz, 4}
    BY <1>6
  <2> QED BY <2>1, <2>2, <1>1, <1>6, <1>7, <1>8, <1>9, AnswerKeeps, SMTT(30)
<1>11. AtWork'
  BY <1>2, <1>3, <1>10 DEF AtWork
<1> QED BY <1>2, <1>11 DEF Obeyed

LEMMA ObeyFinish ==
  ASSUME IInv, Obeyed, Quirks = {}, VcFinish
  PROVE  Obeyed'
<1> USE DEF VcFinish, core
<1>1. /\ tag_requests \in Calls /\ seqnr # 0 /\ seqnr \in Nat /\ mem \in [Words -> Nat]
      /\ vi \in 1..Len(tag_requests) + 1 /\ vtag = At(tag_requests)[vi] /\ mbox1 = <<>>
      /\ Kept(mem, tag_requests) /\ send_prop = Prop
  BY MaxCallsAssumption DEF IInv, Started, Types, TypeOK, Buffer, Phase
<1>2. pc = "read" /\ AtWork
  BY DEF IInv, Types, TypeOK, Obeyed, Nowhere, OnTheWay, ToReply, OnTheWayBack
<1>3. vi = Len(tag_requests) + 1 /\ vi - 1 = Len(tag_requests) /\ Len(tag_requests) \in Nat
  <2>1. Len(tag_requests) \in Nat
    BY <1>1, CallFacts
  <2>2. ~(vi \in 1..Len(tag_requests))
    <3> SUFFICES ASSUME vi \in 1..Len(tag_requests)
                 PROVE  FALSE
      OBVIOUS
    <3>1. mem[vtag] = tag_requests[vi].id
      BY <1>1 DEF Kept
    <3> QED BY <3>1, <1>1, CallFacts
  <2> QED BY <2>1, <2>2, <1>1
<1>4. Answered(mem, tag_requests, Len(tag_requests))
  BY <1>2, <1>3 DEF AtWork
<1>5. CodeSet(mem', mem, RESPONSE)
  BY <1>1 DEF CodeSet
<1>6. Answered(mem', tag_requests, Len(tag_requests)) /\ mem'[Prop + 4] = RESPONSE
  <2>1. RESPONSE \in Nat
    BY DEF RESPONSE
  <2> QED BY <2>1, <1>1, <1>3, <1>4, <1>5, CodeApart
<1>7. ToReply'
  BY <1>1, <1>2, <1>6 DEF ToReply, Complete, AtWork
<1> QED BY <1>2, <1>7 DEF Obeyed

LEMMA ObeyReply ==
  ASSUME IInv, Obeyed, VcReply
  PROVE  Obeyed'
<1> USE DEF VcReply, core
<1>1. pc = "read" /\ ToReply /\ send_prop = Prop
  BY DEF IInv, Types, TypeOK, Started, Obeyed, Nowhere, OnTheWay, AtWork, OnTheWayBack
<1>2. mbox0' = <<Msg>>
  BY <1>1 DEF ToReply, Msg
<1>3. OnTheWayBack'
  BY <1>1, <1>2 DEF ToReply, OnTheWayBack, Complete
<1> QED BY <1>1, <1>3 DEF Obeyed

LEMMA ObeyStutter ==
  ASSUME Obeyed, UNCHANGED vars
  PROVE  Obeyed'
BY DEF Obeyed, Nowhere, OnTheWay, AtWork, ToReply, OnTheWayBack, Complete, vars, core, videocore

LEMMA ObeyNext == IInv /\ ObeyInv /\ [Next]_vars => ObeyInv'
<1> SUFFICES ASSUME IInv, ObeyInv, [Next]_vars, Quirks' = {}
             PROVE  Obeyed'
  BY DEF ObeyInv
<1>1. Quirks = {}
  BY DEF Next, Core, VideoCore, vcmailbox_request_tags, vcmailbox_write_message,
     vcmailbox_read_message, Timeout, CheckMessage, CheckBuffer, ReturnTagResponse,
     EndTagResponses, TagReturns, VcTake, VcAnswer, VcIgnore, VcFinish, VcReply, Stray,
     Finished, vars
<1>2. Obeyed
  BY <1>1 DEF ObeyInv
<1>3. ~Timeout /\ ~VcIgnore /\ ~Stray
  BY <1>1 DEF Timeout, TimesOut, VcIgnore, Stray
<1>4. CASE \E reqs \in Calls : vcmailbox_request_tags(reqs)
  BY <1>2, <1>4, ObeyRequest
<1>5. CASE Core
  BY <1>2, <1>3, <1>5, ObeyWrite, ObeyRead, ObeyCheckMessage, ObeyCheckBuffer, ObeyReturnTag,
     ObeyEndTag, ObeyTagReturns DEF Core
<1>6. CASE VideoCore
  BY <1>1, <1>2, <1>6, ObeyTake, ObeyAnswer, ObeyFinish, ObeyReply DEF VideoCore
<1>7. CASE Finished \/ UNCHANGED vars
  BY <1>2, <1>7, ObeyStutter DEF Finished
<1> QED BY <1>3, <1>4, <1>5, <1>6, <1>7 DEF Next

\* While the VideoCore answers what it is asked, none of the checks of vcmailbox_request_tags()
\* or of the functions of bld/tag.c fails: no error is signalled.
THEOREM ObeyedRequestsSucceed == Spec => []NoFalseAlarm
<1>1. ObeyInv => NoFalseAlarm
  BY DEF ObeyInv, Obeyed, NoFalseAlarm
<1> QED BY <1>1, IInvHolds, ObeyInit, ObeyNext, PTL DEF Spec
=============================================================================
