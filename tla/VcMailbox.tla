----------------------------- MODULE VcMailbox -----------------------------
(***************************************************************************)
(* The VideoCore mailbox: vcmailbox_request_tags() of bld/vcmailbox.c and  *)
(* the functions of bld/tag.c that call it.                                *)
(*                                                                         *)
(* The property buffer is memory that the core and the VideoCore share, by *)
(* addresses of 32 bit words; both of them work on it in place.  What the  *)
(* VideoCore answers carries the number of the request, so that an answer  *)
(* to an earlier one can be told apart.  The VideoCore may fail in the     *)
(* ways that Quirks names.                                                 *)
(***************************************************************************)
EXTENDS Integers, Sequences

CONSTANTS
  HEAP,         \* heap_get_base_address()
  HEAP_SZ,      \* bound: bytes of it
  Calls,        \* arrays of tag requests that callers pass
  MAX_CALLS,    \* bound: number of calls
  Boards        \* sets of quirks: what may go wrong on a board

ASSUME HeapAssumption == HEAP \in Nat /\ HEAP % 4 = 0 /\ HEAP_SZ \in Nat
ASSUME BoardsAssumption ==
  Boards \subseteq SUBSET {"late", "full", "stray", "error", "silent", "size", "echo"}
ASSUME MaxCallsAssumption == MAX_CALLS \in Nat

VARIABLES
  pc,
  tag_requests, \* the array of the call under way
  seqnr,        \* number of the call
  send_prop, recv_msg,
  tag, i,       \* return_tag_responses(): the tag looked at, and its number
  ret,          \* the output buffers of the requests
  error,
  mem,          \* the heap: word at every address
  mbox1, mbox0, \* messages on the way to the VideoCore and back
  \* The VideoCore (external).
  Quirks,       \* what may go wrong, which stays
  vc, vnr,      \* what it is doing, and for which call
  vtag, vi      \* the tag it answers, and its number

core == <<pc, tag_requests, seqnr, send_prop, recv_msg, tag, i, ret, error>>
videocore == <<vc, vnr, vtag, vi>>
vars == <<Quirks, core, mem, mbox1, mbox0, videocore>>

-----------------------------------------------------------------------------
(* Requests.                                                               *)

CHANNEL_PROPERTY == 8
RESPONSE == 4096             \* bit 31 of a response code, above any length
PROP_RESPONSE_CODE_ERROR == 1
HEADER == 12                 \* bytes of struct tag before value_buf

\* enum tag_id, in the order of the header.
TAG_POWER_GET_STATE == 3
TAG_CLOCK_GET_STATE == 4
TAG_CLOCK_GET_RATE == 5
TAG_GPIO_GET_STATE == 6
TAG_GPIO_GET_CONFIG == 7

Request(id, arg, sz) == [id |-> id, args |-> <<arg>>, args_sz |-> 4, ret_sz |-> sz]

GPIO_EXPANDER_VC_PIN_BASE == 128
convert_pin_to_vc(pin) == GPIO_EXPANDER_VC_PIN_BASE + pin

tag_power_get_state(dev) == <<Request(TAG_POWER_GET_STATE, dev, 8)>>
tag_clock_get_state(clk) == <<Request(TAG_CLOCK_GET_STATE, clk, 8)>>
tag_clock_get_rate(clk)  == <<Request(TAG_CLOCK_GET_RATE, clk, 8)>>
tag_gpio_get_state(pin)  == <<Request(TAG_GPIO_GET_STATE, convert_pin_to_vc(pin), 8)>>
tag_gpio_get_config(pin) == <<Request(TAG_GPIO_GET_CONFIG, convert_pin_to_vc(pin), 20)>>

\* The first word of the answer that the caller expects: the identifier it asked for, or 0 in
\* the field that is unused.
Echo(req) == IF req.id \in {TAG_GPIO_GET_STATE, TAG_GPIO_GET_CONFIG} THEN 0 ELSE req.args[1]

-----------------------------------------------------------------------------
(* The property buffer.                                                    *)

align_address(addr, n) == ((addr + n - 1) \div n) * n

BufSz(req) == IF req.args_sz > req.ret_sz THEN req.args_sz ELSE req.ret_sz

\* Addresses of the tags, and of the word that ends them.
TagAddrs(reqs, prop) ==
  LET at[k \in 1..Len(reqs) + 1] ==
        IF k = 1 THEN prop + 8 ELSE align_address(at[k - 1] + HEADER + BufSz(reqs[k - 1]), 4)
  IN  at

\* What the functions of bld/tag.c pass: arguments and answers are structs of 32 bit words, the
\* answer has room for the arguments, and no identifier is the end marker.
TagRequests ==
  {req \in [id : Nat \ {0}, args : Seq(Nat), args_sz : Nat, ret_sz : Nat] :
     /\ req.args_sz % 4 = 0 /\ req.ret_sz % 4 = 0 /\ req.args_sz <= req.ret_sz
     /\ req.ret_sz > 0 /\ Len(req.args) > 0}

ASSUME CallsAssumption == Calls \subseteq Seq(TagRequests)

\* The heap has room for the property buffer of every call.
ASSUME RoomAssumption ==
  \A reqs \in Calls :
    TagAddrs(reqs, align_address(HEAP, 16))[Len(reqs) + 1] <= HEAP + HEAP_SZ

NotReset(addr) == mem[addr]
RequestCode(addr) == 0

\* The words of tag k, at address at.
build_tag(req, at) ==
  [a \in {x \in DOMAIN mem : at <= x /\ x < at + HEADER + BufSz(req)} |->
     CASE a = at     -> req.id
       [] a = at + 4 -> BufSz(req)
       [] a = at + 8 -> RequestCode(a)
       [] OTHER      -> LET w == (a - at - HEADER) \div 4 + 1
                        IN  IF w <= Len(req.args) THEN req.args[w] ELSE 0]

EndMarker(end) == 0

\* The heap after the buffer is built.
build_property_buffer(reqs, prop) ==
  LET at == TagAddrs(reqs, prop)
      end == at[Len(reqs) + 1]
  IN  [a \in DOMAIN mem |->
         CASE a = prop     -> align_address(end + 4, 16) - prop
           [] a = prop + 4 -> RequestCode(a)
           [] a = end      -> EndMarker(a)
           [] \E k \in 1..Len(reqs) : a \in DOMAIN build_tag(reqs[k], at[k]) ->
                LET k == CHOOSE k \in 1..Len(reqs) : a \in DOMAIN build_tag(reqs[k], at[k])
                IN  build_tag(reqs[k], at[k])[a]
           [] OTHER -> mem[a]]

-----------------------------------------------------------------------------
Words == {a \in HEAP..HEAP + HEAP_SZ : a % 4 = 0}

\* RAM holds anything at power on, the response bits of an earlier boot included, and the
\* firmware may have left a message to be taken.
Init ==
  /\ Quirks \in Boards
  /\ pc = "idle" /\ tag_requests = <<>> /\ seqnr = 0
  /\ send_prop = 0 /\ recv_msg = 0 /\ tag = 0 /\ i = 0 /\ ret = <<>> /\ error = "none"
  /\ \E junk \in {0, RESPONSE + 8} : mem = [a \in Words |-> junk]
  /\ mbox1 \in IF "full" \in Quirks THEN {<<>>, <<0>>} ELSE {<<>>}
  /\ mbox0 = <<>>
  /\ vc = "idle" /\ vnr = 0 /\ vtag = 0 /\ vi = 0

-----------------------------------------------------------------------------
(* vcmailbox_request_tags()                                                *)

Message(addr, chan) == addr + chan
Channel(msg) == msg % 16
Data(msg) == msg - Channel(msg)

vcmailbox_request_tags(reqs) ==
  /\ pc = "idle" /\ seqnr < MAX_CALLS
  /\ tag_requests' = reqs /\ seqnr' = seqnr + 1 /\ ret' = <<>> /\ error' = "none"
  /\ send_prop' = align_address(HEAP, 16)
  /\ mem' = build_property_buffer(reqs, send_prop')
  /\ pc' = "write"
  /\ UNCHANGED <<Quirks, recv_msg, tag, i, mbox1, mbox0, videocore>>

mbox1_status_full_flag_set == mbox1 # <<>>
mbox0_status_empty_flag_set == mbox0 = <<>>

vcmailbox_write_message ==
  /\ pc = "write" /\ ~mbox1_status_full_flag_set
  /\ mbox1' = <<Message(send_prop, CHANNEL_PROPERTY)>>
  /\ pc' = "read"
  /\ UNCHANGED <<Quirks, tag_requests, seqnr, send_prop, recv_msg, tag, i, ret, error, mem, mbox0, videocore>>

vcmailbox_read_message ==
  /\ pc = "read" /\ ~mbox0_status_empty_flag_set
  /\ recv_msg' = Head(mbox0) /\ mbox0' = Tail(mbox0)
  /\ pc' = "check_message"
  /\ UNCHANGED <<Quirks, tag_requests, seqnr, send_prop, tag, i, ret, error, mem, mbox1, videocore>>

WaitsForever == FALSE
TimesOut == "late" \in Quirks

\* while_cond_timeout_infinite(): signal_error(ERROR_INFINITE_LOOP) after 200 ms.
Timeout ==
  /\ TimesOut
  /\ \/ pc = "write" /\ mbox1_status_full_flag_set
     \/ pc = "read" /\ mbox0_status_empty_flag_set
  /\ pc' = "halt" /\ error' = "ERROR_INFINITE_LOOP"
  /\ UNCHANGED <<Quirks, tag_requests, seqnr, send_prop, recv_msg, tag, i, ret, mem, mbox1, mbox0, videocore>>

\* & binds weaker than !=: of the channel only the bit CHANNEL_BITS != CHANNEL_PROPERTY counts.
WrongChannel(msg) == msg % 2 = 1

Return(e) == pc' = "caller" /\ error' = e

CheckMessage ==
  /\ pc = "check_message"
  /\ \/ WrongChannel(recv_msg) /\ Return("RECEIVE_WRONG_CHANNEL")
     \/ /\ ~WrongChannel(recv_msg) /\ Data(recv_msg) # send_prop
        /\ Return("BUFFER_RESPONSE_ADDR_MISMATCH")
     \/ /\ ~WrongChannel(recv_msg) /\ Data(recv_msg) = send_prop
        /\ pc' = "check_buffer" /\ UNCHANGED error
  /\ UNCHANGED <<Quirks, tag_requests, seqnr, send_prop, recv_msg, tag, i, ret, mem, mbox1, mbox0, videocore>>

CheckBuffer ==
  /\ pc = "check_buffer"
  /\ LET code == mem[send_prop + 4]
     IN  \/ code < RESPONSE /\ Return("BUFFER_RESPONSE_BIT_NOT_SET") /\ UNCHANGED <<tag, i>>
         \/ code = RESPONSE + PROP_RESPONSE_CODE_ERROR /\ Return("PARSING_REQUEST") /\ UNCHANGED <<tag, i>>
         \/ /\ code >= RESPONSE /\ code # RESPONSE + PROP_RESPONSE_CODE_ERROR
            /\ pc' = "walk" /\ tag' = send_prop + 8 /\ i' = 0 /\ UNCHANGED error
  /\ UNCHANGED <<Quirks, tag_requests, seqnr, send_prop, recv_msg, ret, mem, mbox1, mbox0, videocore>>

\* What is wrong with the answer to a request, in the order of the checks.
TagError(req) ==
  CASE mem[tag] # req.id                 -> "TAG_RESPONSE_OUT_OF_ORDER"
    [] mem[tag + 8] < RESPONSE           -> "TAG_RESPONSE_BIT_NOT_SET"
    [] mem[tag + 8] - RESPONSE # req.ret_sz -> "TAG_RESPONSE_SIZE_MISMATCH"
    [] OTHER                             -> "none"

StructPointer == tag + HEADER * mem[tag + 4]

\* Past the value buffer, without regard to alignment.
NextTag == tag + HEADER + mem[tag + 4]

\* One turn of the loop of return_tag_responses().
ReturnTagResponse ==
  /\ pc = "walk" /\ mem[tag] # 0
  /\ LET req == tag_requests[i + 1]
         e == TagError(req)
     IN  \/ e # "none" /\ Return(e) /\ UNCHANGED <<tag, i, ret>>
         \/ /\ e = "none"
            /\ ret' = Append(ret, [w \in 1..req.ret_sz \div 4 |-> mem[tag + HEADER + 4 * (w - 1)]])
            /\ tag' = NextTag /\ i' = i + 1
            /\ UNCHANGED <<pc, error>>
  /\ UNCHANGED <<Quirks, tag_requests, seqnr, send_prop, recv_msg, mem, mbox1, mbox0, videocore>>

EndTagResponses ==
  /\ pc = "walk" /\ mem[tag] = 0
  /\ Return(IF i # Len(tag_requests) THEN "TAG_RESPONSE_MISSED" ELSE "none")
  /\ UNCHANGED <<Quirks, tag_requests, seqnr, send_prop, recv_msg, tag, i, ret, mem, mbox1, mbox0, videocore>>

EchoIsArgument == Len(tag_requests) = 1 => ret[1][1] = tag_requests[1].args[1]

\* The caller of the functions of bld/tag.c gets the answer or never gets to run again.  A call
\* with several tags is not one of theirs, and its answers are not looked at.
EchoIsRight == Len(tag_requests) = 1 => ret[1][1] = Echo(tag_requests[1])

TagReturns ==
  /\ pc = "caller"
  /\ \/ error = "none" /\ EchoIsRight /\ pc' = "idle" /\ UNCHANGED error
     \/ ~(error = "none" /\ EchoIsRight) /\ pc' = "halt" /\ error' = "ERROR_VCMAILBOX"
  /\ UNCHANGED <<Quirks, tag_requests, seqnr, send_prop, recv_msg, tag, i, ret, mem, mbox1, mbox0, videocore>>

-----------------------------------------------------------------------------
(* The VideoCore (external).                                               *)

VcTake ==
  /\ vc = "idle" /\ mbox1 # <<>>
  /\ mbox1' = <<>>
  /\ IF Channel(Head(mbox1)) = CHANNEL_PROPERTY
       THEN vc' = "tags" /\ vnr' = seqnr /\ vtag' = Data(Head(mbox1)) + 8 /\ vi' = 1
       ELSE UNCHANGED videocore
  /\ UNCHANGED <<Quirks, core, mem, mbox0>>

\* The value of word w of the answer to tag k of a request.
Value(nr, k, w) == 1000 * nr + 100 * k + w

\* Its length is what the tag returns, which is what callers provide room for.
AnswerSizes == {mem[vtag + 4]} \cup IF "size" \in Quirks THEN {4} ELSE {}

AnswerEchoes ==
  LET id == mem[vtag]
  IN  {IF id \in {TAG_GPIO_GET_STATE, TAG_GPIO_GET_CONFIG} THEN 0 ELSE mem[vtag + HEADER]}
        \cup IF "echo" \in Quirks THEN {99} ELSE {}

VcAnswer ==
  /\ vc = "tags" /\ mem[vtag] # 0
  /\ \E sz \in AnswerSizes, first \in AnswerEchoes :
       mem' = [a \in Words |->
                 CASE a = vtag + 8      -> RESPONSE + sz
                   [] a = vtag + HEADER -> first
                   [] vtag + HEADER < a /\ a < vtag + HEADER + sz ->
                        Value(vnr, vi, (a - vtag - HEADER) \div 4 + 1)
                   [] OTHER -> mem[a]]
  /\ vtag' = align_address(vtag + HEADER + mem[vtag + 4], 4) /\ vi' = vi + 1
  /\ UNCHANGED <<Quirks, core, mbox1, mbox0, vc, vnr>>

VcIgnore ==
  /\ "silent" \in Quirks /\ vc = "tags" /\ mem[vtag] # 0
  /\ vtag' = align_address(vtag + HEADER + mem[vtag + 4], 4) /\ vi' = vi + 1
  /\ UNCHANGED <<Quirks, core, mem, mbox1, mbox0, vc, vnr>>

VcFinish ==
  /\ vc = "tags"
  /\ \/ mem[vtag] = 0 /\ mem' = [mem EXCEPT ![send_prop + 4] = RESPONSE]
     \/ "error" \in Quirks /\ mem' = [mem EXCEPT ![send_prop + 4] = RESPONSE + PROP_RESPONSE_CODE_ERROR]
  /\ vc' = "reply"
  /\ UNCHANGED <<Quirks, core, mbox1, mbox0, vnr, vtag, vi>>

VcReply ==
  /\ vc = "reply"
  /\ mbox0' = Append(mbox0, Message(send_prop, CHANNEL_PROPERTY))
  /\ vc' = "idle" /\ vnr' = 0 /\ vtag' = 0 /\ vi' = 0
  /\ UNCHANGED <<Quirks, core, mem, mbox1>>

\* A message that does not answer the request: a duplicate, or one of another channel.
Stray ==
  /\ "stray" \in Quirks /\ pc \notin {"idle", "halt"} /\ mbox0 = <<>>
  /\ \E addr \in {send_prop, send_prop + 16}, chan \in {0, CHANNEL_PROPERTY, 9} :
       mbox0' = Append(mbox0, Message(addr, chan))
  /\ UNCHANGED <<Quirks, core, mem, mbox1, videocore>>

Core ==
  \/ vcmailbox_write_message \/ vcmailbox_read_message \/ Timeout \/ CheckMessage \/ CheckBuffer
  \/ ReturnTagResponse \/ EndTagResponses \/ TagReturns

Finished == (pc = "halt" \/ (pc = "idle" /\ seqnr = MAX_CALLS)) /\ UNCHANGED vars

VideoCore == VcTake \/ VcAnswer \/ VcFinish \/ VcReply

Next ==
  \/ \E reqs \in Calls : vcmailbox_request_tags(reqs)
  \/ Core \/ VideoCore \/ VcIgnore \/ Stray \/ Finished

\* The core goes on; the VideoCore answers, unless it may be late.
Spec == Init /\ [][Next]_vars /\ WF_vars(Core) /\ WF_vars("late" \notin Quirks /\ VideoCore)

-----------------------------------------------------------------------------
(* Properties.                                                             *)

\* Addresses stay within the buffer, so that no step reads or writes outside of the heap.
TypeOK ==
  /\ pc \in {"idle", "write", "read", "check_message", "check_buffer", "walk", "caller", "halt"}
  /\ seqnr \in 0..MAX_CALLS /\ {tag, vtag} \subseteq Words \cup {0}
  /\ mem \in [Words -> Nat] /\ i \in Nat /\ Len(ret) \in 0..Len(tag_requests)
  /\ vc \in {"idle", "tags", "reply"}

\* A caller that goes on has the answer of the VideoCore to this very request, every word of it,
\* whatever the heap held before, and whatever else arrives in the mailbox: the codes that
\* build_property_buffer() and build_tag() reset keep an answer to an earlier one apart.
AnswerIsFresh ==
  pc = "idle" /\ seqnr > 0 =>
    /\ Len(ret) = Len(tag_requests)
    /\ \A k \in 1..Len(ret) :
         /\ Len(ret[k]) = tag_requests[k].ret_sz \div 4
         /\ \A w \in 2..Len(ret[k]) : ret[k][w] = Value(seqnr, k, w)
    /\ Len(ret) = 1 => ret[1][1] = Echo(tag_requests[1])

\* The walk over the answers visits the tags where build_property_buffer() put them, and stops at
\* the end marker, before it would look at a request past the end of the array.
WalkFollowsLayout ==
  pc = "walk" =>
    /\ i <= Len(tag_requests)
    /\ tag = TagAddrs(tag_requests, send_prop)[i + 1]
    /\ i = Len(tag_requests) => mem[tag] = 0

\* Every request ends, with an answer or in the error signal.
RequestEnds == [](pc \notin {"idle", "halt"} => <>(pc \in {"idle", "halt"}))

\* No request fails while the VideoCore does what it is asked to.
NoFalseAlarm == Quirks = {} => pc # "halt"
=============================================================================
