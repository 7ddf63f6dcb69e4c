------------------------------ MODULE DapProofs ------------------------------
(***************************************************************************)
(* Theorems about SwdTransfer and Dap, for every number of retries, every  *)
(* length of a command and every clock.                                    *)
(***************************************************************************)
EXTENDS Dap, FiniteSetTheorems, TLAPS

(* Where the probe is in a command: the kind of the request in hand, what  *)
(* is left to do, and whether the last read is still posted.               *)
PlaceInv ==
    /\ pc = "idle" => retry = 0 /\ tries = 0
    /\ pc \in {"idle", "last", "check", "block_check", "end"} => todo = << >>
    /\ pc \in {"post", "read", "match_post", "write", "mask"} =>
           todo # << >> /\ Own(Head(todo)) = pc /\ ~post_read
    /\ pc = "match_read" =>
           todo # << >> /\ Own(Head(todo)) \in {"match_post", "match_read"} /\ ~post_read
    /\ pc = "fetch" => todo # << >> /\ post_read
    /\ pc = "pipeline" => todo # << >> /\ Own(Head(todo)) = "post" /\ post_read
    /\ pc = "last" => post_read
    /\ pc \in {"idle", "check", "block_check", "end"} => ~post_read

(* In a block all requests left are the first one. *)
BlockInv ==
    pc \in {"block_post", "block_read", "block_write"} =>
        /\ asked # << >> /\ ~asked[1].match
        /\ \A i \in 1 .. Len(todo) : todo[i] = asked[1]
        /\ pc # "block_read" => todo # << >> /\ ~post_read
        /\ pc = "block_post" => asked[1].rnw /\ asked[1].ap
        /\ pc = "block_read" => /\ asked[1].rnw /\ (asked[1].ap <=> post_read)
                                /\ post_read \/ todo # << >>
        /\ pc = "block_write" => ~asked[1].rnw

(* A write that may have failed on the bus is still to be checked.         *)
DoubtInv ==
    /\ doubt => sticky
    /\ pc = "idle" => ~doubt
    /\ pc = "end" /\ response_value = "OK" /\ ~mismatch => ~doubt
    /\ pc \notin {"end", "block_write", "block_check"} /\ doubt => check_write

TransferInv == TypeOK /\ PlaceInv /\ BlockInv /\ DoubtInv

-----------------------------------------------------------------------------
(* What is asked for is a request or RDBUFF. *)
LEMMA RequestFields ==
    ASSUME NEW q \in Requests
    PROVE  /\ q.rnw \in BOOLEAN /\ q.ap \in BOOLEAN /\ q.match \in BOOLEAN /\ q.value \in Nat
           /\ ~q.match => q.value = 0
<1>1. CASE q \in [rnw : BOOLEAN, ap : BOOLEAN, match : {FALSE}, value : {0}]
  <2>1. q.rnw \in BOOLEAN /\ q.ap \in BOOLEAN /\ q.match \in {FALSE} /\ q.value \in {0}
    BY <1>1
  <2>2. q.match \in BOOLEAN /\ ~q.match
    BY <2>1, Zenon
  <2>3. q.value = 0 /\ q.value \in Nat
    BY <2>1
  <2> QED BY <2>1, <2>2, <2>3
<1>2. CASE q \in [rnw : {TRUE}, ap : BOOLEAN, match : {TRUE}, value : Values]
  BY <1>2, RetriesAssumption
<1>3. CASE q \in [rnw : {FALSE}, ap : {FALSE}, match : {TRUE}, value : {0, 1}]
  <2>1. q.rnw \in {FALSE} /\ q.ap \in {FALSE} /\ q.match \in {TRUE} /\ q.value \in {0, 1}
    BY <1>3
  <2>2. q.rnw \in BOOLEAN /\ q.ap \in BOOLEAN /\ q.match \in BOOLEAN /\ q.match
    BY <2>1, Zenon
  <2>3. q.value \in Nat
    BY <2>1
  <2> QED BY <2>2, <2>3
<1> QED BY <1>1, <1>2, <1>3 DEF Requests

LEMMA MaskValue ==
    ASSUME NEW q \in Requests, ~q.rnw, q.match
    PROVE  q.value \in {0, 1}
<1>1. q \notin [rnw : BOOLEAN, ap : BOOLEAN, match : {FALSE}, value : {0}]
  <2>1. SUFFICES ASSUME q \in [rnw : BOOLEAN, ap : BOOLEAN, match : {FALSE}, value : {0}] PROVE FALSE
    OBVIOUS
  <2>2. q.match \in {FALSE}
    BY <2>1
  <2> QED BY <2>2, Zenon
<1>2. q \notin [rnw : {TRUE}, ap : BOOLEAN, match : {TRUE}, value : Values]
  <2>1. SUFFICES ASSUME q \in [rnw : {TRUE}, ap : BOOLEAN, match : {TRUE}, value : Values] PROVE FALSE
    OBVIOUS
  <2>2. q.rnw \in {TRUE}
    BY <2>1
  <2> QED BY <2>2, Zenon
<1>3. q \in [rnw : {FALSE}, ap : {FALSE}, match : {TRUE}, value : {0, 1}]
  BY <1>1, <1>2 DEF Requests
<1> QED BY <1>3

LEMMA BufferFields ==
    RDBUFF.rnw = TRUE /\ RDBUFF.ap = FALSE /\ RDBUFF.match = FALSE /\ RDBUFF.value = 1
BY DEF RDBUFF

LEMMA RequestType ==
    ASSUME NEW q \in Requests \cup {RDBUFF}
    PROVE  q.rnw \in BOOLEAN /\ q.ap \in BOOLEAN /\ q.match \in BOOLEAN
BY RequestFields, BufferFields

LEMMA RequestKind ==
    ASSUME NEW q \in Requests
    PROVE  /\ Own(q) \in {"post", "read", "match_post", "match_read", "write", "mask"}
           /\ Own(q) = "post" <=> q.rnw /\ q.ap /\ ~q.match
           /\ Own(q) = "read" <=> q.rnw /\ ~q.ap /\ ~q.match
           /\ Own(q) = "match_post" <=> q.rnw /\ q.ap /\ q.match
           /\ Own(q) = "match_read" <=> q.rnw /\ ~q.ap /\ q.match
           /\ Own(q) = "write" <=> ~q.rnw /\ ~q.match
           /\ Own(q) = "mask" <=> ~q.rnw /\ q.match
           /\ q # RDBUFF
<1>1. q.rnw \in BOOLEAN /\ q.ap \in BOOLEAN /\ q.match \in BOOLEAN
  BY RequestFields
<1>2. q # RDBUFF
  BY RequestFields, BufferFields
<1> QED BY <1>1, <1>2 DEF Own

LEMMA SeqFacts ==
    ASSUME NEW S, NEW s \in Seq(S), s # << >>
    PROVE  /\ Head(s) \in S /\ Head(s) = s[1] /\ Tail(s) \in Seq(S) /\ s[1] \in S
           /\ Len(s) \in Nat \ {0} /\ Len(Tail(s)) = Len(s) - 1
           /\ \A i \in 1 .. Len(Tail(s)) : Tail(s)[i] = s[i + 1] /\ i + 1 \in 1 .. Len(s)
OBVIOUS

LEMMA UnknownType == Unknown \in Int
BY DEF Unknown

LEMMA Empty == \A S : << >> \in Seq(S)
OBVIOUS

LEMMA Longer ==
    ASSUME NEW S, NEW s \in Seq(S), NEW x \in S
    PROVE  Append(s, x) \in Seq(S)
OBVIOUS

LEMMA WantedType ==
    ASSUME TransferInv, pc \in Asking
    PROVE  Wanted \in Requests \cup {RDBUFF}
<1>1. CASE pc \in {"fetch", "last", "check", "block_check"}
  BY <1>1 DEF Wanted
<1>2. CASE pc \in {"block_post", "block_read", "block_write"}
  <2>1. asked[1] \in Requests
    BY <1>2, SeqFacts DEF TransferInv, TypeOK, BlockInv
  <2> QED BY <1>2, <2>1 DEF Wanted
<1>3. CASE pc \in {"pipeline", "post", "read", "match_post", "match_read", "write"}
  <2>1. Head(todo) \in Requests
    BY <1>3, SeqFacts DEF TransferInv, TypeOK, PlaceInv
  <2> QED BY <1>3, <2>1 DEF Wanted
<1> QED BY <1>1, <1>2, <1>3 DEF Asking

-----------------------------------------------------------------------------
(* What the target may answer *)

LEMMA AcceptedFacts ==
    ASSUME TypeOK, NEW q \in Requests \cup {RDBUFF}, NEW reply \in Accepted(q)
    PROVE  /\ reply.ack = "OK" /\ reply.value \in Int /\ reply.reads \in Nat
           /\ reply.rdbuff \in Nat /\ reply.sticky \in BOOLEAN
           /\ sticky => reply.sticky /\ IsStatus(q)
           /\ reply.sticky => sticky \/ q.ap
           /\ q.rnw /\ q.ap => reply.value = rdbuff /\ reply.reads = reads + 1
                               /\ reply.rdbuff = reads + 1
           /\ ~(q.rnw /\ q.ap) => reply.reads = reads /\ reply.rdbuff = rdbuff
           /\ q = RDBUFF => reply.value = rdbuff
           /\ IsStatus(q) => reply.value \in {0, -1}
BY RequestType, BufferFields DEF TypeOK, Accepted, Reply, IsStatus, Clear, Set, Unknown

LEMMA ReplyFacts ==
    ASSUME TypeOK, Wanted \in Requests \cup {RDBUFF}, NEW reply \in Replies
    PROVE  /\ reply.ack \in {"OK", "WAIT", "FAULT", "ERROR", "NONE"}
           /\ reply.ack = "OK" => reply \in Accepted(Wanted)
           /\ reply.value \in Int /\ reply.reads \in Nat
           /\ reply.rdbuff \in Nat /\ reply.sticky \in BOOLEAN
           /\ sticky => reply.sticky
           /\ reply.sticky => sticky \/ Wanted.ap
           /\ reply.ack # "OK" => reply.reads \in {reads, reads + 1}
           /\ reply.ack # "OK" /\ reply.sticky => sticky \/ Wanted.rnw
           /\ reply.ack = "WAIT" =>
                 reply.reads = reads /\ reply.rdbuff = rdbuff /\ reply.sticky = sticky
<1> DEFINE q == Wanted
<1>1. CASE reply \in Accepted(q)
  <2> HIDE DEF q
  <2> QED BY <1>1, AcceptedFacts DEF q
<1>2. CASE reply \in Damaged(q)
  <2>1. PICK r \in Accepted(q) : reply = [r EXCEPT !.ack = "ERROR", !.value = Unknown] /\ q.rnw
    BY <1>2 DEF Damaged
  <2>2. r \in [ack : {"OK"}, value : Int, reads : Nat, rdbuff : Nat, sticky : BOOLEAN]
    BY <2>1 DEF Accepted, Reply, TypeOK, Clear, Set, Unknown
  <2>3. /\ reply.ack = "ERROR" /\ reply.value = Unknown /\ reply.reads = r.reads
        /\ reply.rdbuff = r.rdbuff /\ reply.sticky = r.sticky
    BY <2>1, <2>2
  <2>4. /\ r.reads \in {reads, reads + 1} /\ r.rdbuff \in Nat /\ r.reads \in Nat /\ r.sticky \in BOOLEAN
        /\ sticky => r.sticky
        /\ r.sticky => sticky \/ q.ap
    <3> HIDE DEF q
    <3>1. q.rnw \in BOOLEAN /\ q.ap \in BOOLEAN
      BY RequestType DEF q
    <3> QED BY <2>1, <3>1, AcceptedFacts DEF q
  <2> QED BY <2>1, <2>3, <2>4 DEF Unknown
<1>3. CASE reply \in Refused(q)
  BY <1>3 DEF Refused, Reply, TypeOK, Unknown
<1> QED BY <1>1, <1>2, <1>3 DEF Replies

(* What an answer leaves behind *)
LEMMA AnswerFacts ==
    ASSUME TransferInv, pc \in Asking, NEW reply \in Replies, Answers(reply)
    PROVE  /\ reply.value \in Int /\ reply.ack \in {"OK", "WAIT", "FAULT", "ERROR", "NONE"}
           /\ reads' \in Nat /\ rdbuff' \in Nat /\ sticky' \in BOOLEAN /\ doubt' \in BOOLEAN
           /\ doubt' => sticky'
           /\ reply.ack = "OK" /\ Wanted.rnw => ~doubt'
           /\ reply.ack = "WAIT" => (doubt' => doubt) /\ reads' = reads /\ rdbuff' = rdbuff
           /\ reply.ack # "OK" => reads' \in {reads, reads + 1}
           /\ reply.ack = "OK" =>
                 /\ Wanted.rnw /\ Wanted.ap => reply.value = rdbuff /\ reads' = reads + 1
                                                /\ rdbuff' = reads + 1
                 /\ ~(Wanted.rnw /\ Wanted.ap) => reads' = reads /\ rdbuff' = rdbuff
                 /\ Wanted = RDBUFF => reply.value = rdbuff
                 /\ IsStatus(Wanted) => reply.value \in {0, -1}
<1> DEFINE q == Wanted
<1>1. q \in Requests \cup {RDBUFF} /\ TypeOK /\ (doubt => sticky)
  BY WantedType DEF TransferInv, DoubtInv
<1>2. reads' = reply.reads /\ rdbuff' = reply.rdbuff /\ sticky' = reply.sticky
  BY DEF Answers
<1>3. doubt' <=> /\ doubt \/ (reply.sticky /\ ~sticky /\ ~q.rnw)
                 /\ ~(IsStatus(q) /\ reply.ack = "OK")
  BY DEF Answers
<1>4. doubt' \in BOOLEAN
  BY Zenon DEF Answers
<1>5. doubt \in BOOLEAN /\ sticky \in BOOLEAN /\ q.rnw \in BOOLEAN /\ q.ap \in BOOLEAN
  BY <1>1, RequestType DEF TypeOK
<1>6. reply.ack = "OK" =>
         /\ sticky => IsStatus(q)
         /\ q.rnw /\ q.ap => reply.value = rdbuff /\ reply.reads = reads + 1
                             /\ reply.rdbuff = reads + 1
         /\ ~(q.rnw /\ q.ap) => reply.reads = reads /\ reply.rdbuff = rdbuff
         /\ q = RDBUFF => reply.value = rdbuff
         /\ IsStatus(q) => reply.value \in {0, -1}
  BY <1>1, ReplyFacts, AcceptedFacts
<1>7. /\ reply.ack \in {"OK", "WAIT", "FAULT", "ERROR", "NONE"}
      /\ reply.value \in Int /\ reply.reads \in Nat
      /\ reply.rdbuff \in Nat /\ reply.sticky \in BOOLEAN
      /\ sticky => reply.sticky
      /\ reply.ack # "OK" => reply.reads \in {reads, reads + 1}
      /\ reply.ack = "WAIT" =>
            reply.reads = reads /\ reply.rdbuff = rdbuff /\ (reply.sticky => sticky)
  BY <1>1, ReplyFacts
<1> HIDE DEF q
<1>8. doubt' => sticky'
  BY <1>1, <1>2, <1>3, <1>5, <1>7
<1>9. reply.ack = "OK" /\ q.rnw => ~doubt'
  BY <1>1, <1>2, <1>3, <1>5, <1>6, <1>7
<1>10. reply.ack = "WAIT" => (doubt' => doubt)
  BY <1>3, <1>5, <1>7
<1> QED BY <1>2, <1>4, <1>6, <1>7, <1>8, <1>9, <1>10 DEF q

-----------------------------------------------------------------------------
(* Each step of a command keeps the invariant. *)

LEMMA RetryInv == ASSUME TransferInv, Retry PROVE TransferInv'
<1>1. PICK reply \in Replies : Retried(reply) /\ Answers(reply)
  BY DEF Retry
<1>2. /\ reads' \in Nat /\ rdbuff' \in Nat /\ sticky' \in BOOLEAN /\ doubt' \in BOOLEAN
      /\ doubt' => sticky' /\ doubt
  BY <1>1, AnswerFacts DEF Retry, Retried
<1>3. TypeOK'
  BY <1>1, <1>2 DEF TransferInv, TypeOK, Retry, Retried, transfer_conf, command, response
<1>4. PlaceInv' /\ BlockInv'
  BY DEF TransferInv, PlaceInv, BlockInv, Retry, Asking, transfer_conf, command, response
<1>5. DoubtInv'
  BY <1>2 DEF TransferInv, DoubtInv, Retry, Asking, transfer_conf, command, response
<1> QED BY <1>3, <1>4, <1>5 DEF TransferInv

LEMMA BreakInv == ASSUME TransferInv, Break PROVE TransferInv'
<1>1. PICK reply \in Replies :
        reply.ack # "OK" /\ Answers(reply) /\ response_value' = reply.ack
  BY DEF Break
<1>2. /\ reads' \in Nat /\ rdbuff' \in Nat /\ sticky' \in BOOLEAN /\ doubt' \in BOOLEAN
      /\ doubt' => sticky'
      /\ response_value' \in {"WAIT", "FAULT", "ERROR", "NONE"}
  BY <1>1, AnswerFacts DEF Break
<1>3. mismatch' \in BOOLEAN
  BY DEF Break
<1>4. TypeOK'
  BY <1>2, <1>3, Empty DEF TransferInv, TypeOK, Break, transfer_conf
<1>5. PlaceInv' /\ BlockInv'
  BY DEF PlaceInv, BlockInv, Break
<1>6. DoubtInv'
  BY <1>2 DEF DoubtInv, Break
<1> QED BY <1>4, <1>5, <1>6 DEF TransferInv

LEMMA FetchInv == ASSUME TransferInv, Fetch PROVE TransferInv'
<1>1. PICK reply \in Replies : Done(reply) /\ Store(reply.value)
  BY DEF Fetch
<1>2. pc \in Asking /\ Wanted = RDBUFF /\ Wanted.rnw
  BY BufferFields DEF Fetch, Asking, Wanted
<1>3. /\ reads' \in Nat /\ rdbuff' \in Nat /\ sticky' \in BOOLEAN /\ doubt' \in BOOLEAN
      /\ ~doubt' /\ reply.value \in Int
  BY <1>1, <1>2, AnswerFacts DEF Done
<1>4. Head(todo) \in Requests /\ todo # << >>
  BY SeqFacts DEF TransferInv, TypeOK, PlaceInv, Fetch
<1>5. Own(Head(todo)) \in {"post", "read", "match_post", "match_read", "write", "mask"}
  BY <1>4, RequestKind
<1>6. words' \in Seq(Int) /\ data' \in Int /\ response_value' = "OK"
  BY <1>1, <1>3, Longer DEF TransferInv, TypeOK, Done, Store
<1>9. TypeOK'
  <2>1. pc' \in {"idle", "next", "mask", "end"} \cup Asking
    BY <1>5 DEF Fetch, Asking
  <2>2. retry' \in 0 .. retry_count' /\ tries' \in 0 .. match_retry'
    BY DEF TransferInv, TypeOK, Fetch, transfer_conf
  <2> QED BY <1>3, <1>6, <2>1, <2>2 DEF TransferInv, TypeOK, Fetch, transfer_conf, command
<1>7. PlaceInv' /\ BlockInv'
  BY <1>4, <1>5 DEF PlaceInv, BlockInv, Fetch, command
<1>8. DoubtInv'
  BY <1>3 DEF DoubtInv
<1> QED BY <1>7, <1>8, <1>9 DEF TransferInv

LEMMA NextInv == ASSUME TransferInv, NextRequest PROVE TransferInv'
<1>1. todo # << >> =>
        /\ Head(todo) \in Requests
        /\ Own(Head(todo)) \in {"post", "read", "match_post", "match_read", "write", "mask"}
  BY SeqFacts, RequestKind DEF TransferInv, TypeOK
<1>2. /\ pc' \in {"last", "check", "end", "fetch", "pipeline", "post", "read", "match_post",
                  "match_read", "write", "mask"}
      /\ pc' \in {"last", "check", "end"} => todo = << >>
      /\ pc' \notin {"last", "check", "end"} => todo # << >>
      /\ pc' \in {"last", "fetch", "pipeline"} <=> post_read
      /\ pc' \notin {"last", "check", "end", "fetch", "pipeline"} => Own(Head(todo)) = pc'
      /\ pc' = "pipeline" => Own(Head(todo)) = "post"
      /\ pc' = "end" => ~check_write
  BY <1>1 DEF NextRequest
<1>3. TypeOK'
  BY <1>2 DEF TransferInv, TypeOK, NextRequest, Asking, transfer_conf, command, response, target
<1>4. PlaceInv' /\ BlockInv'
  BY <1>2 DEF PlaceInv, BlockInv, NextRequest, command
<1>5. DoubtInv'
  BY <1>2 DEF TransferInv, DoubtInv, NextRequest, response, target
<1> QED BY <1>3, <1>4, <1>5 DEF TransferInv

LEMMA DoneFacts ==
    ASSUME TransferInv, pc \in Asking, NEW reply \in Replies, Done(reply)
    PROVE  /\ reads' \in Nat /\ rdbuff' \in Nat /\ sticky' \in BOOLEAN /\ doubt' \in BOOLEAN
           /\ reply.value \in Int /\ response_value' = "OK"
           /\ doubt' => sticky'
           /\ Wanted.rnw => ~doubt'
BY AnswerFacts DEF Done

(* The request in hand *)
LEMMA InHand ==
    ASSUME TransferInv, pc \in {"pipeline", "post", "read", "match_post", "match_read", "write", "mask"}
    PROVE  /\ todo # << >> /\ Head(todo) \in Requests /\ Tail(todo) \in Seq(Requests)
           /\ Head(todo).value \in Nat
           /\ pc # "mask" => Wanted = Head(todo)
           /\ pc \in {"pipeline", "post"} => Head(todo).rnw /\ Head(todo).ap /\ ~Head(todo).match
           /\ pc = "read" => Head(todo).rnw /\ ~Head(todo).ap /\ ~Head(todo).match
           /\ pc = "match_post" => Head(todo).rnw /\ Head(todo).ap /\ Head(todo).match
           /\ pc = "match_read" => Head(todo).rnw /\ Head(todo).match
           /\ pc = "write" => ~Head(todo).rnw /\ ~Head(todo).match
           /\ pc = "mask" => ~Head(todo).rnw /\ Head(todo).match
<1>1. todo # << >> /\ todo \in Seq(Requests)
  BY DEF TransferInv, TypeOK, PlaceInv
<1>2. Head(todo) \in Requests /\ Tail(todo) \in Seq(Requests)
  BY <1>1, SeqFacts
<1>3. pc # "mask" => Wanted = Head(todo)
  BY DEF Wanted
<1>4. /\ pc = "pipeline" => Own(Head(todo)) = "post"
      /\ pc \in {"post", "read", "match_post", "write", "mask"} => Own(Head(todo)) = pc
      /\ pc = "match_read" => Own(Head(todo)) \in {"match_post", "match_read"}
  BY DEF TransferInv, PlaceInv
<1> QED BY <1>1, <1>2, <1>3, <1>4, RequestKind, RequestFields

LEMMA CompletedType ==
    ASSUME TransferInv, Completed, Tail(todo) \in Seq(Requests)
    PROVE  todo' \in Seq(Requests) /\ response_count' \in Nat /\ pc' = "next"
<1>1. response_count \in Nat
  BY DEF TransferInv, TypeOK
<1> QED BY <1>1 DEF Completed

LEMMA PipelineInv == ASSUME TransferInv, Pipeline PROVE TransferInv'
<1>1. PICK reply \in Replies : Done(reply) /\ Store(reply.value)
  BY DEF Pipeline
<1>2. pc \in Asking /\ Wanted.rnw /\ Tail(todo) \in Seq(Requests)
  BY InHand DEF Pipeline, Asking
<1>3. /\ reads' \in Nat /\ rdbuff' \in Nat /\ sticky' \in BOOLEAN /\ doubt' \in BOOLEAN
      /\ ~doubt' /\ reply.value \in Int /\ response_value' = "OK"
  BY <1>1, <1>2, DoneFacts
<1>4. words' \in Seq(Int) /\ data' \in Int
  BY <1>1, <1>3, Longer DEF TransferInv, TypeOK, Store
<1>5. TypeOK'
  <2>1. todo' \in Seq(Requests) /\ response_count' \in Nat /\ pc' = "next"
    BY <1>2, CompletedType DEF Pipeline
  <2> QED BY <1>2, <1>3, <1>4, <2>1 DEF TransferInv, TypeOK, Pipeline, transfer_conf
<1>6. PlaceInv' /\ BlockInv' /\ DoubtInv'
  BY <1>3 DEF PlaceInv, BlockInv, DoubtInv, Pipeline, Completed
<1> QED BY <1>5, <1>6 DEF TransferInv

LEMMA PostInv == ASSUME TransferInv, Post PROVE TransferInv'
<1>1. PICK reply \in Replies : Done(reply)
  BY DEF Post
<1>2. pc \in Asking /\ Wanted.rnw /\ Tail(todo) \in Seq(Requests)
  BY InHand DEF Post, Asking
<1>3. /\ reads' \in Nat /\ rdbuff' \in Nat /\ sticky' \in BOOLEAN /\ doubt' \in BOOLEAN
      /\ ~doubt' /\ response_value' = "OK"
  BY <1>1, <1>2, DoneFacts
<1>4. TypeOK'
  <2>1. todo' \in Seq(Requests) /\ response_count' \in Nat /\ pc' = "next"
    BY <1>2, CompletedType DEF Post
  <2> QED BY <1>2, <1>3, <2>1 DEF TransferInv, TypeOK, Post, transfer_conf
<1>5. PlaceInv' /\ BlockInv' /\ DoubtInv'
  BY <1>3 DEF PlaceInv, BlockInv, DoubtInv, Post, Completed
<1> QED BY <1>4, <1>5 DEF TransferInv

LEMMA ReadInv == ASSUME TransferInv, Read PROVE TransferInv'
<1>1. PICK reply \in Replies : Done(reply) /\ Store(reply.value)
  BY DEF Read
<1>2. pc \in Asking /\ Wanted.rnw /\ Tail(todo) \in Seq(Requests)
  BY InHand DEF Read, Asking
<1>3. /\ reads' \in Nat /\ rdbuff' \in Nat /\ sticky' \in BOOLEAN /\ doubt' \in BOOLEAN
      /\ ~doubt' /\ reply.value \in Int /\ response_value' = "OK"
  BY <1>1, <1>2, DoneFacts
<1>4. words' \in Seq(Int) /\ data' \in Int
  BY <1>1, <1>3, Longer DEF TransferInv, TypeOK, Store
<1>5. TypeOK'
  <2>1. todo' \in Seq(Requests) /\ response_count' \in Nat /\ pc' = "next"
    BY <1>2, CompletedType DEF Read
  <2> QED BY <1>2, <1>3, <1>4, <2>1 DEF TransferInv, TypeOK, Read, transfer_conf
<1>6. PlaceInv' /\ BlockInv' /\ DoubtInv'
  BY <1>3 DEF PlaceInv, BlockInv, DoubtInv, Read, Completed
<1> QED BY <1>5, <1>6 DEF TransferInv

LEMMA MatchPostInv == ASSUME TransferInv, MatchPost PROVE TransferInv'
<1>1. PICK reply \in Replies : Done(reply)
  BY DEF MatchPost
<1>2. pc \in Asking /\ Wanted.rnw
  BY InHand DEF MatchPost, Asking
<1>3. /\ reads' \in Nat /\ rdbuff' \in Nat /\ sticky' \in BOOLEAN /\ doubt' \in BOOLEAN
      /\ ~doubt' /\ response_value' = "OK"
  BY <1>1, <1>2, DoneFacts
<1>4. TypeOK'
  BY <1>3 DEF TransferInv, TypeOK, MatchPost, Asking, transfer_conf, command
<1>5. PlaceInv' /\ BlockInv' /\ DoubtInv'
  BY <1>3 DEF TransferInv, PlaceInv, BlockInv, DoubtInv, MatchPost, command
<1> QED BY <1>4, <1>5 DEF TransferInv

LEMMA MatchReadInv == ASSUME TransferInv, MatchRead PROVE TransferInv'
<1>1. PICK reply \in Replies :
        /\ Done(reply) /\ data' = reply.value
        /\ \/ /\ Completed /\ check_write' = FALSE
              /\ UNCHANGED <<retry, tries, mismatch>>
           \/ /\ tries > 0 /\ tries' = tries - 1 /\ retry' = retry_count
              /\ UNCHANGED <<pc, todo, check_write, response_count, mismatch>>
           \/ /\ mismatch' = TRUE
              /\ pc' = "end" /\ todo' = << >> /\ check_write' = FALSE
              /\ UNCHANGED <<retry, tries, response_count>>
  BY DEF MatchRead
<1>2. pc \in Asking /\ Wanted.rnw /\ Tail(todo) \in Seq(Requests)
  BY InHand DEF MatchRead, Asking
<1>3. /\ reads' \in Nat /\ rdbuff' \in Nat /\ sticky' \in BOOLEAN /\ doubt' \in BOOLEAN
      /\ ~doubt' /\ reply.value \in Int /\ response_value' = "OK"
  BY <1>1, <1>2, DoneFacts
<1>4. TypeOK'
  <2>1. todo' \in Seq(Requests) /\ response_count' \in Nat /\ pc' \in {"next", "match_read", "end"}
    BY <1>1, <1>2, CompletedType, Empty DEF TransferInv, TypeOK, MatchRead
  <2>2. retry' \in 0 .. retry_count' /\ tries' \in 0 .. match_retry'
    <3>1. UNCHANGED <<retry_count, match_retry>> /\ tries \in 0 .. match_retry
          /\ match_retry \in Nat /\ retry \in 0 .. retry_count /\ retry_count \in Nat
      BY DEF TransferInv, TypeOK, MatchRead, transfer_conf
    <3>2. tries > 0 => tries - 1 \in 0 .. match_retry
      BY <3>1
    <3> QED BY <1>1, <3>1, <3>2
  <2>3. mismatch' \in BOOLEAN /\ check_write' \in BOOLEAN
    BY <1>1 DEF TransferInv, TypeOK
  <2> QED BY <1>1, <1>3, <2>1, <2>2, <2>3 DEF TransferInv, TypeOK, MatchRead, Asking, transfer_conf
<1>5. PlaceInv' /\ BlockInv' /\ DoubtInv'
  BY <1>1, <1>3 DEF TransferInv, PlaceInv, BlockInv, DoubtInv, MatchRead, Completed
<1> QED BY <1>4, <1>5 DEF TransferInv

LEMMA MaskWriteInv == ASSUME TransferInv, MaskWrite PROVE TransferInv'
<1>1. Tail(todo) \in Seq(Requests) /\ Head(todo).value \in {0, 1}
  <2>1. Head(todo) \in Requests /\ ~Head(todo).rnw /\ Head(todo).match /\ Tail(todo) \in Seq(Requests)
    BY InHand DEF MaskWrite
  <2> QED BY <2>1, MaskValue
<1>2. TypeOK'
  BY <1>1 DEF TransferInv, TypeOK, MaskWrite, Completed, target
<1>3. PlaceInv' /\ BlockInv' /\ DoubtInv'
  BY DEF TransferInv, PlaceInv, BlockInv, DoubtInv, MaskWrite, Completed, target
<1> QED BY <1>2, <1>3 DEF TransferInv

LEMMA WriteInv == ASSUME TransferInv, Write PROVE TransferInv'
<1>1. PICK reply \in Replies : Done(reply)
  BY DEF Write
<1>2. pc \in Asking /\ Tail(todo) \in Seq(Requests)
  BY InHand DEF Write, Asking
<1>3. /\ reads' \in Nat /\ rdbuff' \in Nat /\ sticky' \in BOOLEAN /\ doubt' \in BOOLEAN
      /\ response_value' = "OK"
  BY <1>1, <1>2, DoneFacts
<1>9. doubt' => sticky'
  BY <1>1, <1>2, DoneFacts
<1>4. TypeOK'
  <2>1. todo' \in Seq(Requests) /\ response_count' \in Nat /\ pc' = "next"
    BY <1>2, CompletedType DEF Write
  <2>2. data' \in Int
    BY UnknownType DEF Write
  <2>3. retry' \in 0 .. retry_count' /\ tries' \in 0 .. match_retry' /\ check_write' \in BOOLEAN
    BY DEF TransferInv, TypeOK, Write, transfer_conf
  <2>4. UNCHANGED <<retry_count, match_retry, match_mask, asked, post_read, words, mismatch>>
    BY DEF Write, transfer_conf
  <2> QED BY <1>3, <2>1, <2>2, <2>3, <2>4 DEF TransferInv, TypeOK
<1>5. PlaceInv' /\ BlockInv' /\ DoubtInv'
  BY <1>9 DEF PlaceInv, BlockInv, DoubtInv, Write, Completed
<1> QED BY <1>4, <1>5 DEF TransferInv

LEMMA LastInv == ASSUME TransferInv, Last PROVE TransferInv'
<1>1. PICK reply \in Replies : Done(reply) /\ Store(reply.value)
  BY DEF Last
<1>2. pc \in Asking /\ Wanted.rnw
  BY BufferFields DEF Last, Asking, Wanted
<1>3. /\ reads' \in Nat /\ rdbuff' \in Nat /\ sticky' \in BOOLEAN /\ doubt' \in BOOLEAN
      /\ ~doubt' /\ reply.value \in Int /\ response_value' = "OK"
  BY <1>1, <1>2, DoneFacts
<1>4. words' \in Seq(Int) /\ data' \in Int
  BY <1>1, <1>3, Longer DEF TransferInv, TypeOK, Store
<1>5. TypeOK'
  BY <1>3, <1>4 DEF TransferInv, TypeOK, Last, transfer_conf, command
<1>6. PlaceInv' /\ BlockInv' /\ DoubtInv'
  BY <1>3 DEF TransferInv, PlaceInv, BlockInv, DoubtInv, Last, command
<1> QED BY <1>5, <1>6 DEF TransferInv

LEMMA CheckInv == ASSUME TransferInv, Check PROVE TransferInv'
<1>1. PICK reply \in Replies : Done(reply)
  BY DEF Check
<1>2. pc \in Asking /\ Wanted.rnw
  BY BufferFields DEF Check, Asking, Wanted
<1>3. /\ reads' \in Nat /\ rdbuff' \in Nat /\ sticky' \in BOOLEAN /\ doubt' \in BOOLEAN
      /\ ~doubt' /\ response_value' = "OK"
  BY <1>1, <1>2, DoneFacts
<1>4. TypeOK'
  BY <1>3 DEF TransferInv, TypeOK, Check, transfer_conf, command
<1>5. PlaceInv' /\ BlockInv' /\ DoubtInv'
  BY <1>3 DEF TransferInv, PlaceInv, BlockInv, DoubtInv, Check, command
<1> QED BY <1>4, <1>5 DEF TransferInv

(* What is left of a block *)
LEMMA BlockRest ==
    ASSUME NEW s \in Seq(Requests), NEW q, \A i \in 1 .. Len(s) : s[i] = q
    PROVE  /\ s # << >> => Tail(s) \in Seq(Requests) /\ \A i \in 1 .. Len(Tail(s)) : Tail(s)[i] = q
           /\ s # << >> => Head(s) = q
<1> SUFFICES ASSUME s # << >>
             PROVE  /\ Tail(s) \in Seq(Requests) /\ \A i \in 1 .. Len(Tail(s)) : Tail(s)[i] = q
                    /\ Head(s) = q
  OBVIOUS
<1>1. 1 \in 1 .. Len(s)
  BY SeqFacts
<1> QED BY <1>1, SeqFacts

LEMMA BlockPostInv == ASSUME TransferInv, BlockPost PROVE TransferInv'
<1>1. PICK reply \in Replies : Done(reply)
  BY DEF BlockPost
<1>2. pc \in Asking /\ Wanted.rnw
  BY DEF TransferInv, BlockInv, BlockPost, Asking, Wanted
<1>3. /\ reads' \in Nat /\ rdbuff' \in Nat /\ sticky' \in BOOLEAN /\ doubt' \in BOOLEAN
      /\ ~doubt' /\ response_value' = "OK"
  BY <1>1, <1>2, DoneFacts
<1>4. todo' \in Seq(Requests) /\ \A i \in 1 .. Len(todo') : todo'[i] = asked[1]
  BY BlockRest DEF TransferInv, TypeOK, BlockInv, BlockPost
<1>5. TypeOK'
  BY <1>3, <1>4 DEF TransferInv, TypeOK, BlockPost, Asking, transfer_conf
<1>6. PlaceInv' /\ BlockInv' /\ DoubtInv'
  BY <1>3, <1>4 DEF TransferInv, PlaceInv, BlockInv, DoubtInv, BlockPost
<1> QED BY <1>5, <1>6 DEF TransferInv

LEMMA BlockReadInv == ASSUME TransferInv, BlockRead PROVE TransferInv'
<1>1. PICK reply \in Replies : Done(reply) /\ Store(reply.value)
  BY DEF BlockRead
<1>2. pc \in Asking /\ Wanted.rnw
  BY BufferFields DEF TransferInv, BlockInv, BlockRead, Asking, Wanted
<1>3. /\ reads' \in Nat /\ rdbuff' \in Nat /\ sticky' \in BOOLEAN /\ doubt' \in BOOLEAN
      /\ ~doubt' /\ reply.value \in Int /\ response_value' = "OK"
  BY <1>1, <1>2, DoneFacts
<1>4. words' \in Seq(Int) /\ data' \in Int
  BY <1>1, <1>3, Longer DEF TransferInv, TypeOK, Store
<1>5. todo' \in Seq(Requests) /\ \A i \in 1 .. Len(todo') : todo'[i] = asked[1]
  BY BlockRest, Empty DEF TransferInv, TypeOK, BlockInv, BlockRead
<1>6. response_count' \in Nat
  BY DEF TransferInv, TypeOK, BlockRead
<1>7. /\ pc' \in {"block_read", "end"} /\ post_read' \in BOOLEAN
      /\ pc' = "end" => todo' = << >> /\ ~post_read'
      /\ pc' = "block_read" => post_read' \/ todo' # << >>
      /\ pc' = "block_read" => (asked[1].ap <=> post_read')
  BY DEF TransferInv, TypeOK, BlockInv, BlockRead
<1>8. TypeOK'
  BY <1>3, <1>4, <1>5, <1>6, <1>7 DEF TransferInv, TypeOK, BlockRead, Asking, transfer_conf
<1>9. PlaceInv' /\ BlockInv' /\ DoubtInv'
  BY <1>3, <1>5, <1>7 DEF TransferInv, PlaceInv, BlockInv, DoubtInv, BlockRead
<1> QED BY <1>8, <1>9 DEF TransferInv

LEMMA BlockWriteInv == ASSUME TransferInv, BlockWrite PROVE TransferInv'
<1>1. PICK reply \in Replies : Done(reply)
  BY DEF BlockWrite
<1>2. pc \in Asking
  BY DEF BlockWrite, Asking
<1>3. /\ reads' \in Nat /\ rdbuff' \in Nat /\ sticky' \in BOOLEAN /\ doubt' \in BOOLEAN
      /\ response_value' = "OK"
  BY <1>1, <1>2, DoneFacts
<1>9. doubt' => sticky'
  BY <1>1, <1>2, DoneFacts
<1>4. todo' \in Seq(Requests) /\ \A i \in 1 .. Len(todo') : todo'[i] = asked[1]
  BY BlockRest DEF TransferInv, TypeOK, BlockInv, BlockWrite
<1>5. response_count' \in Nat
  BY DEF TransferInv, TypeOK, BlockWrite
<1>6. /\ pc' \in {"block_write", "block_check"}
      /\ pc' = "block_check" => todo' = << >>
      /\ pc' = "block_write" => todo' # << >>
  BY DEF BlockWrite
<1>7. TypeOK'
  <2>1. data' \in Int
    BY UnknownType DEF BlockWrite
  <2>2. retry' \in 0 .. retry_count' /\ tries' \in 0 .. match_retry'
    BY DEF TransferInv, TypeOK, BlockWrite, transfer_conf
  <2>3. UNCHANGED <<retry_count, match_retry, match_mask, asked, post_read, check_write, words, mismatch>>
    BY DEF BlockWrite, transfer_conf
  <2> QED BY <1>3, <1>4, <1>5, <1>6, <2>1, <2>2, <2>3 DEF TransferInv, TypeOK, Asking
<1>8. PlaceInv' /\ BlockInv' /\ DoubtInv'
  BY <1>9, <1>4, <1>6 DEF TransferInv, PlaceInv, BlockInv, DoubtInv, BlockWrite
<1> QED BY <1>7, <1>8 DEF TransferInv

LEMMA EndInv == ASSUME TransferInv, End PROVE TransferInv'
<1>1. TypeOK'
  <2>1. 0 \in 0 .. retry_count' /\ 0 \in 0 .. match_retry'
    BY DEF TransferInv, TypeOK, End, transfer_conf
  <2> QED BY <2>1, Empty, UnknownType DEF TransferInv, TypeOK, End, Forget, transfer_conf
<1>2. PlaceInv' /\ BlockInv' /\ DoubtInv'
  BY DEF TransferInv, PlaceInv, BlockInv, DoubtInv, End, Forget
<1> QED BY <1>1, <1>2 DEF TransferInv

LEMMA StepInv == ASSUME TransferInv, TransferStep PROVE TransferInv'
BY RetryInv, BreakInv, FetchInv, NextInv, PipelineInv, PostInv, ReadInv, MatchPostInv, MatchReadInv,
   MaskWriteInv, WriteInv, LastInv, CheckInv, BlockPostInv, BlockReadInv, BlockWriteInv, EndInv
   DEF TransferStep

-----------------------------------------------------------------------------
(* The commands and what is between them *)

LEMMA BeginType ==
    ASSUME TransferInv, NEW qs \in Seq(Requests), NEW first \in {"next", "end"} \cup Asking,
           Begin(qs, first)
    PROVE  TypeOK' /\ ~doubt' /\ ~post_read'
BY DEF TransferInv, TypeOK, PlaceInv, DoubtInv, Begin, transfer_conf, response, target

LEMMA TransferCommandInv ==
    ASSUME TransferInv, NEW n \in Nat, NEW qs \in [1 .. n -> Requests], Transfer(qs)
    PROVE  TransferInv'
<1>1. qs \in Seq(Requests)
  OBVIOUS
<1>2. TypeOK' /\ ~doubt' /\ ~post_read' /\ pc' = "next"
  BY <1>1, BeginType DEF Transfer, Begin
<1>3. PlaceInv' /\ BlockInv' /\ DoubtInv'
  BY <1>2 DEF PlaceInv, BlockInv, DoubtInv
<1> QED BY <1>2, <1>3 DEF TransferInv

LEMMA TransferBlockInv ==
    ASSUME TransferInv, NEW q \in Kinds, NEW n \in Nat, TransferBlock(q, n)
    PROVE  TransferInv'
<1> DEFINE qs == [i \in 1 .. n |-> q]
           first == IF n = 0 THEN "end"
                    ELSE IF ~q.rnw THEN "block_write" ELSE IF q.ap THEN "block_post" ELSE "block_read"
<1>1. /\ qs \in Seq(Requests) /\ Len(qs) = n
      /\ \A i \in 1 .. n : qs[i] = q
      /\ n = 0 <=> qs = << >>
  BY DEF Kinds
<1>2. Begin(qs, first) /\ first \in {"end", "block_write", "block_post", "block_read"} /\ ~q.match
  BY DEF TransferBlock, Kinds
<1>3. TypeOK' /\ ~doubt' /\ ~post_read'
  BY <1>1, <1>2, BeginType DEF Asking
<1>4. asked' = qs /\ todo' = qs /\ pc' = first
  BY <1>2 DEF Begin
<1>5. response_value = response_value' /\ mismatch' = mismatch
  BY <1>2 DEF Begin, response
<1>6. PlaceInv'
  BY <1>1, <1>3, <1>4 DEF PlaceInv
<1>7. BlockInv'
  BY <1>1, <1>2, <1>3, <1>4 DEF BlockInv
<1>8. DoubtInv'
  BY <1>3 DEF DoubtInv
<1> QED BY <1>3, <1>6, <1>7, <1>8 DEF TransferInv

LEMMA AbortInv == ASSUME TransferInv, WriteAbort PROVE TransferInv'
<1>1. sticky' \in BOOLEAN
  BY DEF TransferInv, TypeOK, WriteAbort
<1> QED BY <1>1 DEF TransferInv, TypeOK, PlaceInv, BlockInv, DoubtInv, WriteAbort,
             transfer_conf, command, locals, response

(* DAP_TransferConfigure, and DAP_Setup *)
LEMMA ConfigureInv ==
    ASSUME TransferInv, pc = "idle",
           retry_count' \in Nat, match_retry' \in Nat, match_mask' \in {0, 1},
           UNCHANGED <<command, locals, response, target>>
    PROVE  TransferInv'
BY DEF TransferInv, TypeOK, PlaceInv, BlockInv, DoubtInv, command, locals, response, target

LEMMA TransferInitInv == TransferInit => TransferInv
<1> SUFFICES ASSUME TransferInit PROVE TransferInv
  OBVIOUS
<1>1. 0 \in 0 .. retry_count /\ 0 \in 0 .. match_retry
  BY RetriesAssumption DEF TransferInit
<1>2. TypeOK
  BY <1>1, RetriesAssumption, Empty, UnknownType DEF TransferInit, TypeOK
<1>3. PlaceInv /\ BlockInv /\ DoubtInv
  BY DEF TransferInit, PlaceInv, BlockInv, DoubtInv
<1> QED BY <1>2, <1>3 DEF TransferInv

LEMMA TransferStutter == ASSUME TransferInv, UNCHANGED transfer_vars PROVE TransferInv'
BY DEF TransferInv, TypeOK, PlaceInv, BlockInv, DoubtInv, transfer_vars, transfer_conf, command,
       locals, response, target

-----------------------------------------------------------------------------
(* The clock *)

(* Division, and how it rounds up *)
LEMMA Division ==
    ASSUME NEW a \in Nat, NEW b \in Nat \ {0}
    PROVE  a \div b \in Nat /\ b * (a \div b) <= a /\ a < b * (a \div b) + b
  OBVIOUS

LEMMA RoundedUp ==
    ASSUME NEW a \in Nat, NEW b \in Nat \ {0}
    PROVE  (a + (b - 1)) \div b \in Nat /\ a <= b * ((a + (b - 1)) \div b)
<1> DEFINE n == a + (b - 1)
<1>1. n \in Nat
  OBVIOUS
<1> DEFINE d == n \div b
<1>2. d \in Nat /\ n < b * d + b
  <2> HIDE DEF n
  <2> QED BY <1>1, Division
<1>3. b * d \in Nat
  BY <1>2
<1> DEFINE m == b * d
<1> HIDE DEF d
<1>5. m \in Nat /\ n < m + b
  BY <1>2, <1>3
<1> HIDE DEF m
<1>6. a <= m
  BY <1>5
<1> QED BY <1>2, <1>6 DEF m, d

LEMMA Times ==
    ASSUME NEW k \in Nat, NEW m \in Nat, NEW n \in Nat, m <= n
    PROVE  k * m <= k * n
OBVIOUS

(* The delay of the slow clock is long enough, *)
LEMMA SlowRight ==
    ASSUME NEW hz \in Nat \ {0}
    PROVE  /\ SlowDelay(hz) \in Nat \ {0}
           /\ HalfClock <= hz * (WriteCycles + SlowDelay(hz) * SlowCycles)
<1> DEFINE delay == (HalfClock + (hz - 1)) \div hz
           rest == (delay - WriteCycles + (SlowCycles - 1)) \div SlowCycles
           c == IF delay > WriteCycles THEN rest ELSE 1
<1>1. delay \in Nat /\ HalfClock <= hz * delay
  BY ClocksAssumption, RoundedUp
<1>2. c = SlowDelay(hz)
  BY DEF SlowDelay
<1> HIDE DEF delay
<1>3. c \in Nat \ {0} /\ delay <= WriteCycles + c * SlowCycles
  <2>1. CASE delay > WriteCycles
    <3> DEFINE x == delay - WriteCycles
    <3>1. x \in Nat /\ x > 0
      BY <1>1, <2>1, ClocksAssumption
    <3>2. rest \in Nat /\ x <= SlowCycles * rest
      <4> HIDE DEF x
      <4> QED BY <3>1, RoundedUp, ClocksAssumption DEF x
    <3> HIDE DEF rest
    <3>3. rest # 0
      BY <3>1, <3>2, ClocksAssumption
    <3>4. SlowCycles * rest = rest * SlowCycles /\ rest * SlowCycles \in Nat
      BY <3>2, ClocksAssumption
    <3> DEFINE p == rest * SlowCycles
    <3>5. p \in Nat /\ x <= p
      BY <3>2, <3>4
    <3> HIDE DEF p
    <3>6. delay <= WriteCycles + p
      BY <1>1, <3>5, ClocksAssumption
    <3> QED BY <2>1, <3>2, <3>3, <3>6 DEF p
  <2>2. CASE ~(delay > WriteCycles)
    <3>1. c = 1
      BY <2>2
    <3>2. delay <= WriteCycles + 1 * SlowCycles
      BY <1>1, <2>2, ClocksAssumption
    <3> QED BY <3>1, <3>2
  <2> QED BY <2>1, <2>2
<1> HIDE DEF c
<1>4. c * SlowCycles \in Nat
  BY <1>3, ClocksAssumption
<1> DEFINE w == WriteCycles + c * SlowCycles
<1>5. w \in Nat /\ delay <= w
  BY <1>3, <1>4, ClocksAssumption
<1> HIDE DEF w
<1>6. hz * delay <= hz * w
  BY <1>1, <1>5, Times
<1>7. hz * delay \in Nat /\ hz * w \in Nat
  BY <1>1, <1>5
<1>8. HalfClock <= hz * w
  BY <1>1, <1>6, <1>7, ClocksAssumption
<1> QED BY <1>2, <1>3, <1>8 DEF w

(* and the fast clock is chosen for those who may have it. *)
LEMMA FastRight ==
    ASSUME NEW hz \in Nat \ {0}, hz >= MaxClock(FastCycles)
    PROVE  HalfClock < (hz + 1) * (WriteCycles + FastCycles)
<1> DEFINE b == WriteCycles + FastCycles
           q == HalfClock \div b
<1>1. b \in Nat \ {0}
  BY ClocksAssumption
<1>2. q \in Nat /\ HalfClock < b * q + b /\ q <= hz
  <2>1. q \in Nat /\ HalfClock < b * q + b
    <3> HIDE DEF b
    <3> QED BY <1>1, Division, ClocksAssumption DEF q
  <2> QED BY <2>1 DEF MaxClock
<1> HIDE DEF b, q
<1>3. b * q + b = b * (q + 1) /\ b * (q + 1) \in Nat /\ q + 1 \in Nat /\ hz + 1 \in Nat /\ q + 1 <= hz + 1
  BY <1>1, <1>2
<1>4. b * (q + 1) <= b * (hz + 1)
  BY <1>1, <1>3, Times
<1>5. b * (hz + 1) = (hz + 1) * b /\ b * (hz + 1) \in Nat
  BY <1>1
<1>6. HalfClock < (hz + 1) * b
  BY <1>2, <1>3, <1>4, <1>5, ClocksAssumption
<1> QED BY <1>6 DEF b

ClockInv ==
    /\ clock \in Nat \ {0} /\ fast_clock \in BOOLEAN /\ clock_delay \in Nat \ {0}
    /\ NeverFaster

LEMMA SetClock ==
    ASSUME NEW hz \in Nat \ {0}, Set_Clock_Delay(hz)
    PROVE  ClockInv'
<1>1. CASE hz >= MaxClock(FastCycles)
  <2>1. fast_clock' = TRUE /\ clock_delay' = 1 /\ clock' = hz
    BY <1>1 DEF Set_Clock_Delay
  <2> QED BY <1>1, <2>1, FastRight DEF ClockInv, NeverFaster
<1>2. CASE ~(hz >= MaxClock(FastCycles))
  <2>1. clock_delay' = SlowDelay(hz) /\ clock' = hz
    BY <1>2 DEF Set_Clock_Delay
  <2>2. SlowDelay(hz) \in Nat \ {0} /\ HalfClock <= hz * (WriteCycles + SlowDelay(hz) * SlowCycles)
    BY SlowRight
  <2>3. /\ clock' \in Nat \ {0} /\ clock_delay' \in Nat \ {0}
        /\ HalfClock <= clock' * (WriteCycles + clock_delay' * SlowCycles)
    BY <2>1, <2>2, Zenon
  <2>4. fast_clock' \in BOOLEAN /\ ~fast_clock'
    <3>1. fast_clock' = (hz >= MaxClock(FastCycles))
      BY Zenon DEF Set_Clock_Delay
    <3>2. (hz >= MaxClock(FastCycles)) = FALSE
      BY <1>2
    <3> QED BY <3>1, <3>2, Zenon
  <2>5. NeverFaster'
    BY <2>3, <2>4, Zenon DEF NeverFaster
  <2> QED BY <2>3, <2>4, <2>5 DEF ClockInv
<1> QED BY <1>1, <1>2

LEMMA ClockInit == Init => ClockInv
<1> SUFFICES ASSUME Init PROVE ClockInv
  OBVIOUS
<1>1. DefaultClock \in Nat \ {0}
  BY ClocksAssumption
<1>2. CASE DefaultClock >= MaxClock(FastCycles)
  <2>1. fast_clock = TRUE /\ clock_delay = 1 /\ clock = DefaultClock
    BY <1>2 DEF Init
  <2> QED BY <1>1, <1>2, <2>1, FastRight DEF ClockInv, NeverFaster
<1>3. CASE ~(DefaultClock >= MaxClock(FastCycles))
  <2>1. clock_delay = SlowDelay(DefaultClock) /\ clock = DefaultClock
    BY <1>3 DEF Init
  <2>2. /\ SlowDelay(DefaultClock) \in Nat \ {0}
        /\ HalfClock <= DefaultClock * (WriteCycles + SlowDelay(DefaultClock) * SlowCycles)
    BY <1>1, SlowRight
  <2>3. /\ clock \in Nat \ {0} /\ clock_delay \in Nat \ {0}
        /\ HalfClock <= clock * (WriteCycles + clock_delay * SlowCycles)
    BY <1>1, <2>1, <2>2, Zenon
  <2>4. fast_clock \in BOOLEAN /\ ~fast_clock
    <3>1. fast_clock = (DefaultClock >= MaxClock(FastCycles))
      BY Zenon DEF Init
    <3>2. (DefaultClock >= MaxClock(FastCycles)) = FALSE
      BY <1>3
    <3> QED BY <3>1, <3>2, Zenon
  <2>5. NeverFaster
    BY <2>3, <2>4, Zenon DEF NeverFaster
  <2> QED BY <2>3, <2>4, <2>5 DEF ClockInv
<1> QED BY <1>2, <1>3

LEMMA ClockStep == ASSUME ClockInv, [Next]_vars PROVE ClockInv'
<1>1. CASE UNCHANGED <<fast_clock, clock_delay, clock>>
  BY <1>1 DEF ClockInv, NeverFaster
<1>2. CASE Setup
  BY <1>2, SetClock, ClocksAssumption DEF Setup
<1>3. ASSUME NEW hz \in Clocks, SWJ_Clock(hz) PROVE ClockInv'
  BY <1>3, SetClock, ClocksAssumption DEF SWJ_Clock
<1> QED BY <1>1, <1>2, <1>3
        DEF Next, vars, port_vars, Connect, Disconnect, Configure, DAP_Transfer, DAP_TransferBlock,
            DAP_WriteAbort, SWD_Sequence, Work, Turn, Answer, Local

-----------------------------------------------------------------------------
(* The direction of SWDIO *)

(* A set-up pin is driven but for the turns within a transfer. *)
PortInv ==
    /\ debug_port = "SWD" => s_debug_gpio_init
    /\ s_debug_gpio_init /\ pc \notin Asking => swdio_out

LEMMA PortStep == ASSUME PortInv, [Next]_vars PROVE PortInv'
<1>1. CASE Setup
  BY <1>1 DEF PortInv, Setup, Idle, locals, pins
<1>2. CASE Connect
  BY <1>2 DEF PortInv, Connect, transfer_vars, locals, pins
<1>3. CASE Disconnect
  BY <1>3 DEF PortInv, Disconnect
<1>4. CASE Configure
  BY <1>4 DEF PortInv, Configure, TransferConfigure, locals, port_vars, pins
<1>5. CASE DAP_Transfer \/ DAP_TransferBlock \/ DAP_WriteAbort
  <2>1. pc = "idle" /\ UNCHANGED <<debug_port, s_debug_gpio_init, swdio_out>>
    BY <1>5 DEF DAP_Transfer, DAP_TransferBlock, DAP_WriteAbort, Transfer, TransferBlock, Begin,
                WriteAbort, port_vars, pins
  <2> QED BY <2>1 DEF PortInv, Asking
<1>6. ASSUME NEW hz \in Clocks, SWJ_Clock(hz) PROVE PortInv'
  BY <1>6 DEF PortInv, SWJ_Clock, transfer_vars, locals, pins
<1>7. ASSUME NEW captures, SWD_Sequence(captures) PROVE PortInv'
  BY <1>7 DEF PortInv, SWD_Sequence, transfer_vars, locals, port_vars, pins
<1>8. CASE Turn
  BY <1>8 DEF PortInv, Turn, transfer_vars, locals, port_vars, pins
<1>9. CASE Answer
  BY <1>9 DEF PortInv, Answer, TurnBack, port_vars, pins
<1>10. CASE Local
  BY <1>10 DEF PortInv, Local, Asking, port_vars, pins
<1>11. CASE UNCHANGED vars
  BY <1>11 DEF PortInv, vars, transfer_vars, locals, port_vars, pins
<1> QED BY <1>1, <1>2, <1>3, <1>4, <1>5, <1>6, <1>7, <1>8, <1>9, <1>10, <1>11 DEF Next, Work

-----------------------------------------------------------------------------
(* The transfers within the DAP *)

LEMMA TransferInvStep == ASSUME TransferInv, [Next]_vars PROVE TransferInv'
<1>1. CASE UNCHANGED transfer_vars
  BY <1>1, TransferStutter
<1>2. CASE Setup
  BY <1>2, ConfigureInv, RetriesAssumption DEF Setup, Idle
<1>3. CASE Configure
  <2>1. PICK n \in Retries, m \in MatchRetries : TransferConfigure(n, m)
    BY <1>3 DEF Configure
  <2>2. match_mask' \in {0, 1}
    BY <2>1 DEF TransferConfigure, TransferInv, TypeOK
  <2> QED BY <2>1, <2>2, ConfigureInv, RetriesAssumption DEF TransferConfigure
<1>4. CASE DAP_Transfer
  <2>1. PICK n \in 0 .. MaxRequests : \E qs \in [1 .. n -> Requests] : Transfer(qs)
    BY <1>4 DEF DAP_Transfer
  <2> QED BY <2>1, TransferCommandInv, RetriesAssumption
<1>5. CASE DAP_TransferBlock
  <2>1. PICK q \in Kinds, n \in 0 .. MaxRequests : TransferBlock(q, n)
    BY <1>5 DEF DAP_TransferBlock
  <2> QED BY <2>1, TransferBlockInv, RetriesAssumption
<1>6. CASE DAP_WriteAbort
  BY <1>6, AbortInv DEF DAP_WriteAbort
<1>7. CASE Answer \/ Local
  BY <1>7, StepInv DEF Answer, Local
<1> QED BY <1>1, <1>2, <1>3, <1>4, <1>5, <1>6, <1>7
        DEF Next, vars, Connect, Disconnect, SWJ_Clock, SWD_Sequence, Work, Turn

SafeInv == TransferInv /\ ClockInv /\ PortInv

LEMMA Started == Init => SafeInv
BY TransferInitInv, ClockInit DEF Init, SafeInv, PortInv

LEMMA Kept == SafeInv /\ [Next]_vars => SafeInv'
BY TransferInvStep, ClockStep, PortStep DEF SafeInv

LEMMA Safe == Spec => []SafeInv
BY Started, Kept, PTL DEF Spec

-----------------------------------------------------------------------------
(* Each variable of the transfers has a value of its kind: the counts of   *)
(* retries and of tries that are left never pass those the host has set.   *)
(* DAP_SWD_Transfer and DAP_SWD_TransferBlock, DAP.c:701.                  *)
THEOREM TypeCorrect == Spec => []TypeOK
<1>1. SafeInv => TypeOK
  BY DEF SafeInv, TransferInv
<1> QED BY <1>1, Safe, PTL

(* A response is not OK if a write of the command has failed on the        *)
(* target's bus: the check of a write, DAP.c:927 and :1371, is never       *)
(* skipped by what comes behind the write.                                 *)
THEOREM WritesSafe == Spec => []WritesConfirmed
<1>1. SafeInv => WritesConfirmed
  BY DEF SafeInv, TransferInv, DoubtInv, WritesConfirmed
<1> QED BY <1>1, Safe, PTL

(* SWCLK is never faster than the host has asked for, for every clock:     *)
(* Set_Clock_Delay rounds each of its two divisions up, DAP.c:63.          *)
THEOREM ClockSafe == Spec => []NeverFaster
<1>1. SafeInv => NeverFaster
  BY DEF SafeInv, ClockInv
<1> QED BY <1>1, Safe, PTL

(* Between commands the probe drives SWDIO: each way out of                *)
(* SWD_TransferFunction turns it to output again.                          *)
THEOREM DrivenSafe == Spec => []DrivenBetweenCommands
<1>1. SafeInv => DrivenBetweenCommands
  BY DEF SafeInv, PortInv, DrivenBetweenCommands, Idle, Asking
<1> QED BY <1>1, Safe, PTL

-----------------------------------------------------------------------------
(* The commands do the register accesses in order. *)

(* The values of the reads that are done: the last may be posted still.    *)
Results == IF post_read THEN Append(words, rdbuff) ELSE words

Access == [Registers!Next]_Registers!vars

LEMMA Stutters ==
    ASSUME todo' = todo, reads' = reads, Results' = Results, pc # "idle" <=> pc' # "idle"
    PROVE  Access
<1>1. (pc # "idle")' = (pc # "idle")
  OBVIOUS
<1> QED BY <1>1 DEF Access, Registers!vars, Results

LEMMA BeginAccess ==
    ASSUME TransferInv, NEW qs \in Seq(Requests), NEW first, first # "idle", Begin(qs, first)
    PROVE  Access
<1>1. pc = "idle" /\ pc' # "idle" /\ todo' \in Seq(Requests) /\ reads' = reads
  BY DEF Begin, target
<1>2. Results' = Results
  BY DEF Begin, target, response, Results
<1>3. Registers!Begin
  BY <1>1, <1>2 DEF Registers!Begin, Results
<1> QED BY <1>3 DEF Access, Registers!Next

LEMMA NextAccess == ASSUME TransferInv, NextRequest PROVE Access
<1>1. todo # << >> => Own(Head(todo)) # "idle"
  BY SeqFacts, RequestKind DEF TransferInv, TypeOK
<1>2. pc # "idle" /\ pc' # "idle"
  BY <1>1 DEF NextRequest
<1>3. todo' = todo /\ reads' = reads /\ Results' = Results
  BY DEF NextRequest, command, response, target, Results
<1> QED BY <1>2, <1>3, Stutters

LEMMA RetryAccess == ASSUME TransferInv, Retry PROVE Access
<1>1. PICK reply \in Replies : Retried(reply) /\ Answers(reply)
  BY DEF Retry
<1>2. reads' = reads /\ rdbuff' = rdbuff
  BY <1>1, AnswerFacts DEF Retry, Retried
<1>3. Results' = Results /\ todo' = todo /\ pc' = pc
  BY <1>2 DEF Retry, response, command, Results
<1> QED BY <1>2, <1>3, Stutters

(* The posted value is lost, and with it the last result. *)
LEMMA BreakAccess == ASSUME TransferInv, Break PROVE Access
<1>1. PICK reply \in Replies : reply.ack # "OK" /\ Answers(reply)
  BY DEF Break
<1>2. reads' \in {reads, reads + 1}
  BY <1>1, AnswerFacts DEF Break
<1>3. Results' = words
  BY DEF Break, Results
<1>4. words \in Seq(Int) /\ rdbuff \in Int
  BY DEF TransferInv, TypeOK
<1>5. /\ Append(words, rdbuff) # << >>
      /\ SubSeq(Append(words, rdbuff), 1, Len(Append(words, rdbuff)) - 1) = words
  BY <1>4
<1>6. Results' \in {Results} \cup
                   (IF Results = << >> THEN {} ELSE {SubSeq(Results, 1, Len(Results) - 1)})
  BY <1>3, <1>5 DEF Results
<1>7. pc # "idle" /\ pc' # "idle" /\ todo' = << >>
  BY DEF Break, Asking
<1>8. Registers!Fail
  BY <1>2, <1>6, <1>7 DEF Registers!Fail, Results
<1> QED BY <1>7, <1>8 DEF Access, Registers!Next

LEMMA FetchAccess == ASSUME TransferInv, Fetch PROVE Access
<1>1. PICK reply \in Replies : Done(reply) /\ Store(reply.value)
  BY DEF Fetch
<1>2. pc \in Asking /\ Wanted = RDBUFF /\ ~(Wanted.rnw /\ Wanted.ap)
  BY BufferFields DEF Fetch, Asking, Wanted
<1>3. reply.value = rdbuff /\ reads' = reads /\ rdbuff' = rdbuff
  BY <1>1, <1>2, AnswerFacts DEF Done
<1>4. post_read /\ ~post_read' /\ words' = Append(words, rdbuff)
  BY <1>1, <1>3 DEF TransferInv, PlaceInv, Fetch, Store
<1>5. Results' = Results
  BY <1>4 DEF Results
<1>6. Own(Head(todo)) # "idle"
  BY SeqFacts, RequestKind DEF TransferInv, TypeOK, PlaceInv, Fetch
<1>7. pc # "idle" /\ pc' # "idle" /\ todo' = todo
  BY <1>6 DEF Fetch, command
<1> QED BY <1>3, <1>5, <1>7, Stutters

LEMMA PipelineAccess == ASSUME TransferInv, Pipeline PROVE Access
<1>1. PICK reply \in Replies : Done(reply) /\ Store(reply.value)
  BY DEF Pipeline
<1>2. /\ pc \in Asking /\ Wanted = Head(todo) /\ todo # << >>
      /\ Head(todo).rnw /\ Head(todo).ap /\ ~Head(todo).match
  BY InHand DEF Pipeline, Asking
<1>3. reply.value = rdbuff /\ reads' = reads + 1 /\ rdbuff' = reads + 1
  BY <1>1, <1>2, AnswerFacts DEF Done
<1>4. post_read /\ post_read' /\ words' = Append(words, rdbuff)
  BY <1>1, <1>3 DEF TransferInv, PlaceInv, Pipeline, Store
<1>5. Results' = Append(Results, reads')
  BY <1>3, <1>4 DEF Results
<1>6. todo' = Tail(todo) /\ pc # "idle" /\ pc' # "idle"
  BY DEF Pipeline, Completed
<1>7. Registers!ReadAP
  BY <1>2, <1>3, <1>5, <1>6 DEF Registers!ReadAP, Results
<1> QED BY <1>6, <1>7 DEF Access, Registers!Next

LEMMA PostAccess == ASSUME TransferInv, Post PROVE Access
<1>1. PICK reply \in Replies : Done(reply)
  BY DEF Post
<1>2. /\ pc \in Asking /\ Wanted = Head(todo) /\ todo # << >>
      /\ Head(todo).rnw /\ Head(todo).ap /\ ~Head(todo).match
  BY InHand DEF Post, Asking
<1>3. reads' = reads + 1 /\ rdbuff' = reads + 1
  BY <1>1, <1>2, AnswerFacts DEF Done
<1>4. ~post_read /\ post_read' /\ words' = words
  BY DEF TransferInv, PlaceInv, Post
<1>5. Results' = Append(Results, reads')
  BY <1>3, <1>4 DEF Results
<1>6. todo' = Tail(todo) /\ pc # "idle" /\ pc' # "idle"
  BY DEF Post, Completed
<1>7. Registers!ReadAP
  BY <1>2, <1>3, <1>5, <1>6 DEF Registers!ReadAP, Results
<1> QED BY <1>6, <1>7 DEF Access, Registers!Next

(* A plain read of the debug port is of its status. *)
LEMMA StatusRead ==
    ASSUME NEW q \in Requests, q.rnw, ~q.ap
    PROVE  IsStatus(q)
BY RequestKind DEF IsStatus

LEMMA ReadAccess == ASSUME TransferInv, Read PROVE Access
<1>1. PICK reply \in Replies : Done(reply) /\ Store(reply.value)
  BY DEF Read
<1>2. /\ pc \in Asking /\ Wanted = Head(todo) /\ todo # << >> /\ Head(todo) \in Requests
      /\ Head(todo).rnw /\ ~Head(todo).ap /\ ~Head(todo).match
  BY InHand DEF Read, Asking
<1>3. reply.value \in {0, -1} /\ reads' = reads
  BY <1>1, <1>2, AnswerFacts, StatusRead DEF Done
<1>4. ~post_read /\ ~post_read' /\ words' = Append(words, reply.value)
  BY <1>1 DEF TransferInv, PlaceInv, Read, Store
<1>5. Results' \in {Append(Results, value) : value \in {0, -1}}
  BY <1>3, <1>4 DEF Results
<1>6. todo' = Tail(todo) /\ pc # "idle" /\ pc' # "idle"
  BY DEF Read, Completed
<1>7. Registers!ReadDP
  BY <1>2, <1>3, <1>5, <1>6 DEF Registers!ReadDP, Results
<1> QED BY <1>6, <1>7 DEF Access, Registers!Next

LEMMA MatchPostAccess == ASSUME TransferInv, MatchPost PROVE Access
<1>1. PICK reply \in Replies : Done(reply)
  BY DEF MatchPost
<1>2. /\ pc \in Asking /\ Wanted = Head(todo) /\ todo # << >>
      /\ Head(todo).rnw /\ Head(todo).ap /\ Head(todo).match
  BY InHand DEF MatchPost, Asking
<1>3. reads' = reads + 1
  BY <1>1, <1>2, AnswerFacts DEF Done
<1>4. Results' = Results /\ todo' = todo /\ pc # "idle" /\ pc' # "idle"
  BY DEF TransferInv, PlaceInv, MatchPost, Results, command
<1>5. Registers!Poll
  BY <1>2, <1>3, <1>4 DEF Registers!Poll, Results
<1> QED BY <1>4, <1>5 DEF Access, Registers!Next

LEMMA MatchReadAccess == ASSUME TransferInv, MatchRead PROVE Access
<1>1. PICK reply \in Replies :
        /\ Done(reply)
        /\ \/ Completed
           \/ UNCHANGED <<pc, todo>>
           \/ pc' = "end" /\ todo' = << >>
  BY DEF MatchRead
<1>2. /\ pc \in Asking /\ Wanted = Head(todo) /\ todo # << >> /\ Head(todo) \in Requests
      /\ Head(todo).rnw /\ Head(todo).match /\ Head(todo).ap \in BOOLEAN
  BY InHand, RequestFields DEF MatchRead, Asking
<1>3. /\ Head(todo).ap => reads' = reads + 1
      /\ ~Head(todo).ap => reads' = reads
  BY <1>1, <1>2, AnswerFacts DEF Done
<1>4. Results' = Results /\ pc # "idle" /\ pc' # "idle"
  BY <1>1 DEF TransferInv, PlaceInv, MatchRead, Results, Completed
<1>5. CASE Head(todo).ap /\ (Completed \/ UNCHANGED <<pc, todo>>)
  <2>1. Registers!Poll
    BY <1>2, <1>3, <1>4, <1>5 DEF Registers!Poll, Results, Completed
  <2> QED BY <1>4, <2>1 DEF Access, Registers!Next
<1>6. CASE ~Head(todo).ap /\ Completed
  <2>1. Registers!Do
    BY <1>2, <1>3, <1>4, <1>6 DEF Registers!Do, Results, Completed
  <2> QED BY <1>4, <2>1 DEF Access, Registers!Next
<1>7. CASE ~Head(todo).ap /\ UNCHANGED <<pc, todo>>
  BY <1>3, <1>4, <1>7, Stutters
<1>8. CASE pc' = "end" /\ todo' = << >>
  <2>1. Registers!Fail
    BY <1>2, <1>3, <1>4, <1>8 DEF Registers!Fail, Results
  <2> QED BY <1>4, <2>1 DEF Access, Registers!Next
<1> QED BY <1>1, <1>2, <1>5, <1>6, <1>7, <1>8

LEMMA MaskWriteAccess == ASSUME TransferInv, MaskWrite PROVE Access
<1>1. todo # << >> /\ ~Head(todo).rnw
  BY InHand DEF MaskWrite
<1>2. Results' = Results /\ reads' = reads /\ todo' = Tail(todo) /\ pc # "idle" /\ pc' # "idle"
  BY DEF MaskWrite, Completed, Results, target
<1>3. Registers!Do
  BY <1>1, <1>2 DEF Registers!Do, Results
<1> QED BY <1>2, <1>3 DEF Access, Registers!Next

LEMMA WriteAccess == ASSUME TransferInv, Write PROVE Access
<1>1. PICK reply \in Replies : Done(reply)
  BY DEF Write
<1>2. pc \in Asking /\ Wanted = Head(todo) /\ todo # << >> /\ ~Head(todo).rnw
  BY InHand DEF Write, Asking
<1>3. reads' = reads
  BY <1>1, <1>2, AnswerFacts DEF Done
<1>4. Results' = Results /\ todo' = Tail(todo) /\ pc # "idle" /\ pc' # "idle"
  BY DEF TransferInv, PlaceInv, Write, Completed, Results
<1>5. Registers!Do
  BY <1>2, <1>3, <1>4 DEF Registers!Do, Results
<1> QED BY <1>4, <1>5 DEF Access, Registers!Next

LEMMA LastAccess == ASSUME TransferInv, Last PROVE Access
<1>1. PICK reply \in Replies : Done(reply) /\ Store(reply.value)
  BY DEF Last
<1>2. pc \in Asking /\ Wanted = RDBUFF /\ ~(Wanted.rnw /\ Wanted.ap)
  BY BufferFields DEF Last, Asking, Wanted
<1>3. reply.value = rdbuff /\ reads' = reads /\ rdbuff' = rdbuff
  BY <1>1, <1>2, AnswerFacts DEF Done
<1>4. post_read /\ ~post_read' /\ words' = Append(words, rdbuff)
  BY <1>1, <1>3 DEF TransferInv, PlaceInv, Last, Store
<1>5. Results' = Results
  BY <1>4 DEF Results
<1>6. pc # "idle" /\ pc' # "idle" /\ todo' = todo
  BY DEF Last, command
<1> QED BY <1>3, <1>5, <1>6, Stutters

LEMMA CheckAccess == ASSUME TransferInv, Check PROVE Access
<1>1. PICK reply \in Replies : Done(reply)
  BY DEF Check
<1>2. pc \in Asking /\ Wanted = RDBUFF /\ ~(Wanted.rnw /\ Wanted.ap)
  BY BufferFields DEF Check, Asking, Wanted
<1>3. reads' = reads
  BY <1>1, <1>2, AnswerFacts DEF Done
<1>4. Results' = Results /\ pc # "idle" /\ pc' # "idle" /\ todo' = todo
  BY DEF TransferInv, PlaceInv, Check, Results, command
<1> QED BY <1>3, <1>4, Stutters

(* In a block the request in hand is the first of those left. *)
LEMMA BlockHead ==
    ASSUME TransferInv, pc \in {"block_post", "block_read", "block_write"}, todo # << >>
    PROVE  Wanted = Head(todo) /\ Head(todo) = asked[1] /\ Head(todo) \in Requests
BY BlockRest, SeqFacts DEF TransferInv, TypeOK, BlockInv, Wanted

LEMMA BlockPostAccess == ASSUME TransferInv, BlockPost PROVE Access
<1>1. PICK reply \in Replies : Done(reply)
  BY DEF BlockPost
<1>2. /\ pc \in Asking /\ Wanted = Head(todo) /\ todo # << >> /\ ~post_read
      /\ Head(todo).rnw /\ Head(todo).ap /\ ~Head(todo).match
  BY BlockHead DEF TransferInv, BlockInv, BlockPost, Asking
<1>3. reads' = reads + 1 /\ rdbuff' = reads + 1
  BY <1>1, <1>2, AnswerFacts DEF Done
<1>4. Results' = Append(Results, reads')
  BY <1>2, <1>3 DEF Results, BlockPost
<1>5. todo' = Tail(todo) /\ pc # "idle" /\ pc' # "idle"
  BY DEF BlockPost
<1>6. Registers!ReadAP
  BY <1>2, <1>3, <1>4, <1>5 DEF Registers!ReadAP, Results
<1> QED BY <1>5, <1>6 DEF Access, Registers!Next

LEMMA BlockReadAccess == ASSUME TransferInv, BlockRead PROVE Access
<1>1. PICK reply \in Replies : Done(reply) /\ Store(reply.value)
  BY DEF BlockRead
<1>2. pc \in Asking /\ pc # "idle" /\ pc' # "idle"
  BY DEF BlockRead, Asking
<1>3. CASE todo = << >>
  <2>1. Wanted = RDBUFF /\ ~(Wanted.rnw /\ Wanted.ap) /\ post_read
    <3>1. pc = "block_read" /\ post_read
      BY <1>3 DEF TransferInv, BlockInv, BlockRead
    <3>2. Wanted = RDBUFF
      BY <1>3, <3>1 DEF Wanted
    <3> QED BY <3>1, <3>2, BufferFields
  <2>2. reply.value = rdbuff /\ reads' = reads /\ rdbuff' = rdbuff
    BY <1>1, <1>2, <2>1, AnswerFacts DEF Done
  <2>3. ~post_read' /\ words' = Append(words, rdbuff) /\ todo' = todo
    BY <1>1, <1>3, <2>2 DEF BlockRead, Store
  <2>4. Results' = Results
    BY <2>1, <2>3 DEF Results
  <2> QED BY <1>2, <2>2, <2>3, <2>4, Stutters
<1>4. CASE todo # << >> /\ post_read
  <2>1. Wanted = Head(todo) /\ Head(todo).rnw /\ Head(todo).ap /\ ~Head(todo).match
    BY <1>4, BlockHead DEF TransferInv, BlockInv, BlockRead
  <2>2. reply.value = rdbuff /\ reads' = reads + 1 /\ rdbuff' = reads + 1
    BY <1>1, <1>2, <2>1, AnswerFacts DEF Done
  <2>3. post_read' /\ words' = Append(words, rdbuff) /\ todo' = Tail(todo)
    BY <1>1, <1>4, <2>2 DEF BlockRead, Store
  <2>4. Results' = Append(Results, reads')
    BY <1>4, <2>2, <2>3 DEF Results
  <2>5. Registers!ReadAP
    BY <1>2, <1>4, <2>1, <2>2, <2>3, <2>4 DEF Registers!ReadAP, Results
  <2> QED BY <1>2, <2>5 DEF Access, Registers!Next
<1>5. CASE todo # << >> /\ ~post_read
  <2>1. /\ Wanted = Head(todo) /\ Head(todo).rnw /\ ~Head(todo).ap /\ ~Head(todo).match
        /\ Head(todo) \in Requests
    BY <1>5, BlockHead DEF TransferInv, BlockInv, BlockRead
  <2>2. reply.value \in {0, -1} /\ reads' = reads
    BY <1>1, <1>2, <2>1, AnswerFacts, StatusRead DEF Done
  <2>3. ~post_read' /\ words' = Append(words, reply.value) /\ todo' = Tail(todo)
    BY <1>1, <1>5 DEF BlockRead, Store
  <2>4. Results' \in {Append(Results, value) : value \in {0, -1}}
    BY <1>5, <2>2, <2>3 DEF Results
  <2>5. Registers!ReadDP
    BY <1>2, <1>5, <2>1, <2>2, <2>3, <2>4 DEF Registers!ReadDP, Results
  <2> QED BY <1>2, <2>5 DEF Access, Registers!Next
<1> QED BY <1>3, <1>4, <1>5

LEMMA BlockWriteAccess == ASSUME TransferInv, BlockWrite PROVE Access
<1>1. PICK reply \in Replies : Done(reply)
  BY DEF BlockWrite
<1>2. pc \in Asking /\ Wanted = Head(todo) /\ todo # << >> /\ ~Head(todo).rnw
  BY BlockHead DEF TransferInv, BlockInv, BlockWrite, Asking
<1>3. reads' = reads
  BY <1>1, <1>2, AnswerFacts DEF Done
<1>4. Results' = Results /\ todo' = Tail(todo) /\ pc # "idle" /\ pc' # "idle"
  BY DEF TransferInv, BlockInv, BlockWrite, Results
<1>5. Registers!Do
  BY <1>2, <1>3, <1>4 DEF Registers!Do, Results
<1> QED BY <1>4, <1>5 DEF Access, Registers!Next

LEMMA EndAccess == ASSUME TransferInv, End PROVE Access
<1>1. todo = << >> /\ todo' = << >> /\ pc # "idle" /\ pc' = "idle"
  BY DEF TransferInv, PlaceInv, End, Forget
<1>2. reads' = 0 /\ Results' = << >>
  BY DEF End, Forget, Results
<1>3. Registers!Answer
  BY <1>1, <1>2 DEF Registers!Answer, Results
<1> QED BY <1>1, <1>3 DEF Access, Registers!Next

LEMMA StepAccess == ASSUME TransferInv, TransferStep PROVE Access
BY RetryAccess, BreakAccess, FetchAccess, NextAccess, PipelineAccess, PostAccess, ReadAccess,
   MatchPostAccess, MatchReadAccess, MaskWriteAccess, WriteAccess, LastAccess, CheckAccess,
   BlockPostAccess, BlockReadAccess, BlockWriteAccess, EndAccess DEF TransferStep

LEMMA NextIsAccess == ASSUME TransferInv, [Next]_vars PROVE Access
<1>1. CASE UNCHANGED <<pc, todo, reads, words, post_read, rdbuff>>
  <2>1. Results' = Results
    BY <1>1 DEF Results
  <2> QED BY <1>1, <2>1, Stutters
<1>2. CASE DAP_Transfer
  <2>1. PICK n \in 0 .. MaxRequests : \E qs \in [1 .. n -> Requests] : Transfer(qs)
    BY <1>2 DEF DAP_Transfer
  <2>2. PICK qs \in [1 .. n -> Requests] : Begin(qs, "next")
    BY <2>1 DEF Transfer
  <2>3. qs \in Seq(Requests)
    BY RetriesAssumption
  <2> QED BY <2>2, <2>3, BeginAccess
<1>3. CASE DAP_TransferBlock
  <2>1. PICK q \in Kinds, n \in 0 .. MaxRequests : TransferBlock(q, n)
    BY <1>3 DEF DAP_TransferBlock
  <2>2. [i \in 1 .. n |-> q] \in Seq(Requests)
    BY RetriesAssumption DEF Kinds
  <2>3. PICK first \in {"end", "block_write", "block_post", "block_read"} :
          Begin([i \in 1 .. n |-> q], first)
    BY <2>1 DEF TransferBlock
  <2> QED BY <2>2, <2>3, BeginAccess
<1>4. CASE Answer \/ Local
  BY <1>4, StepAccess DEF Answer, Local
<1> QED BY <1>1, <1>2, <1>3, <1>4
        DEF Next, vars, transfer_vars, command, locals, response, target, Setup, Connect, Disconnect,
            Configure, TransferConfigure, DAP_WriteAbort, WriteAbort, SWJ_Clock, SWD_Sequence, Work, Turn

(* A command's requests are done as a plain sequence of accesses would do  *)
(* them, in order, none twice, each read with its own value, although      *)
(* DAP.c:719 and :1332 read one register's value with the next access and  *)
(* DAP.c:841 may have to fetch the last from RDBUFF.                       *)
THEOREM AccessInOrder == Spec => ImplementsAccess
<1>1. Init => Registers!Init
  BY DEF Init, TransferInit, Registers!Init
<1>2. SafeInv /\ [Next]_vars => [Registers!Next]_Registers!vars
  BY NextIsAccess DEF SafeInv, Access
<1> QED BY <1>1, <1>2, Safe, PTL DEF Spec, ImplementsAccess, Registers!Spec

-----------------------------------------------------------------------------
(* The words of a response and its count: in the loop over the requests    *)
(* what is done is what is counted, and its reads have given their words,  *)
(* but for the posted one; a block counts a read when its word is there.   *)

Blocks == {"block_post", "block_read", "block_write", "block_check"}

Posted == IF post_read THEN 1 ELSE 0

LoopWords ==
    /\ response_count + Len(todo) = Len(asked)
    /\ \A i \in 1 .. Len(todo) : todo[i] = asked[response_count + i]
    /\ Len(words) + Posted = Counted(response_count)

BlockWords ==
    /\ response_count + Len(todo) + Posted = Len(asked)
    /\ \A i \in 1 .. Len(asked) : asked[i] = asked[1]
    /\ Len(words) = Counted(response_count)

WordsInv ==
    /\ pc = "idle" => words = << >> /\ response_count = 0
    /\ pc \in {"next", "mask"} \cup (Asking \ Blocks) => LoopWords
    /\ pc \in Blocks => BlockWords
    /\ WordsOfCount


LEMMA CountedType == ASSUME NEW n \in Nat PROVE Counted(n) \in Nat
<1> DEFINE T == {i \in 1 .. n : IsRead(asked[i])}
<1>1. IsFiniteSet(1 .. n) /\ T \in SUBSET (1 .. n)
  BY FS_Interval
<1>2. IsFiniteSet(T)
  BY <1>1, FS_Subset
<1>3. Cardinality(T) \in Nat
  BY <1>2, FS_CardinalityType
<1> QED BY <1>3 DEF Counted

LEMMA CountedNone == Counted(0) = 0
<1>1. {i \in 1 .. 0 : IsRead(asked[i])} = {}
  OBVIOUS
<1> QED BY <1>1, FS_EmptySet DEF Counted

(* One request more *)
LEMMA CountedNext ==
    ASSUME NEW n \in Nat
    PROVE  Counted(n + 1) = IF IsRead(asked[n + 1]) THEN Counted(n) + 1 ELSE Counted(n)
<1> DEFINE T == {i \in 1 .. n : IsRead(asked[i])}
           U == {i \in 1 .. n + 1 : IsRead(asked[i])}
<1>1. IsFiniteSet(T)
  <2>1. IsFiniteSet(1 .. n) /\ T \in SUBSET (1 .. n)
    BY FS_Interval
  <2> QED BY <2>1, FS_Subset
<1>2. n + 1 \notin T
  OBVIOUS
<1>3. CASE IsRead(asked[n + 1])
  <2>1. U = T \cup {n + 1}
    BY <1>3
  <2> HIDE DEF T, U
  <2>2. Cardinality(U) = Cardinality(T) + 1
    BY <1>1, <1>2, <2>1, FS_AddElement
  <2> QED BY <1>3, <2>2 DEF Counted, T, U
<1>4. CASE ~IsRead(asked[n + 1])
  <2>1. U = T
    BY <1>4
  <2> QED BY <1>4, <2>1 DEF Counted
<1> QED BY <1>3, <1>4

LEMMA SameCount ==
    ASSUME UNCHANGED asked, NEW n, response_count' = n
    PROVE  Counted(response_count)' = Counted(n)
BY DEF Counted

LEMMA WordTypes ==
    ASSUME TypeOK
    PROVE  /\ asked \in Seq(Requests) /\ todo \in Seq(Requests) /\ words \in Seq(Int)
           /\ Len(asked) \in Nat /\ Len(todo) \in Nat /\ Len(words) \in Nat
           /\ response_count \in Nat /\ Counted(response_count) \in Nat
           /\ Posted \in {0, 1} /\ (post_read <=> Posted = 1)
<1>1. /\ asked \in Seq(Requests) /\ todo \in Seq(Requests) /\ words \in Seq(Int)
      /\ response_count \in Nat /\ post_read \in BOOLEAN
  BY DEF TypeOK
<1>2. Len(asked) \in Nat /\ Len(todo) \in Nat /\ Len(words) \in Nat
  BY <1>1
<1>3. Posted \in {0, 1} /\ (post_read <=> Posted = 1)
  BY <1>1 DEF Posted
<1> QED BY <1>1, <1>2, <1>3, CountedType

LEMMA Stored ==
    ASSUME TypeOK, NEW value \in Int, Store(value)
    PROVE  Len(words') = Len(words) + 1
BY DEF TypeOK, Store

(* What the loop has done with the request in hand *)
LEMMA LoopGoesOn ==
    ASSUME TypeOK, LoopWords, todo # << >>, UNCHANGED asked,
           todo' = Tail(todo), response_count' = response_count + 1,
           Len(words') + Posted' = Len(words) + Posted + (IF IsRead(Head(todo)) THEN 1 ELSE 0)
    PROVE  LoopWords'
<1>1. /\ Len(todo') = Len(todo) - 1 /\ Head(todo) = todo[1] /\ 1 \in 1 .. Len(todo)
      /\ \A i \in 1 .. Len(todo') : todo'[i] = todo[i + 1] /\ i + 1 \in 1 .. Len(todo)
  BY WordTypes, SeqFacts
<1>2. Head(todo) = asked[response_count + 1]
  BY <1>1 DEF LoopWords
<1>3. Counted(response_count + 1) =
          IF IsRead(Head(todo)) THEN Counted(response_count) + 1 ELSE Counted(response_count)
  BY <1>2, CountedNext, WordTypes
<1>4. Len(words') + Posted' = Counted(response_count)'
  <2>1. Counted(response_count)' = Counted(response_count + 1)
    BY SameCount
  <2>2. Len(words) + Posted = Counted(response_count)
    BY DEF LoopWords
  <2>3. Counted(response_count) \in Nat
    BY WordTypes
  <2> QED BY <1>3, <2>1, <2>2, <2>3
<1>5. response_count' + Len(todo') = Len(asked')
  BY <1>1, WordTypes DEF LoopWords
<1>6. \A i \in 1 .. Len(todo') : todo'[i] = asked'[response_count' + i]
  <2> SUFFICES ASSUME NEW i \in 1 .. Len(todo') PROVE todo'[i] = asked'[response_count' + i]
    OBVIOUS
  <2>1. todo'[i] = todo[i + 1] /\ i + 1 \in 1 .. Len(todo)
    BY <1>1
  <2>2. todo[i + 1] = asked[response_count + (i + 1)]
    BY <2>1 DEF LoopWords
  <2>3. response_count + (i + 1) = response_count' + i
    BY WordTypes
  <2> QED BY <2>1, <2>2, <2>3
<1> QED BY <1>4, <1>5, <1>6 DEF LoopWords

LEMMA LoopStays ==
    ASSUME LoopWords, UNCHANGED <<asked, todo, response_count>>,
           Len(words') + Posted' = Len(words) + Posted
    PROVE  LoopWords'
BY SameCount DEF LoopWords

(* The request in hand is done: the next, if any. *)
LEMMA LoopCompleted ==
    ASSUME TransferInv, LoopWords, Completed, UNCHANGED asked,
           pc \in {"pipeline", "post", "read", "match_read", "write", "mask"},
           Len(words') + Posted' =
               Len(words) + Posted + (IF pc \in {"pipeline", "post", "read"} THEN 1 ELSE 0)
    PROVE  WordsInv'
<1>1. todo # << >> /\ (IsRead(Head(todo)) <=> pc \in {"pipeline", "post", "read"})
  BY InHand DEF IsRead
<1>2. LoopWords'
  BY <1>1, LoopGoesOn DEF TransferInv, Completed
<1> QED BY <1>2 DEF WordsInv, WordsOfCount, Completed, Blocks

LEMMA WordsStay ==
    ASSUME WordsInv,
           UNCHANGED <<asked, todo, pc, post_read, words, response_count, response_value, mismatch>>
    PROVE  WordsInv'
<1>1. Counted(response_count)' = Counted(response_count)
  BY SameCount
<1> QED BY <1>1 DEF WordsInv, LoopWords, BlockWords, WordsOfCount, Posted

(* How many words there are at any time *)
LEMMA WordsSoFar ==
    ASSUME TransferInv, WordsInv, pc # "idle"
    PROVE  /\ response_count <= Len(asked)
           /\ Len(words) \in {Counted(response_count) - 1, Counted(response_count)}
<1>1. pc \in {"next", "mask", "end"} \cup Asking
  BY DEF TransferInv, TypeOK
<1>2. CASE pc \in {"next", "mask"} \cup (Asking \ Blocks)
  BY <1>2, WordTypes DEF WordsInv, LoopWords, TransferInv
<1>3. CASE pc \in Blocks
  BY <1>3, WordTypes DEF WordsInv, BlockWords, TransferInv
<1>4. CASE pc = "end"
  BY <1>4 DEF WordsInv, WordsOfCount
<1> QED BY <1>1, <1>2, <1>3, <1>4

(* The command ends with no more words and no more done. *)
LEMMA EndsShort ==
    ASSUME TransferInv, WordsInv, pc # "idle", pc' = "end",
           UNCHANGED <<asked, words, response_count>>, response_value' # "OK" \/ mismatch'
    PROVE  WordsInv'
<1>1. Counted(response_count)' = Counted(response_count)
  BY SameCount
<1> QED BY <1>1, WordsSoFar DEF WordsInv, WordsOfCount, Asking, Blocks

LEMMA EndsWhole ==
    ASSUME pc' = "end", response_count' <= Len(asked'),
           Len(words') = Counted(response_count)',
           response_value' = "OK" /\ ~mismatch' => response_count' = Len(asked')
    PROVE  WordsInv'
BY DEF WordsInv, WordsOfCount, Asking, Blocks

LEMMA BreakWords == ASSUME TransferInv, WordsInv, Break PROVE WordsInv'
<1>1. pc # "idle"
  BY DEF Break, Asking
<1> QED BY <1>1, EndsShort DEF Break

LEMMA InLoop ==
    ASSUME WordsInv, pc \in {"next", "mask", "fetch", "pipeline", "post", "read", "match_post",
                             "match_read", "write", "last", "check"}
    PROVE  LoopWords
BY DEF WordsInv, Asking, Blocks

LEMMA StaysInLoop ==
    ASSUME LoopWords', pc' \in {"next", "mask", "fetch", "pipeline", "post", "read", "match_post",
                                "match_read", "write", "last", "check"}
    PROVE  WordsInv'
BY DEF WordsInv, WordsOfCount, Blocks

(* All requests are done, and none is posted. *)
LEMMA LoopEnds ==
    ASSUME TransferInv, LoopWords, todo = << >>, pc' = "end", UNCHANGED <<asked, response_count>>,
           Len(words') = Len(words) + Posted
    PROVE  WordsInv'
<1>1. Counted(response_count)' = Counted(response_count)
  BY SameCount
<1>2. response_count' = Len(asked')
  BY WordTypes DEF LoopWords, TransferInv
<1>3. Len(words') = Counted(response_count)'
  BY <1>1 DEF LoopWords
<1>4. Len(asked') \in Nat
  BY WordTypes DEF TransferInv
<1> QED BY <1>2, <1>3, <1>4, EndsWhole

LEMMA NextWords == ASSUME TransferInv, WordsInv, NextRequest PROVE WordsInv'
<1>1. LoopWords
  BY InLoop DEF NextRequest
<1>2. UNCHANGED <<asked, todo, post_read, words, response_count>>
  BY DEF NextRequest, command, response
<1>3. Posted' = Posted /\ Len(words) \in Nat /\ Posted \in {0, 1}
  BY <1>2, WordTypes DEF Posted, TransferInv
<1>4. todo # << >> =>
        Own(Head(todo)) \in {"post", "read", "match_post", "match_read", "write", "mask"}
  BY SeqFacts, RequestKind DEF TransferInv, TypeOK
<1>5. CASE pc' = "end"
  <2>1. todo = << >> /\ ~post_read
    BY <1>4, <1>5 DEF NextRequest
  <2> QED BY <1>1, <1>2, <1>3, <1>5, <2>1, LoopEnds DEF Posted
<1>6. CASE pc' # "end"
  <2>1. LoopWords'
    BY <1>1, <1>2, <1>3, LoopStays
  <2> QED BY <1>4, <1>6, <2>1, StaysInLoop DEF NextRequest
<1> QED BY <1>5, <1>6

(* The value of an answer is a word. *)
LEMMA OneWord ==
    ASSUME TransferInv, pc \in Asking, \E reply \in Replies : Done(reply) /\ Store(reply.value)
    PROVE  Len(words') = Len(words) + 1
BY DoneFacts, Stored DEF TransferInv

LEMMA FetchWords == ASSUME TransferInv, WordsInv, Fetch PROVE WordsInv'
<1>1. LoopWords /\ post_read
  BY InLoop DEF Fetch, TransferInv, PlaceInv
<1>2. Len(words') = Len(words) + 1 /\ ~post_read'
  BY OneWord DEF Fetch, Asking
<1>3. Len(words') + Posted' = Len(words) + Posted
  BY <1>1, <1>2, WordTypes DEF Posted, TransferInv
<1>4. LoopWords'
  BY <1>1, <1>3, LoopStays DEF Fetch, command
<1>5. pc' \in {"post", "read", "match_post", "match_read", "write", "mask"}
  BY SeqFacts, RequestKind DEF TransferInv, TypeOK, PlaceInv, Fetch
<1> QED BY <1>4, <1>5, StaysInLoop

LEMMA PipelineWords == ASSUME TransferInv, WordsInv, Pipeline PROVE WordsInv'
<1>1. LoopWords
  BY InLoop DEF Pipeline
<1>2. Len(words') = Len(words) + 1 /\ Posted' = Posted
  BY OneWord DEF Pipeline, Asking, Posted
<1> QED BY <1>1, <1>2, LoopCompleted, WordTypes DEF Pipeline, TransferInv

LEMMA PostWords == ASSUME TransferInv, WordsInv, Post PROVE WordsInv'
<1>1. LoopWords
  BY InLoop DEF Post
<1>2. Posted' = Posted + 1
  BY DEF Post, Posted, TransferInv, PlaceInv
<1> QED BY <1>1, <1>2, LoopCompleted, WordTypes DEF Post, TransferInv

LEMMA ReadWords == ASSUME TransferInv, WordsInv, Read PROVE WordsInv'
<1>1. LoopWords
  BY InLoop DEF Read
<1>2. Len(words') = Len(words) + 1 /\ Posted' = Posted
  BY OneWord DEF Read, Asking, Posted
<1> QED BY <1>1, <1>2, LoopCompleted, WordTypes DEF Read, TransferInv

LEMMA MatchPostWords == ASSUME TransferInv, WordsInv, MatchPost PROVE WordsInv'
<1>1. LoopWords
  BY InLoop DEF MatchPost
<1>2. LoopWords'
  BY <1>1, LoopStays DEF MatchPost, command, Posted
<1> QED BY <1>2, StaysInLoop DEF MatchPost

LEMMA MatchReadWords == ASSUME TransferInv, WordsInv, MatchRead PROVE WordsInv'
<1>1. LoopWords
  BY InLoop DEF MatchRead
<1>2. \/ Completed
      \/ UNCHANGED <<pc, todo, response_count>>
      \/ mismatch' /\ pc' = "end" /\ UNCHANGED response_count
  BY DEF MatchRead
<1>3. UNCHANGED <<asked, words, post_read>> /\ Posted' = Posted /\ pc = "match_read"
  BY DEF MatchRead, Posted
<1>4. CASE Completed
  BY <1>1, <1>3, <1>4, LoopCompleted, WordTypes DEF TransferInv
<1>5. CASE UNCHANGED <<pc, todo, response_count>>
  <2>1. LoopWords'
    BY <1>1, <1>3, <1>5, LoopStays
  <2> QED BY <1>3, <1>5, <2>1, StaysInLoop
<1>6. CASE mismatch' /\ pc' = "end" /\ UNCHANGED response_count
  BY <1>3, <1>6, EndsShort
<1> QED BY <1>2, <1>4, <1>5, <1>6

LEMMA MaskWords == ASSUME TransferInv, WordsInv, MaskWrite PROVE WordsInv'
<1>1. LoopWords
  BY InLoop DEF MaskWrite
<1>2. Posted' = Posted
  BY DEF MaskWrite, Posted
<1> QED BY <1>1, <1>2, LoopCompleted, WordTypes DEF MaskWrite, TransferInv

LEMMA WriteWords == ASSUME TransferInv, WordsInv, Write PROVE WordsInv'
<1>1. LoopWords
  BY InLoop DEF Write
<1>2. Posted' = Posted
  BY DEF Write, Posted
<1> QED BY <1>1, <1>2, LoopCompleted, WordTypes DEF Write, TransferInv

LEMMA LastWords == ASSUME TransferInv, WordsInv, Last PROVE WordsInv'
<1>1. LoopWords /\ todo = << >> /\ post_read
  BY InLoop DEF Last, TransferInv, PlaceInv
<1>2. Len(words') = Len(words) + 1
  BY OneWord DEF Last, Asking
<1> QED BY <1>1, <1>2, LoopEnds DEF Last, command, Posted

LEMMA CheckWords == ASSUME TransferInv, WordsInv, Check PROVE WordsInv'
<1>1. todo = << >> /\ ~post_read /\ Posted = 0
      /\ UNCHANGED <<asked, response_count, words>> /\ pc' = "end"
  BY DEF Check, TransferInv, PlaceInv, command, Posted
<1>2. CASE pc = "check"
  <2>1. LoopWords
    BY <1>2, InLoop
  <2> QED BY <1>1, <2>1, LoopEnds, WordTypes DEF TransferInv
<1>3. CASE pc = "block_check"
  <2>1. BlockWords
    BY <1>3 DEF WordsInv, Blocks
  <2>2. Counted(response_count)' = Counted(response_count)
    BY <1>1, SameCount
  <2>3. response_count' = Len(asked') /\ Len(asked') \in Nat
    BY <1>1, <2>1, WordTypes DEF BlockWords, TransferInv
  <2> QED BY <1>1, <2>1, <2>2, <2>3, EndsWhole DEF BlockWords
<1> QED BY <1>2, <1>3 DEF Check

(* One more of a block is counted: of reads, with its word. *)
LEMMA BlockCounts ==
    ASSUME TransferInv, BlockWords, pc \in {"block_read", "block_write"}, UNCHANGED asked,
           response_count' = response_count + 1,
           Len(words') = Len(words) + (IF pc = "block_read" THEN 1 ELSE 0)
    PROVE  /\ Len(words') = Counted(response_count)'
           /\ response_count' <= Len(asked')
<1>1. response_count + 1 \in 1 .. Len(asked)
  <2>1. todo # << >> \/ post_read
    BY DEF TransferInv, BlockInv
  <2>2. todo # << >> => Len(todo) # 0
    BY DEF TransferInv, TypeOK
  <2> QED BY <2>1, <2>2, WordTypes DEF BlockWords, TransferInv
<1>2. asked[response_count + 1] = asked[1]
  BY <1>1 DEF BlockWords
<1>3. IsRead(asked[1]) <=> pc = "block_read"
  BY DEF TransferInv, BlockInv, IsRead
<1>4. Counted(response_count)' = Counted(response_count + 1)
  BY SameCount
<1>5. Counted(response_count + 1) =
          IF pc = "block_read" THEN Counted(response_count) + 1 ELSE Counted(response_count)
  BY <1>2, <1>3, CountedNext, WordTypes DEF TransferInv
<1>6. Counted(response_count) \in Nat
  BY WordTypes DEF TransferInv
<1>7. Len(words') = Counted(response_count)'
  BY <1>4, <1>5, <1>6 DEF BlockWords
<1> QED BY <1>1, <1>7

LEMMA StaysInBlock ==
    ASSUME BlockWords', pc' \in Blocks
    PROVE  WordsInv'
BY DEF WordsInv, WordsOfCount, Blocks

LEMMA TailLength ==
    ASSUME TypeOK, todo # << >>
    PROVE  Len(Tail(todo)) = Len(todo) - 1
BY SeqFacts DEF TypeOK

LEMMA BlockPostWords == ASSUME TransferInv, WordsInv, BlockPost PROVE WordsInv'
<1>1. BlockWords /\ ~post_read /\ todo # << >>
  BY DEF WordsInv, Blocks, BlockPost, TransferInv, BlockInv
<1>2. /\ Len(todo') = Len(todo) - 1 /\ Posted = 0 /\ Posted' = 1
      /\ UNCHANGED <<asked, words, response_count>> /\ pc' = "block_read"
  BY <1>1, TailLength DEF BlockPost, Posted, TransferInv
<1>3. Counted(response_count)' = Counted(response_count)
  BY <1>2, SameCount
<1>4. BlockWords'
  BY <1>1, <1>2, <1>3, WordTypes DEF BlockWords, TransferInv
<1> QED BY <1>2, <1>4, StaysInBlock DEF Blocks

LEMMA BlockReadWords == ASSUME TransferInv, WordsInv, BlockRead PROVE WordsInv'
<1>1. BlockWords /\ pc = "block_read"
  BY DEF WordsInv, Blocks, BlockRead
<1>2. Len(words') = Len(words) + 1
  BY OneWord DEF BlockRead, Asking
<1>3. UNCHANGED asked /\ response_count' = response_count + 1
  BY DEF BlockRead
<1>4. Len(words') = Counted(response_count)' /\ response_count' <= Len(asked')
  BY <1>1, <1>2, <1>3, BlockCounts
<1>5. Len(todo') + Posted' + 1 = Len(todo) + Posted
  <2>1. CASE todo = << >>
    <3>1. post_read /\ ~post_read' /\ todo' = << >>
      BY <2>1 DEF BlockRead, TransferInv, BlockInv
    <3> QED BY <2>1, <3>1 DEF Posted
  <2>2. CASE todo # << >>
    <3>1. Len(todo') = Len(todo) - 1 /\ Posted' = Posted
      BY <2>2, TailLength DEF BlockRead, Posted, TransferInv
    <3> QED BY <3>1, WordTypes DEF TransferInv
  <2> QED BY <2>1, <2>2
<1>6. Len(todo') \in Nat /\ Posted' \in {0, 1} /\ (post_read' <=> Posted' = 1)
      /\ (todo' = << >> <=> Len(todo') = 0)
  <2>1. TypeOK'
    BY BlockReadInv DEF TransferInv
  <2>2. Posted' \in {0, 1} /\ (post_read' <=> Posted' = 1)
    BY <2>1 DEF TypeOK, Posted
  <2>3. todo' \in Seq(Requests)
    BY <2>1 DEF TypeOK
  <2> QED BY <2>2, <2>3
<1>7. response_count' + Len(todo') + Posted' = Len(asked')
  BY <1>1, <1>3, <1>5, <1>6, WordTypes DEF BlockWords, TransferInv
<1>8. CASE pc' = "block_read"
  <2>1. BlockWords'
    BY <1>1, <1>3, <1>4, <1>7 DEF BlockWords
  <2> QED BY <1>8, <2>1, StaysInBlock DEF Blocks
<1>9. CASE pc' = "end"
  <2>1. todo' = << >> /\ ~post_read'
    BY <1>9 DEF BlockRead
  <2>2. response_count' = Len(asked')
    BY <1>3, <1>6, <1>7, <2>1, WordTypes DEF TransferInv
  <2> QED BY <1>4, <1>9, <2>2, EndsWhole
<1> QED BY <1>8, <1>9 DEF BlockRead

LEMMA BlockWriteWords == ASSUME TransferInv, WordsInv, BlockWrite PROVE WordsInv'
<1>1. BlockWords /\ pc = "block_write" /\ todo # << >>
  BY DEF WordsInv, Blocks, BlockWrite, TransferInv, BlockInv
<1>2. UNCHANGED <<asked, words, post_read>> /\ response_count' = response_count + 1
      /\ Posted' = Posted /\ Len(todo') = Len(todo) - 1
  BY <1>1, TailLength DEF BlockWrite, Posted, TransferInv
<1>3. Len(words') = Counted(response_count)'
  BY <1>1, <1>2, BlockCounts, WordTypes DEF TransferInv
<1>4. BlockWords'
  BY <1>1, <1>2, <1>3, WordTypes DEF BlockWords, TransferInv
<1>5. pc' \in Blocks
  BY DEF BlockWrite, Blocks
<1> QED BY <1>4, <1>5, StaysInBlock

LEMMA StepWords == ASSUME TransferInv, WordsInv, TransferStep PROVE WordsInv'
<1>1. CASE Retry
  BY <1>1, WordsStay DEF Retry, command, response
<1>2. CASE End
  BY <1>2 DEF End, Forget, WordsInv, WordsOfCount, Asking, Blocks
<1> QED BY <1>1, <1>2, NextWords, BreakWords, FetchWords, PipelineWords, PostWords, ReadWords,
       MatchPostWords, MatchReadWords, MaskWords, WriteWords, LastWords, CheckWords,
       BlockPostWords, BlockReadWords, BlockWriteWords DEF TransferStep

(* A command begins with nothing counted. *)
LEMMA BeginWords ==
    ASSUME TransferInv, WordsInv, NEW qs \in Seq(Requests), NEW first, Begin(qs, first)
    PROVE  /\ asked' = qs /\ todo' = qs /\ pc' = first /\ Posted' = 0
           /\ words' = << >> /\ response_count' = 0 /\ Counted(response_count)' = 0
           /\ Len(words') = 0 /\ Len(asked') \in Nat
<1>1. /\ asked' = qs /\ todo' = qs /\ pc' = first
      /\ words' = words /\ response_count' = response_count /\ post_read' = post_read
  BY DEF Begin, response
<1>2. words = << >> /\ response_count = 0 /\ ~post_read
  BY DEF Begin, WordsInv, TransferInv, PlaceInv
<1>3. Counted(response_count)' = 0
  <2>1. {i \in 1 .. response_count' : IsRead(asked'[i])} = {}
    BY <1>1, <1>2
  <2> QED BY <2>1, FS_EmptySet DEF Counted
<1> QED BY <1>1, <1>2, <1>3 DEF Posted

LEMMA TransferWords ==
    ASSUME TransferInv, WordsInv, NEW n \in Nat, NEW qs \in [1 .. n -> Requests], Transfer(qs)
    PROVE  WordsInv'
<1>1. qs \in Seq(Requests)
  OBVIOUS
<1>2. LoopWords' /\ pc' = "next"
  BY <1>1, BeginWords DEF Transfer, LoopWords
<1> QED BY <1>2, StaysInLoop

LEMMA BlockBeginWords ==
    ASSUME TransferInv, WordsInv, NEW q \in Kinds, NEW n \in Nat, TransferBlock(q, n)
    PROVE  WordsInv'
<1> DEFINE qs == [i \in 1 .. n |-> q]
           first == IF n = 0 THEN "end"
                    ELSE IF ~q.rnw THEN "block_write" ELSE IF q.ap THEN "block_post" ELSE "block_read"
<1>1. qs \in Seq(Requests) /\ Len(qs) = n /\ \A i \in 1 .. n : qs[i] = q
  BY DEF Kinds
<1>2. Begin(qs, first) /\ first \in {"end", "block_write", "block_post", "block_read"}
      /\ (first = "end" <=> n = 0)
  BY DEF TransferBlock
<1> HIDE DEF qs, first
<1>3. /\ asked' = qs /\ todo' = qs /\ pc' = first /\ Posted' = 0
      /\ response_count' = 0 /\ Counted(response_count)' = 0 /\ Len(words') = 0
  BY <1>1, <1>2, BeginWords
<1>4. CASE first = "end"
  BY <1>1, <1>2, <1>3, <1>4, EndsWhole
<1>5. CASE first # "end"
  <2>1. \A i \in 1 .. Len(asked') : asked'[i] = asked'[1]
    BY <1>1, <1>3
  <2>2. BlockWords'
    BY <1>1, <1>3, <2>1 DEF BlockWords
  <2> QED BY <1>2, <1>3, <1>5, <2>2, StaysInBlock DEF Blocks
<1> QED BY <1>4, <1>5

LEMMA WordsStep == ASSUME TransferInv, WordsInv, [Next]_vars PROVE WordsInv'
<1>1. CASE UNCHANGED <<command, locals, response>>
  BY <1>1, WordsStay DEF command, locals, response
<1>2. CASE DAP_Transfer
  BY <1>2, TransferWords, RetriesAssumption DEF DAP_Transfer
<1>3. CASE DAP_TransferBlock
  BY <1>3, BlockBeginWords, RetriesAssumption DEF DAP_TransferBlock
<1>4. CASE Answer \/ Local
  BY <1>4, StepWords DEF Answer, Local
<1>5. CASE Setup \/ Configure \/ DAP_WriteAbort
  BY <1>1, <1>5 DEF Setup, Configure, TransferConfigure, DAP_WriteAbort, WriteAbort
<1>6. CASE \/ Connect \/ Disconnect \/ Turn \/ UNCHANGED vars
           \/ \E hz \in Clocks : SWJ_Clock(hz)
           \/ \E n \in 0 .. MaxSequences : \E captures \in [1 .. n -> BOOLEAN] : SWD_Sequence(captures)
  <2>1. UNCHANGED transfer_vars
    BY <1>6 DEF Connect, Disconnect, Turn, vars, SWJ_Clock, SWD_Sequence
  <2> QED BY <1>1, <2>1 DEF transfer_vars
<1> QED BY <1>2, <1>3, <1>4, <1>5, <1>6 DEF Next, Work

(* A response holds the words of the reads it counts, and one less at most *)
(* if it fails; it is OK only of all that was asked for.  This holds       *)
(* though a read gives its word one access late and the count goes on      *)
(* without it, DAP.c:719 to :934 and :1321 to :1370.                       *)
THEOREM WordsSafe == Spec => []WordsOfCount
<1>1. Init => WordsInv
  BY DEF Init, TransferInit, WordsInv, WordsOfCount, Asking, Blocks
<1>2. TransferInv /\ WordsInv /\ [Next]_vars => WordsInv'
  BY WordsStep
<1>3. SafeInv => TransferInv
  BY DEF SafeInv
<1>4. WordsInv => WordsOfCount
  BY DEF WordsInv
<1> QED BY <1>1, <1>2, <1>3, <1>4, Safe, PTL DEF Spec
=============================================================================
