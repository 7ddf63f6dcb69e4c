----------------------------- MODULE SwdTransfer -----------------------------
(***************************************************************************)
(* DAP_SWD_Transfer, DAP_SWD_TransferBlock and DAP_SWD_WriteAbort of       *)
(* DAP.c: how the probe does the register accesses a host asks for.  A     *)
(* read of an access port register is posted: it returns the value of the  *)
(* read before, and its own value comes with the next such read or with    *)
(* RDBUFF.  A write is confirmed by the access behind it.                  *)
(*                                                                         *)
(* The target is external.  It may be busy (WAIT), answer with a wrong     *)
(* parity (ERROR: the read is done, its value lost) or not at all (NONE);  *)
(* an access that fails on its bus is known only from the sticky flag,     *)
(* which makes it refuse (FAULT) until the flag is cleared by ABORT.  Its  *)
(* reads of access port registers are numbered within a command, and the   *)
(* number is the value.  DAP_TransferAbort is never set in this build.     *)
(***************************************************************************)
EXTENDS Integers, Sequences, FiniteSets

CONSTANTS
    Retries,              \* numbers of retries after WAIT a host may ask for
    DefaultRetries,       \* that of DAP_Setup: 100
    MatchRetries,         \* numbers of retries after a mismatch
    Values,               \* values to match
    MaxRequests           \* bound of the model: requests of a command

ASSUME RetriesAssumption ==
    /\ Retries \subseteq Nat /\ DefaultRetries \in Nat /\ MatchRetries \subseteq Nat
    /\ Values \subseteq Nat /\ MaxRequests \in Nat

VARIABLES
    retry_count, match_retry, match_mask,     \* DAP_Data.transfer
    asked, todo,          \* the requests of the command, and those not done
    pc, retry, tries, data,
    post_read, check_write,
    words, response_count, response_value, mismatch,      \* the response
    reads, rdbuff, sticky,        \* external: the target's numbering, read buffer, flag
    doubt                 \* history: a write of the command failed on the bus, the flag is not read

transfer_conf == <<retry_count, match_retry, match_mask>>
command == <<asked, todo>>
locals == <<pc, retry, tries, data, post_read, check_write>>
response == <<words, response_count, response_value, mismatch>>
target == <<reads, rdbuff, sticky, doubt>>
transfer_vars == <<transfer_conf, command, locals, response, target>>

(* What a read of the debug port returns: the sticky flag. *)
Clear == 0
Set == -1

Unknown == -2

(* Of a read, "match" is DAP_TRANSFER_MATCH_VALUE; of a write,             *)
(* DAP_TRANSFER_MATCH_MASK, with a mask of no bits (0) or all (1).         *)
Requests ==
    [rnw : BOOLEAN, ap : BOOLEAN, match : {FALSE}, value : {0}]
    \cup [rnw : {TRUE}, ap : BOOLEAN, match : {TRUE}, value : Values]
    \cup [rnw : {FALSE}, ap : {FALSE}, match : {TRUE}, value : {0, 1}]

RDBUFF == [rnw |-> TRUE, ap |-> FALSE, match |-> FALSE, value |-> 1]

Asking == {"fetch", "pipeline", "post", "read", "match_post", "match_read", "write", "last",
           "check", "block_post", "block_read", "block_write", "block_check"}

TypeOK ==
    /\ retry_count \in Nat /\ match_retry \in Nat /\ match_mask \in {0, 1}
    /\ asked \in Seq(Requests) /\ todo \in Seq(Requests)
    /\ pc \in {"idle", "next", "mask", "end"} \cup Asking
    /\ retry \in 0 .. retry_count /\ tries \in 0 .. match_retry /\ data \in Int
    /\ post_read \in BOOLEAN /\ check_write \in BOOLEAN
    /\ words \in Seq(Int) /\ response_count \in Nat
    /\ response_value \in {"none", "OK", "WAIT", "FAULT", "ERROR", "NONE"} /\ mismatch \in BOOLEAN
    /\ reads \in Nat /\ rdbuff \in Nat /\ sticky \in BOOLEAN /\ doubt \in BOOLEAN

(* DAP_Setup *)
TransferInit ==
    /\ retry_count = DefaultRetries /\ match_retry = 0 /\ match_mask = 0
    /\ asked = << >> /\ todo = << >>
    /\ pc = "idle" /\ retry = 0 /\ tries = 0 /\ data = Unknown
    /\ post_read = FALSE /\ check_write = FALSE
    /\ words = << >> /\ response_count = 0 /\ response_value = "none" /\ mismatch = FALSE
    /\ reads = 0 /\ rdbuff = 0 /\ sticky = FALSE /\ doubt = FALSE

(* No command is being worked on. *)
Forget ==
    /\ asked' = << >> /\ todo' = << >>
    /\ pc' = "idle" /\ retry' = 0 /\ tries' = 0 /\ data' = Unknown
    /\ post_read' = FALSE /\ check_write' = FALSE
    /\ words' = << >> /\ response_count' = 0 /\ response_value' = "none" /\ mismatch' = FALSE
    /\ reads' = 0 /\ rdbuff' = 0 /\ doubt' = FALSE

-----------------------------------------------------------------------------
(* The target *)

(* What the probe is about to send *)
Wanted ==
    IF \/ pc \in {"fetch", "last", "check", "block_check"}
       \/ pc = "block_read" /\ post_read /\ todo = << >> THEN RDBUFF
    ELSE IF pc \in {"block_post", "block_read", "block_write"} THEN asked[1]
    ELSE Head(todo)

IsStatus(q) == q.rnw /\ ~q.ap /\ q # RDBUFF

Reply(ack, value, n, buffer, flag) ==
    [ack |-> ack, value |-> value, reads |-> n, rdbuff |-> buffer, sticky |-> flag]

(* The value of an access that is done, and what it changes: any access of *)
(* the access port may fail later on.                                      *)
Accepted(q) ==
    IF sticky /\ ~IsStatus(q) THEN {}
    ELSE IF IsStatus(q) THEN {Reply("OK", IF sticky THEN Set ELSE Clear, reads, rdbuff, sticky)}
    ELSE IF q.rnw /\ q.ap
         THEN {Reply("OK", rdbuff, reads + 1, reads + 1, flag) : flag \in BOOLEAN}
    ELSE IF q.ap THEN {Reply("OK", Unknown, reads, rdbuff, flag) : flag \in BOOLEAN}
    ELSE {Reply("OK", rdbuff, reads, rdbuff, sticky)}

Damaged(q) ==
    IF q.rnw THEN {[reply EXCEPT !.ack = "ERROR", !.value = Unknown] : reply \in Accepted(q)} ELSE {}

Refused(q) ==
    {Reply(ack, Unknown, reads, rdbuff, sticky) :
        ack \in {"NONE"} \cup (IF sticky /\ ~IsStatus(q) THEN {"FAULT"} ELSE {})
                         \cup (IF IsStatus(q) THEN {} ELSE {"WAIT"})}

Replies == Accepted(Wanted) \cup Damaged(Wanted) \cup Refused(Wanted)

Answers(reply) ==
    /\ reply \in Replies
    /\ reads' = reply.reads /\ rdbuff' = reply.rdbuff /\ sticky' = reply.sticky
    /\ doubt' = (/\ doubt \/ (reply.sticky /\ ~sticky /\ ~Wanted.rnw)
                 /\ ~(IsStatus(Wanted) /\ reply.ack = "OK"))

(* Mutant of Retried: one time too often. *)
RetriedOnceMore(reply) == reply.ack = "WAIT" /\ retry >= 0

Retried(reply) == reply.ack = "WAIT" /\ retry > 0

-----------------------------------------------------------------------------
(* The probe *)

(* Where a request is done *)
Own(q) ==
    IF q.rnw
    THEN IF q.match THEN IF q.ap THEN "match_post" ELSE "match_read"
         ELSE IF q.ap THEN "post" ELSE "read"
    ELSE IF q.match THEN "mask" ELSE "write"

Begin(qs, first) ==
    /\ pc = "idle"
    /\ asked' = qs /\ todo' = qs
    /\ pc' = first
    /\ retry' = retry_count
    /\ UNCHANGED <<transfer_conf, tries, data, post_read, check_write, response, target>>

Transfer(qs) == Begin(qs, "next")

(* All requests of a block are the same; a mask or a match has no place.   *)
TransferBlock(q, n) ==
    Begin([i \in 1 .. n |-> q],
          IF n = 0 THEN "end"
          ELSE IF ~q.rnw THEN "block_write" ELSE IF q.ap THEN "block_post" ELSE "block_read")

(* The top of the loop over the requests, and what is behind it *)
NextRequest ==
    /\ pc = "next"
    /\ retry' = retry_count /\ tries' = match_retry
    /\ pc' = IF todo = << >>
             THEN IF post_read THEN "last" ELSE IF check_write THEN "check" ELSE "end"
             ELSE IF ~post_read THEN Own(Head(todo))
             ELSE IF Own(Head(todo)) = "post" THEN "pipeline" ELSE "fetch"
    /\ UNCHANGED <<transfer_conf, command, data, post_read, check_write, response, target>>

(* Mutant of Retry: the retries are not counted. *)
RetryUncounted ==
    /\ pc \in Asking
    /\ \E reply \in Replies : Retried(reply) /\ Answers(reply)
    /\ UNCHANGED <<transfer_conf, command, locals, response>>

(* WAIT: the same again *)
Retry ==
    /\ pc \in Asking
    /\ \E reply \in Replies : Retried(reply) /\ Answers(reply)
    /\ retry' = retry - 1
    /\ UNCHANGED <<transfer_conf, command, pc, tries, data, post_read, check_write, response>>

Masked(value) == IF match_mask = 0 THEN 0 ELSE value

(* Any other answer ends the command; the requests left are skipped.  A    *)
(* match compares the value all the same, which may be of an earlier read  *)
(* or none at all.                                                         *)
Break ==
    /\ pc \in Asking
    /\ \E reply \in Replies :
        /\ reply.ack # "OK" /\ ~Retried(reply) /\ Answers(reply)
        /\ response_value' = reply.ack
        /\ mismatch' \in IF pc # "match_read" THEN {FALSE}
                         ELSE IF data = Unknown \/ reply.ack = "ERROR" THEN BOOLEAN
                         ELSE {Masked(data) # Head(todo).value}
    /\ pc' = "end" /\ todo' = << >> /\ post_read' = FALSE /\ check_write' = FALSE
    /\ UNCHANGED <<transfer_conf, asked, retry, tries, data, words, response_count>>

(* The wanted access is done, *)
Done(reply) == reply.ack = "OK" /\ Answers(reply) /\ response_value' = "OK"

Store(value) == words' = Append(words, value) /\ data' = value

(* and with it the request. *)
Completed ==
    /\ todo' = Tail(todo)
    /\ response_count' = response_count + 1
    /\ pc' = "next"

(* Mutant of Fetch: the read stays posted. *)
FetchKeepsPosted ==
    /\ pc = "fetch"
    /\ \E reply \in Replies : Done(reply) /\ Store(reply.value)
    /\ pc' = Own(Head(todo)) /\ retry' = retry_count
    /\ UNCHANGED <<transfer_conf, command, tries, post_read, check_write, response_count, mismatch>>

(* RDBUFF has the value of the last read. *)
Fetch ==
    /\ pc = "fetch"
    /\ \E reply \in Replies : Done(reply) /\ Store(reply.value)
    /\ post_read' = FALSE
    /\ pc' = Own(Head(todo)) /\ retry' = retry_count
    /\ UNCHANGED <<transfer_conf, command, tries, check_write, response_count, mismatch>>

(* The value of the last read comes with the next. *)
Pipeline ==
    /\ pc = "pipeline"
    /\ \E reply \in Replies : Done(reply) /\ Store(reply.value)
    /\ Completed /\ check_write' = FALSE
    /\ UNCHANGED <<transfer_conf, asked, retry, tries, post_read, mismatch>>

Post ==
    /\ pc = "post"
    /\ \E reply \in Replies : Done(reply)
    /\ post_read' = TRUE
    /\ Completed /\ check_write' = FALSE
    /\ UNCHANGED <<transfer_conf, asked, retry, tries, data, words, mismatch>>

Read ==
    /\ pc = "read"
    /\ \E reply \in Replies : Done(reply) /\ Store(reply.value)
    /\ Completed /\ check_write' = FALSE
    /\ UNCHANGED <<transfer_conf, asked, retry, tries, post_read, mismatch>>

MatchPost ==
    /\ pc = "match_post"
    /\ \E reply \in Replies : Done(reply)
    /\ pc' = "match_read" /\ retry' = retry_count
    /\ UNCHANGED <<transfer_conf, command, tries, data, post_read, check_write, words,
                   response_count, mismatch>>

(* One turn of the loop that reads until the value matches *)
MatchRead ==
    /\ pc = "match_read"
    /\ \E reply \in Replies :
        /\ Done(reply) /\ data' = reply.value
        /\ \/ /\ Masked(reply.value) = Head(todo).value
              /\ Completed /\ check_write' = FALSE
              /\ UNCHANGED <<retry, tries, mismatch>>
           \/ /\ Masked(reply.value) # Head(todo).value /\ tries > 0
              /\ tries' = tries - 1 /\ retry' = retry_count
              /\ UNCHANGED <<pc, todo, check_write, response_count, mismatch>>
           \/ /\ Masked(reply.value) # Head(todo).value /\ tries = 0
              /\ mismatch' = TRUE
              /\ pc' = "end" /\ todo' = << >> /\ check_write' = FALSE
              /\ UNCHANGED <<retry, tries, response_count>>
    /\ UNCHANGED <<transfer_conf, asked, post_read, words>>

(* Mutant of MaskWrite: the write before need not be checked. *)
MaskWriteForgets ==
    /\ pc = "mask"
    /\ match_mask' = Head(todo).value /\ data' = Head(todo).value
    /\ response_value' = "OK"
    /\ Completed /\ check_write' = FALSE
    /\ UNCHANGED <<retry_count, match_retry, asked, retry, tries, post_read, words,
                   mismatch, target>>

(* The target has no part in it. *)
MaskWrite ==
    /\ pc = "mask"
    /\ match_mask' = Head(todo).value /\ data' = Head(todo).value
    /\ response_value' = "OK"
    /\ Completed
    /\ UNCHANGED <<retry_count, match_retry, asked, retry, tries, post_read, check_write, words,
                   mismatch, target>>

Write ==
    /\ pc = "write"
    /\ \E reply \in Replies : Done(reply)
    /\ data' = Unknown
    /\ Completed /\ check_write' = TRUE
    /\ UNCHANGED <<transfer_conf, asked, retry, tries, post_read, words, mismatch>>

(* Mutant of Last: the value is that of the last word again. *)
LastAgain ==
    /\ pc = "last"
    /\ \E reply \in Replies : Done(reply) /\ Store(IF words = << >> THEN 0 ELSE words[Len(words)])
    /\ post_read' = FALSE /\ pc' = "end"
    /\ UNCHANGED <<transfer_conf, command, retry, tries, check_write, response_count, mismatch>>

(* Behind the loop: the last value, *)
Last ==
    /\ pc = "last"
    /\ \E reply \in Replies : Done(reply) /\ Store(reply.value)
    /\ post_read' = FALSE /\ pc' = "end"
    /\ UNCHANGED <<transfer_conf, command, retry, tries, check_write, response_count, mismatch>>

(* or the check that the last write is done *)
Check ==
    /\ pc \in {"check", "block_check"}
    /\ \E reply \in Replies : Done(reply)
    /\ pc' = "end"
    /\ UNCHANGED <<transfer_conf, command, retry, tries, data, post_read, check_write, words,
                   response_count, mismatch>>

BlockPost ==
    /\ pc = "block_post"
    /\ \E reply \in Replies : Done(reply)
    /\ todo' = Tail(todo) /\ post_read' = TRUE
    /\ pc' = "block_read" /\ retry' = retry_count
    /\ UNCHANGED <<transfer_conf, asked, tries, data, check_write, words, response_count, mismatch>>

(* Of the register, or of RDBUFF if all of an access port's are posted:    *)
(* request_count is the number of those in todo and of the posted one.     *)
BlockRead ==
    /\ pc = "block_read"
    /\ \E reply \in Replies : Done(reply) /\ Store(reply.value)
    /\ response_count' = response_count + 1
    /\ todo' = IF todo = << >> THEN << >> ELSE Tail(todo)
    /\ post_read' = (post_read /\ todo # << >>)
    /\ pc' = IF post_read' \/ todo' # << >> THEN "block_read" ELSE "end"
    /\ retry' = retry_count
    /\ UNCHANGED <<transfer_conf, asked, tries, check_write, mismatch>>

BlockWrite ==
    /\ pc = "block_write"
    /\ \E reply \in Replies : Done(reply)
    /\ response_count' = response_count + 1
    /\ todo' = Tail(todo)
    /\ data' = Unknown
    /\ pc' = IF todo' # << >> THEN "block_write" ELSE "block_check"
    /\ retry' = retry_count
    /\ UNCHANGED <<transfer_conf, asked, tries, post_read, check_write, words, mismatch>>

(* Count and value go into the response, and the response to the host. *)
End ==
    /\ pc = "end"
    /\ Forget
    /\ UNCHANGED <<transfer_conf, sticky>>

TransferStep ==
    \/ NextRequest \/ Retry \/ Break \/ Fetch \/ Pipeline \/ Post \/ Read \/ MatchPost \/ MatchRead
    \/ MaskWrite \/ Write \/ Last \/ Check \/ BlockPost \/ BlockRead \/ BlockWrite
    \/ End

(* DAP_SWD_WriteAbort: the target's answer is not looked at. *)
WriteAbort ==
    /\ pc = "idle"
    /\ sticky' \in {FALSE, sticky}
    /\ UNCHANGED <<transfer_conf, command, locals, response, reads, rdbuff, doubt>>

(* DAP_TransferConfigure; the idle cycles are left out. *)
TransferConfigure(retries, match_retries) ==
    /\ pc = "idle"
    /\ retry_count' = retries /\ match_retry' = match_retries
    /\ UNCHANGED <<match_mask, command, locals, response, target>>

-----------------------------------------------------------------------------
(* Properties *)

(* The command's reads and writes are done as a plain sequence of accesses *)
(* would do them: in order, none twice, each read with its own value,      *)
(* although values come late and answers fail.                             *)
Registers ==
    INSTANCE RegisterAccess WITH
        results <- IF post_read THEN Append(words, rdbuff) ELSE words,
        running <- pc # "idle"

ImplementsAccess == Registers!Spec

IsRead(q) == q.rnw /\ ~q.match

(* The reads among the first n requests *)
Counted(n) == Cardinality({i \in 1 .. n : IsRead(asked[i])})

(* A response holds the words of as many reads as it counts requests; only *)
(* a response that fails may lack one, and that of a block never does.     *)
WordsOfCount ==
    pc = "end" =>
        /\ response_count <= Len(asked)
        /\ Len(words) \in {Counted(response_count) - 1, Counted(response_count)}
        /\ response_value = "OK" /\ ~mismatch => /\ Len(words) = Counted(response_count)
                                                 /\ response_count = Len(asked)

(* A response is not OK if a write of the command has failed on the        *)
(* target's bus, unless the target's flag has been read for the host.      *)
WritesConfirmed ==
    pc = "end" /\ response_value = "OK" /\ ~mismatch => ~doubt
=============================================================================
