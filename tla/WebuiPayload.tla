---------------------------- MODULE WebuiPayload ----------------------------
(***************************************************************************)
(* The payloads that the WebUI is too large to pass on a command line:     *)
(* uploadPrivatePayload (private-payload.ts) creates a file in the         *)
(* worker's store, appends its text in chunks and commits it, each with a  *)
(* request of its own (webui_payload.rs, handle_webui_payload).  A request *)
(* whose caller has timed out stays in the socket's queue and is carried   *)
(* out all the same.                                                       *)
(*                                                                         *)
(* The handle of a file is the upload it is created for, since no two      *)
(* handles are equal.  The text of an upload is of Chunks chunks, which    *)
(* are within the bound that both sides check.                             *)
(***************************************************************************)
EXTENDS Integers, Sequences

CONSTANTS
    Uploads,
    Chunks,
    MaxFailures     \* bound on failing writes and restarts of the worker

VARIABLES
    caller,     \* caller[u]: what the upload waits for
    queue,      \* the requests in the socket, in their order
    store,      \* store[u]: [name, data, old], the file of an upload
    reading,    \* the upload whose commit has renamed the file
    handed,     \* handed[u]: the texts that were handed on as a request
    failures

payloadVars == <<caller, queue, store, reading, handed, failures>>

-----------------------------------------------------------------------------
NoFile == [name |-> "none", data |-> <<>>, old |-> FALSE]
NoUpload == 0
Torn == 0       \* a part of a chunk
Text == [k \in 1..Chunks |-> k]

Failure == failures < MaxFailures /\ failures' = failures + 1

\* The steps of a caller: what it waits for, and for which chunk.
At(step, chunk) == [step |-> step, chunk |-> chunk]
Done == At("done", 0)

\* The loop of uploadPrivatePayload, after an answer that is no error.
Succeeds(to) ==
    IF to.step = "create" THEN At("append", 1)
    ELSE IF to.step # "append" THEN Done
    ELSE IF to.chunk < Chunks THEN At("append", to.chunk + 1)
    ELSE At("commit", 0)

\* Mutant: an append that gets no answer is tried again.
MutFails(to) ==
    IF to.step = "append" THEN to
    ELSE IF to.step = "commit" THEN At("remove", 0) ELSE Done

\* Its catch: the file is removed if its handle is known, and that is all.
Fails(to) ==
    IF to.step \in {"append", "commit"} THEN At("remove", 0) ELSE Done

Request(u, to) ==
    [upload |-> u, heard |-> TRUE, step |-> to.step, chunk |-> to.chunk]

\* runJson: a request goes behind the ones that wait in the socket.
Calls(u, to, rest) ==
    /\ caller' = [caller EXCEPT ![u] = to]
    /\ queue' = IF to = Done THEN rest ELSE Append(rest, Request(u, to))

Begin(u) ==
    /\ caller[u] = At("idle", 0)
    /\ Calls(u, At("create", 0), queue)
    /\ UNCHANGED <<store, reading, handed, failures>>

\* Its timeout: the caller does not hear the answer, the request stays.
TimesOut(u) ==
    /\ \E k \in DOMAIN queue :
          /\ queue[k].upload = u /\ queue[k].heard
          /\ Calls(u, Fails(caller[u]), [queue EXCEPT ![k].heard = FALSE])
    /\ UNCHANGED <<store, reading, handed, failures>>

-----------------------------------------------------------------------------
(***************************************************************************)
(* The worker: handle_webui_payload.                                       *)
(***************************************************************************)
First == Head(queue)
Serves(step) == reading = NoUpload /\ queue # <<>> /\ First.step = step

Answers(ok) ==
    LET u == First.upload
    IN IF First.heard
       THEN Calls(u, IF ok THEN Succeeds(caller[u]) ELSE Fails(caller[u]),
                  Tail(queue))
       ELSE queue' = Tail(queue) /\ UNCHANGED caller

Keeps(file) == store' = [store EXCEPT ![First.upload] = file]

Create ==
    /\ Serves("create")
    /\ \/ Keeps([NoFile EXCEPT !.name = "payload"]) /\ Answers(TRUE)
          /\ UNCHANGED failures
       \/ Failure /\ Answers(FALSE) /\ UNCHANGED store
    /\ UNCHANGED <<reading, handed>>

\* append: a file that is gone is an error; a write may fail half way.
AppendChunk ==
    /\ Serves("append")
    /\ LET file == store[First.upload]
           With(chunk) == [file EXCEPT !.data = Append(@, chunk), !.old = FALSE]
       IN IF file.name = "payload"
          THEN \/ Keeps(With(First.chunk)) /\ Answers(TRUE)
                  /\ UNCHANGED failures
               \/ Failure /\ Keeps(With(Torn)) /\ Answers(FALSE)
          ELSE Answers(FALSE) /\ UNCHANGED <<store, failures>>
    /\ UNCHANGED <<reading, handed>>

Remove ==
    /\ Serves("remove")
    /\ IF store[First.upload].name = "payload" THEN Keeps(NoFile)
       ELSE UNCHANGED store
    /\ Answers(TRUE)
    /\ UNCHANGED <<reading, handed, failures>>

\* consume: the file is renamed first
Commit ==
    /\ Serves("commit")
    /\ LET file == store[First.upload]
       IN IF file.name = "payload"
          THEN /\ Keeps([file EXCEPT !.name = "consume"])
               /\ reading' = First.upload
               /\ UNCHANGED <<caller, queue>>
          ELSE Answers(FALSE) /\ UNCHANGED <<store, reading>>
    /\ UNCHANGED <<handed, failures>>

\* then read and removed, whatever becomes of the request in it
Consume ==
    /\ reading # NoUpload
    /\ Keeps(NoFile)
    /\ reading' = NoUpload
    /\ handed' = [handed EXCEPT ![reading] = Append(@, store[reading].data)]
    /\ \E ok \in BOOLEAN : Answers(ok)
    /\ UNCHANGED failures

-----------------------------------------------------------------------------
\* Mutant: a file whose commit was cut short is not seen.
MutExpired(file) == file.old /\ file.name = "payload"

\* cleanup_expired: payloads and renamed payloads of PAYLOAD_TTL
Expired(file) == file.old /\ file.name # "none"

Ages ==
    /\ \E u \in Uploads :
          /\ store[u].name # "none" /\ ~store[u].old
          /\ store' = [store EXCEPT ![u].old = TRUE]
    /\ UNCHANGED <<caller, queue, reading, handed, failures>>

CleanupExpired ==
    /\ reading = NoUpload
    /\ \E u \in Uploads : Expired(store[u])
    /\ store' = [u \in Uploads |-> IF Expired(store[u]) THEN NoFile ELSE store[u]]
    /\ UNCHANGED <<caller, queue, reading, handed, failures>>

\* The worker ends and is started again: the connections fail at once, and
\* the removal that follows does too.
Restart ==
    /\ Failure
    /\ reading' = NoUpload
    /\ LET lost == {u \in Uploads : \E k \in DOMAIN queue :
                        queue[k].upload = u /\ queue[k].heard}
       IN caller' = [u \in Uploads |-> IF u \in lost THEN Done ELSE caller[u]]
    /\ queue' = <<>>
    /\ UNCHANGED <<store, handed>>

Init ==
    /\ caller = [u \in Uploads |-> At("idle", 0)]
    /\ queue = <<>>
    /\ store = [u \in Uploads |-> NoFile]
    /\ reading = NoUpload
    /\ handed = [u \in Uploads |-> <<>>]
    /\ failures = 0

Worker == Create \/ AppendChunk \/ Remove \/ Commit \/ Consume

Next ==
    \/ \E u \in Uploads : Begin(u) \/ TimesOut(u)
    \/ Worker \/ Ages \/ CleanupExpired \/ Restart

\* The worker serves and cleans up, and time passes.
Fairness ==
    WF_payloadVars(Worker) /\ WF_payloadVars(Ages) /\ WF_payloadVars(CleanupExpired)

Spec == Init /\ [][Next]_payloadVars /\ Fairness

-----------------------------------------------------------------------------
(***************************************************************************)
(* A payload is handed on whole or not at all, and at most once: whatever  *)
(* timed out, expired or failed on the way, the request that a commit      *)
(* carries out is the text that was uploaded (append, consume, and the     *)
(* catch of uploadPrivatePayload).                                         *)
(***************************************************************************)
UploadIsWhole == \A u \in Uploads : handed[u] \in {<<>>, <<Text>>}

\* No file stays: what is neither committed nor removed expires.
NoFileStays == \A u \in Uploads : store[u].name = "none"
FilesGo == []<>NoFileStays
=============================================================================
