--------------------------- MODULE ActivityChunks ---------------------------
(***************************************************************************)
(* What a run of the agent shows of its work: the chunks that the pod      *)
(* numbers and posts (_run_sdk_streaming, _post_chunk), the objects the    *)
(* webhook makes of them (handleChunk), and the two that read them while   *)
(* they come in: kubecopilot invoke (streamChunks) and one browser at the  *)
(* web UI (/chat/stream, /chunks/stream, static/index.html).               *)
(*                                                                         *)
(* The posts of a run are tasks of their own: they arrive in any order,    *)
(* and one that timed out may still arrive.  A run is one item of the      *)
(* pod's queue; a send whose dispatch was repeated has two.                *)
(***************************************************************************)
EXTENDS Integers, FiniteSets, SequencesExt

CONSTANTS
  Runs,             \* items of the pod's queue
  CliSends,         \* sends created by kubecopilot invoke
  UiSends,          \* sends of one conversation in one browser
  OtherSends,       \* sends created by kubectl, with names of any kind
  SendTail,         \* the last twelve characters of each send's name
  NoSend,
  Plans,            \* bound: the sends that users create, in a behaviour
  MaxSequence,      \* bound: the highest number of a chunk
  MaxTrouble        \* bound: repeated dispatches, lost and timed out calls,
                    \* failed runs, pod restarts, reconnecting browsers

Sends == CliSends \cup UiSends \cup OtherSends

ASSUME ChunksAssumption ==
  /\ IsFiniteSet(Runs) /\ IsFiniteSet(Sends)
  /\ NoSend \notin Sends
  /\ CliSends \cap UiSends = {}
  /\ DOMAIN SendTail = Sends
  /\ Plans \subseteq SUBSET Sends
  /\ MaxSequence \in Nat \ {0} /\ MaxTrouble \in Nat

VARIABLES
  plan, asked,      \* the sends users are still going to create; those there are
  phase,            \* status.phase of invoke's sends: no one else here reads it
  sendOf, step,     \* the send of each run, and how far the run is
  sequence,         \* the number of its next chunk
  posts,            \* posts on the wire
  chunks,           \* the KubeCopilotChunk objects
  responses,        \* the sends that have a KubeCopilotResponse
  cli,              \* kubecopilot invoke, for each of its sends
  late,             \* history: chunks stored behind the ones invoke printed
  sending, resumed, \* the send the browser waits for; those sent in a session
  stream,           \* what the browser's activity stream asks for
  seen, shown,      \* seen_sequences; the browser's activity log
  refused, lost,    \* history: runs with a refused chunk; runs with no answer
  trouble           \* counted against its bound

cliVars == <<cli, late>>
browserVars == <<sending, resumed, stream, seen, shown>>
podVars == <<step, sequence>>
sendVars == <<plan, asked, phase, sendOf>>
chunkVars == <<sendVars, podVars, posts, chunks, responses, cliVars, browserVars,
               refused, lost, trouble>>

Numbers == 0..MaxSequence
Chunk(r, n) == [run |-> r, sequence |-> n]
Posts == [run : Runs, sequence : Numbers]
RunSteps == {"none", "queued", "first", "running", "last", "answer", "over"}
SendPhases == {"", "Done", "Error"}
CliSteps == {"off", "list", "get", "returned", "failed"}
Cli(at, printed, output) == [step |-> at, printed |-> printed, output |-> output]
Stream(mode, s, loaded) == [mode |-> mode, send |-> s, loaded |-> loaded]

(* The wire name of the JSON payload of a chunk is its SendRef and number. *)
Ref(c) == sendOf[c.run]
ChunksOf(s) == {c \in chunks : Ref(c) = s}

ChunkTypeOK ==
  /\ plan \subseteq Sends /\ asked \subseteq Sends /\ phase \in [CliSends -> SendPhases]
  /\ sendOf \in [Runs -> Sends \cup {NoSend}] /\ step \in [Runs -> RunSteps]
  /\ sequence \in [Runs -> Numbers \cup {MaxSequence + 1}]
  /\ posts \subseteq Posts /\ chunks \subseteq Posts /\ late \subseteq Posts
  /\ responses \subseteq Sends
  /\ DOMAIN cli = CliSends
  /\ \A s \in CliSends :
       cli[s] \in [step : CliSteps, printed : Numbers \cup {MaxSequence + 1}, output : Seq(Posts)]
  /\ sending \in UiSends \cup {NoSend} /\ resumed \subseteq UiSends
  /\ stream \in [mode : {"off", "send", "session"}, send : UiSends \cup {NoSend}, loaded : BOOLEAN]
  /\ seen \subseteq Numbers /\ shown \subseteq Posts
  /\ refused \subseteq Runs /\ lost \subseteq Runs
  /\ trouble \in 0..MaxTrouble

ChunkInit ==
  /\ plan \in Plans /\ asked = {} /\ phase = [s \in CliSends |-> ""]
  /\ sendOf = [r \in Runs |-> NoSend] /\ step = [r \in Runs |-> "none"]
  /\ sequence = [r \in Runs |-> 0]
  /\ posts = {} /\ chunks = {} /\ responses = {}
  /\ cli = [s \in CliSends |-> Cli("off", 0, <<>>)] /\ late = {}
  /\ sending = NoSend /\ resumed = {} /\ stream = Stream("off", NoSend, FALSE)
  /\ seen = {} /\ shown = {}
  /\ refused = {} /\ lost = {}
  /\ trouble = 0

Create(s) == s \in plan /\ plan' = plan \ {s} /\ asked' = asked \cup {s}

Spend == trouble < MaxTrouble /\ trouble' = trouble + 1

-----------------------------------------------------------------------------
(* The send controller, as RequestPath shows it: an item of the send is in *)
(* the queue before its phase is Done, an error may hide one, and a lost   *)
(* update repeats the dispatch.                                            *)
Dispatch(r, s) ==
  /\ s \in asked /\ (s \in CliSends => phase[s] = "") /\ step[r] = "none"
  /\ IF \E q \in Runs : sendOf[q] = s THEN Spend ELSE UNCHANGED trouble
  /\ sendOf' = [sendOf EXCEPT ![r] = s]
  /\ step' = [step EXCEPT ![r] = "queued"]
  /\ UNCHANGED <<plan, asked, phase, sequence, posts, chunks, responses, cliVars, browserVars, refused, lost>>

DecideSend(s) ==
  /\ s \in asked \cap CliSends /\ phase[s] = ""
  /\ \E p \in {"Done", "Error"} :
       /\ p = "Done" => \E r \in Runs : sendOf[r] = s
       /\ phase' = [phase EXCEPT ![s] = p]
  /\ UNCHANGED <<plan, asked, sendOf, podVars, posts, chunks, responses, cliVars, browserVars, refused, lost, trouble>>

AskOther(s) ==
  /\ s \in OtherSends /\ Create(s)
  /\ UNCHANGED <<phase, sendOf, podVars, posts, chunks, responses, cliVars, browserVars, refused, lost, trouble>>

-----------------------------------------------------------------------------
(* The pod.  A post on the wire is awaited only before the session starts  *)
(* and after it has ended.                                                 *)
elsewhere == <<sendVars, chunks, responses, cliVars, browserVars, refused>>
Becomes(r, s) == step' = [step EXCEPT ![r] = s]
PostChunk(r) == posts' = posts \cup {Chunk(r, sequence[r])}
Flying(r, n) == Chunk(r, n) \in posts
CountOn(r) == sequence' = [sequence EXCEPT ![r] = @ + 1]

StartRun(r) ==
  /\ step[r] = "queued"
  /\ PostChunk(r) /\ Becomes(r, "first")
  /\ UNCHANGED <<sequence, elsewhere, lost, trouble>>

(* Mutant: only an answer that was not an error lets the run go on. *)
FirstPostedWell(r) ==
  /\ step[r] = "first" /\ Chunk(r, 0) \in chunks
  /\ Becomes(r, "running") /\ CountOn(r)
  /\ UNCHANGED <<posts, elsewhere, lost, trouble>>
(* The post was answered, or failed. *)
FirstPosted(r) ==
  /\ step[r] = "first" /\ ~Flying(r, 0)
  /\ Becomes(r, "running") /\ CountOn(r)
  /\ UNCHANGED <<posts, elsewhere, lost, trouble>>

FirstTimesOut(r) ==
  /\ step[r] = "first" /\ Flying(r, 0) /\ Spend
  /\ Becomes(r, "running") /\ CountOn(r)
  /\ UNCHANGED <<posts, elsewhere, lost>>

(* Mutant: a kind of event whose branch forgets to count. *)
OnEventUncounted(r) ==
  /\ step[r] = "running" /\ sequence[r] < MaxSequence
  /\ PostChunk(r) /\ (CountOn(r) \/ UNCHANGED sequence)
  /\ UNCHANGED <<step, elsewhere, lost, trouble>>
(* on_event, for the events that are shown. *)
OnEvent(r) ==
  /\ step[r] = "running" /\ sequence[r] < MaxSequence
  /\ PostChunk(r) /\ CountOn(r)
  /\ UNCHANGED <<step, elsewhere, lost, trouble>>

(* session.deleted, or session.idle with reasoning that was not flushed:   *)
(* one last chunk, whose number is not counted on.                         *)
EndWithChunk(r) ==
  /\ step[r] = "running"
  /\ PostChunk(r) /\ Becomes(r, "last")
  /\ UNCHANGED <<sequence, elsewhere, lost, trouble>>

EndSilently(r) ==
  /\ step[r] = "running" /\ Becomes(r, "answer")
  /\ UNCHANGED <<sequence, posts, elsewhere, lost, trouble>>

LastPosted(r) ==
  /\ step[r] = "last" /\ ~Flying(r, sequence[r]) /\ Becomes(r, "answer")
  /\ UNCHANGED <<sequence, posts, elsewhere, lost, trouble>>

LastTimesOut(r) ==
  /\ step[r] = "last" /\ Flying(r, sequence[r]) /\ Spend /\ Becomes(r, "answer")
  /\ UNCHANGED <<sequence, posts, elsewhere, lost>>

(* POST /response, and the response object. *)
AnswerRun(r) ==
  /\ step[r] = "answer" /\ Becomes(r, "over")
  /\ responses' = responses \cup {sendOf[r]}
  /\ UNCHANGED <<sequence, posts, sendVars, chunks, cliVars, browserVars, refused, lost, trouble>>

(* The SDK raises, or the answer is lost: nothing is posted any more. *)
FailRun(r) ==
  /\ step[r] \in {"running", "answer"} /\ Spend /\ Becomes(r, "over")
  /\ lost' = lost \cup {r}
  /\ UNCHANGED <<sequence, posts, elsewhere>>

RestartPod ==
  /\ Spend
  /\ step' = [r \in Runs |-> IF step[r] = "none" THEN "none" ELSE "over"]
  /\ lost' = lost \cup {r \in Runs : step[r] \notin {"none", "over"}}
  /\ posts' \in SUBSET posts
  /\ UNCHANGED <<sequence, elsewhere>>

-----------------------------------------------------------------------------
(* The webhook.  Names end in the tail of the send's name and the number.  *)
SameName(c, d) == SendTail[Ref(c)] = SendTail[Ref(d)] /\ c.sequence = d.sequence
Printed(c) == Ref(c) \in CliSends /\ c.sequence < cli[Ref(c)].printed

HandleChunk(c) ==
  /\ c \in posts /\ posts' = posts \ {c}
  /\ IF \E d \in chunks : SameName(c, d)
     THEN refused' = refused \cup {c.run} /\ UNCHANGED <<chunks, late>>
     ELSE /\ chunks' = chunks \cup {c}
          /\ late' = IF Printed(c) THEN late \cup {c} ELSE late
          /\ UNCHANGED refused
  /\ UNCHANGED <<sendVars, podVars, responses, cli, browserVars, lost, trouble>>

LoseChunk(c) ==
  /\ c \in posts /\ posts' = posts \ {c} /\ Spend
  /\ UNCHANGED <<podVars, elsewhere, lost>>

-----------------------------------------------------------------------------
(* kubecopilot invoke: every two seconds a list, and a get.                *)
others == <<sendOf, phase, podVars, posts, chunks, responses, browserVars, refused, lost, late>>
CliBecomes(s, c) == cli' = [cli EXCEPT ![s] = c]
CliAt(s, at) == CliBecomes(s, Cli(at, cli[s].printed, cli[s].output))

Invoke(s) ==
  /\ Create(s) /\ CliAt(s, "list")
  /\ UNCHANGED <<others, trouble>>

(* sort.Slice. *)
InOrder(cs) ==
  {output \in Bijection(1..Cardinality(cs), cs) :
     \A i, j \in DOMAIN output : i < j => output[i].sequence <= output[j].sequence}
NewChunks(s) == {c \in ChunksOf(s) : c.sequence >= cli[s].printed}
(* A reader that has one chunk of a number passes over another. *)
OnePerNumber(cs) ==
  {some \in SUBSET cs :
     /\ \A c \in cs : \E d \in some : d.sequence = c.sequence
     /\ \A c, d \in some : c.sequence = d.sequence => c = d}
Prints(s, output, printed) == CliBecomes(s, Cli("get", printed, cli[s].output \o output))

(* Mutant: the cursor is the number of the last chunk. *)
PrintAgain(s) ==
  \E some \in OnePerNumber(NewChunks(s)) : \E output \in InOrder(some) :
    Prints(s, output, IF output = <<>> THEN cli[s].printed ELSE Last(output).sequence)
(* Mutant: the chunks are not sorted, so one is skipped after a higher one. *)
PrintUnsorted(s) ==
  \E some \in SUBSET NewChunks(s) : \E output \in InOrder(some) :
    /\ some = {} => NewChunks(s) = {}
    /\ Prints(s, output, IF output = <<>> THEN cli[s].printed ELSE Last(output).sequence + 1)
(* What is new is printed, and the cursor moves behind it. *)
PrintNew(s) ==
  \E some \in OnePerNumber(NewChunks(s)) : \E output \in InOrder(some) :
    Prints(s, output, IF output = <<>> THEN cli[s].printed ELSE Last(output).sequence + 1)

ListChunks(s) ==
  /\ cli[s].step = "list" /\ PrintNew(s)
  /\ UNCHANGED <<plan, asked, others, trouble>>

(* Mutant: the phase is copied. *)
GetSendCopied(s) ==
  /\ cli[s].step = "get"
  /\ CliAt(s, IF phase[s] = "" THEN "list" ELSE phase[s])
  /\ UNCHANGED <<plan, asked, others, trouble>>
GetSend(s) ==
  /\ cli[s].step = "get"
  /\ CliAt(s, CASE phase[s] = "Done" -> "returned" [] phase[s] = "Error" -> "failed" [] OTHER -> "list")
  /\ UNCHANGED <<plan, asked, others, trouble>>

(* A failed get is skipped, a failed list is the end, as is the timeout.   *)
GetFails(s) == cli[s].step = "get" /\ Spend /\ CliAt(s, "list") /\ UNCHANGED <<plan, asked, others>>
InvokeFails(s) == cli[s].step = "list" /\ CliAt(s, "failed") /\ UNCHANGED <<plan, asked, others, trouble>>

-----------------------------------------------------------------------------
(* The browser: one send at a time, whose activity it streams; when the    *)
(* answer is there, the activity of the whole session.                     *)
readers == <<phase, sendOf, podVars, posts, chunks, responses, cliVars, refused, lost>>

(* A new session has no id yet when its first chunk is posted. *)
InSession(c) == Ref(c) \in UiSends /\ (c.sequence # 0 \/ Ref(c) \in resumed)
Wanted == CASE stream.mode = "off" -> {}
            [] stream.mode = "send" -> ChunksOf(stream.send)
            [] stream.mode = "session" -> {c \in chunks : InSession(c)}

Open(mode, s) == stream' = Stream(mode, s, FALSE) /\ seen' = {}

ChatStream(s) ==
  /\ sending = NoSend /\ Create(s)
  /\ sending' = s /\ Open("send", s) /\ shown' = {}
  /\ resumed' = IF stream.mode = "session" \/ resumed # {} THEN resumed \cup {s} ELSE resumed
  /\ UNCHANGED <<readers, trouble>>

ChatDone ==
  /\ sending \in responses
  /\ sending' = NoSend /\ Open("session", NoSend)
  /\ UNCHANGED <<readers, plan, asked, resumed, shown, trouble>>

ChatFails ==
  /\ sending # NoSend /\ Spend
  /\ sending' = NoSend
  /\ UNCHANGED <<readers, plan, asked, resumed, stream, seen, shown>>

LoadChunks ==
  /\ stream.mode # "off" /\ ~stream.loaded
  /\ stream' = Stream(stream.mode, stream.send, TRUE)
  /\ seen' = {c.sequence : c \in Wanted} /\ shown' = shown \cup Wanted
  /\ UNCHANGED <<readers, plan, asked, sending, resumed, trouble>>

(* Mutant: like invoke, only numbers beyond the last one are new. *)
BeyondLast == {c \in Wanted : \A n \in seen : n < c.sequence}
Unseen == {c \in Wanted : c.sequence \notin seen}

PollChunks ==
  /\ stream.loaded /\ Unseen # {}
  /\ \E some \in OnePerNumber(Unseen) :
       shown' = shown \cup some /\ seen' = seen \cup {c.sequence : c \in some}
  /\ UNCHANGED <<readers, plan, asked, sending, resumed, stream, trouble>>

(* The event source lost its connection, or the first load failed. *)
Reconnect ==
  /\ stream.mode # "off" /\ Spend
  /\ Open(stream.mode, stream.send)
  /\ UNCHANGED <<readers, plan, asked, sending, resumed, shown>>

-----------------------------------------------------------------------------
RunStep(r) ==
  \/ StartRun(r) \/ FirstPosted(r) \/ EndWithChunk(r) \/ EndSilently(r) \/ LastPosted(r) \/ AnswerRun(r)
Reading == ChatDone \/ LoadChunks \/ PollChunks
Invoking(s) == Invoke(s) \/ ListChunks(s) \/ GetSend(s) \/ GetFails(s) \/ InvokeFails(s)

ChunkNext ==
  \/ \E s \in Sends : DecideSend(s) \/ AskOther(s) \/ (\E r \in Runs : Dispatch(r, s))
  \/ \E r \in Runs : RunStep(r) \/ OnEvent(r) \/ FirstTimesOut(r) \/ LastTimesOut(r) \/ FailRun(r)
  \/ RestartPod
  \/ \E c \in posts : HandleChunk(c) \/ LoseChunk(c)
  \/ \E s \in CliSends : Invoking(s)
  \/ \E s \in UiSends : ChatStream(s)
  \/ Reading \/ ChatFails \/ Reconnect

ChunkSpec == ChunkInit /\ [][ChunkNext]_chunkVars

(* A run goes on and its session ends, posts arrive or are lost, and the   *)
(* browser polls.  Nothing is assumed of invoke, which has a timeout.      *)
ChunkFairness ==
  /\ \A r \in Runs : WF_chunkVars(RunStep(r))
  /\ WF_chunkVars(\E c \in posts : HandleChunk(c))
  /\ WF_chunkVars(ChatDone) /\ WF_chunkVars(LoadChunks) /\ WF_chunkVars(PollChunks)

FairChunkSpec == ChunkSpec /\ ChunkFairness

-----------------------------------------------------------------------------
Rivals(r) == {q \in Runs \ {r} : sendOf[q] # NoSend /\ SendTail[sendOf[q]] = SendTail[sendOf[r]]}

(* The webhook refuses no chunk of a run (server.go:186-188: names are     *)
(* made of the send and the number) unless the send was dispatched twice   *)
(* or another one's name ends alike, however the posts overtake each other *)
(* and time out.                                                           *)
LoneRunNeverRefused == \A r \in refused : Rivals(r) # {}

(* invoke prints every number once, in order (invoke.go:77-79), whatever   *)
(* is stored between its lists.                                            *)
OutputInOrder ==
  \A s \in CliSends : \A i, j \in DOMAIN cli[s].output :
    i < j => cli[s].output[i].sequence < cli[s].output[j].sequence

(* What the cursor has passed was printed, or came in behind it: gaps in   *)
(* the numbers and several runs lose nothing else.                         *)
OnlyLateMissed ==
  \A s \in CliSends : \A c \in ChunksOf(s) :
    c.sequence < cli[s].printed => c \in ToSet(cli[s].output) \cup late

(* Every stored chunk the browser's stream asks for gets into the log, in  *)
(* whatever order they arrive, unless the stream covers a session in which *)
(* another chunk has its number (main.py:60-87).                           *)
Unshown(c) == c \in Wanted /\ c \notin shown
Masked(c) == stream.mode = "session" /\ c.sequence \in seen
ActivityIsShown == \A r \in Runs : \A n \in Numbers : Unshown(Chunk(r, n)) ~> ~Unshown(Chunk(r, n)) \/ Masked(Chunk(r, n))

(* A browser that waits for a send with a run gets its answer or an error, *)
(* though chunks are lost, refused or time out, unless the run or its      *)
(* answer is lost.                                                         *)
AskedIsAnswered ==
  \A r \in Runs : \A s \in UiSends : sending = s /\ sendOf[r] = s ~> sending # s \/ r \in lost

(* invoke returns without error when the agent has responded (invoke.go:41 *)
(* "Send a message to a KubeCopilotAgent and stream the response").        *)
ReturnsWithTheResponse ==
  \A s \in CliSends : cli[s].step = "returned" => \E r \in Runs : sendOf[r] = s /\ step[r] = "over"
=============================================================================
