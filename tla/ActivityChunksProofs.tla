------------------------ MODULE ActivityChunksProofs ------------------------
(***************************************************************************)
(* Proofs about ActivityChunks: types, the names of chunks, and what       *)
(* kubecopilot invoke prints, for any runs, sends, names, numbers and      *)
(* bounds.                                                                 *)
(***************************************************************************)
EXTENDS ActivityChunks, FiniteSetTheorems, TLAPS

(* A run counts from 0, and posts nothing before it has begun. *)
RunInv ==
  \A r \in Runs :
    /\ sequence[r] \in Numbers
    /\ step[r] = "none" <=> sendOf[r] = NoSend
    /\ step[r] \in {"none", "queued", "first"} => sequence[r] = 0

(* A number is posted once: while a run goes on, what it has posted has    *)
(* lower numbers than the next one.                                        *)
PostInv ==
  /\ IsFiniteSet(chunks) /\ posts \cap chunks = {}
  /\ \A c \in posts \cup chunks :
       /\ step[c.run] \notin {"none", "queued"}
       /\ step[c.run] = "first" => c.sequence = 0
       /\ step[c.run] = "running" => c.sequence < sequence[c.run]

(* The API server keeps the names apart. *)
NameInv == \A c, d \in chunks : SameName(c, d) => c = d

RefusedInv == LoneRunNeverRefused /\ \A r \in refused : step[r] # "none"

OutputInv ==
  /\ OutputInOrder
  /\ \A s \in CliSends : \A i \in DOMAIN cli[s].output : cli[s].output[i].sequence < cli[s].printed

PodInv == RunInv /\ PostInv
ChunkTyped == ChunkTypeOK /\ PodInv

-----------------------------------------------------------------------------
(* What is printed. *)

LEMMA NumbersAre ==
  /\ MaxSequence \in Nat \ {0} /\ MaxTrouble \in Nat /\ NoSend \notin Sends
  /\ CliSends \subseteq Sends /\ UiSends \subseteq Sends /\ Plans \subseteq SUBSET Sends
  /\ Numbers \subseteq Nat /\ 0 \in Numbers /\ 1 \in Numbers
BY ChunksAssumption DEF Numbers, Sends

(* A sort of a finite set is a sequence of all its members. *)
LEMMA InOrderIs ==
  ASSUME NEW cs \in SUBSET Posts, IsFiniteSet(cs), NEW q \in InOrder(cs)
  PROVE  /\ q \in Seq(Posts) /\ ToSet(q) = cs
         /\ q = <<>> <=> cs = {}
         /\ \A i, j \in 1..Len(q) : i < j => q[i] # q[j] /\ q[i].sequence <= q[j].sequence
         /\ q # <<>> => Last(q) \in cs /\ \A i \in 1..Len(q) : q[i].sequence <= Last(q).sequence
<1>1. Cardinality(cs) \in Nat /\ (Cardinality(cs) = 0 <=> cs = {})
  BY FS_CardinalityType, FS_EmptySet
<1>2. /\ q \in [1..Cardinality(cs) -> cs]
      /\ \A i, j \in DOMAIN q : q[i] = q[j] => i = j
      /\ \A c \in cs : \E i \in 1..Cardinality(cs) : q[i] = c
      /\ \A i, j \in DOMAIN q : i < j => q[i].sequence <= q[j].sequence
  BY DEF InOrder, Bijection, Injection, Surjection, IsInjective
<1>3. q \in Seq(cs) /\ q \in Seq(Posts) /\ Len(q) = Cardinality(cs) /\ DOMAIN q = 1..Len(q)
  BY <1>1, <1>2
<1>4. ToSet(q) = cs
  BY <1>2 DEF ToSet
<1>5. q = <<>> <=> cs = {}
  BY <1>1, <1>3
<1>6. \A i, j \in 1..Len(q) : i < j => q[i] # q[j] /\ q[i].sequence <= q[j].sequence
  BY <1>2, <1>3
<1>7. ASSUME q # <<>>
      PROVE  Last(q) \in cs /\ \A i \in 1..Len(q) : q[i].sequence <= Last(q).sequence
  <2>1. Len(q) \in 1..Len(q) /\ Last(q) = q[Len(q)]
    BY <1>1, <1>3, <1>5, <1>7 DEF Last
  <2>2. Last(q) \in cs
    BY <1>2, <1>3, <2>1
  <2>3. Last(q).sequence \in Nat
    BY <2>2, NumbersAre DEF Posts
  <2>4. ASSUME NEW i \in 1..Len(q)
        PROVE  q[i].sequence <= Last(q).sequence
    <3>1. CASE i = Len(q)
      BY <2>1, <2>3, <3>1
    <3>2. CASE i < Len(q)
      BY <1>6, <2>1, <3>2
    <3>3. i = Len(q) \/ i < Len(q)
      BY <1>1, <1>3
    <3> QED
      BY <3>1, <3>2, <3>3
  <2> QED
    BY <2>2, <2>4
<1> QED
  BY <1>3, <1>4, <1>5, <1>6, <1>7

-----------------------------------------------------------------------------
(* Types. *)

LEMMA SpendTyped ==
  ASSUME trouble \in 0..MaxTrouble, Spend
  PROVE  trouble' \in 0..MaxTrouble
BY NumbersAre DEF Spend

LEMMA CreateTyped ==
  ASSUME plan \subseteq Sends, asked \subseteq Sends, NEW s, Create(s)
  PROVE  s \in Sends /\ plan' \subseteq Sends /\ asked' \subseteq Sends
BY DEF Create

(* A step of a run. *)
RunActs(r) == RunStep(r) \/ OnEvent(r) \/ FirstTimesOut(r) \/ LastTimesOut(r) \/ FailRun(r)
Posted(r) == posts' \in {posts, posts \cup {Chunk(r, sequence[r])}}

(* What it does to the rest. *)
LEMMA RunActsTyped ==
  ASSUME ChunkTyped, NEW r \in Runs, RunActs(r)
  PROVE  /\ UNCHANGED <<plan, asked, phase, sendOf, chunks, cliVars, browserVars, refused>>
         /\ responses' \in {responses, responses \cup {sendOf[r]}}
         /\ lost' \subseteq Runs /\ trouble' \in 0..MaxTrouble
         /\ step[r] # "none" /\ sendOf[r] \in Sends
         /\ \E x \in RunSteps \ {"none", "queued"} : step' = [step EXCEPT ![r] = x] \/ step' = step
<1> USE DEF ChunkTyped
<1>1. /\ UNCHANGED <<plan, asked, phase, sendOf, chunks, cliVars, browserVars, refused>>
      /\ responses' \in {responses, responses \cup {sendOf[r]}}
  BY DEF RunActs, RunStep, StartRun, FirstPosted, EndWithChunk, EndSilently, LastPosted, AnswerRun, OnEvent,
         FirstTimesOut, LastTimesOut, FailRun, elsewhere, sendVars
<1>2. lost' \in {lost, lost \cup {r}} /\ (trouble' = trouble \/ Spend)
  BY DEF RunActs, RunStep, StartRun, FirstPosted, EndWithChunk, EndSilently, LastPosted, AnswerRun, OnEvent,
         FirstTimesOut, LastTimesOut, FailRun
<1>3. /\ step[r] # "none"
      /\ \E x \in RunSteps \ {"none", "queued"} : step' = [step EXCEPT ![r] = x] \/ step' = step
  BY DEF RunActs, RunStep, StartRun, FirstPosted, EndWithChunk, EndSilently, LastPosted, AnswerRun, OnEvent,
         FirstTimesOut, LastTimesOut, FailRun, Becomes, RunSteps
<1>4. sendOf[r] \in Sends
  BY <1>3 DEF ChunkTypeOK, PodInv, RunInv
<1> QED
  BY <1>1, <1>2, <1>3, <1>4, SpendTyped DEF ChunkTypeOK

(* Where the run goes, the number it goes on with, and what it posts. *)
RunGoes(r, x, n) ==
  /\ step' = [step EXCEPT ![r] = x] /\ sequence' = [sequence EXCEPT ![r] = n]
  /\ \/ step[r] = "queued" /\ x = "first" /\ n = 0 /\ posts' = posts \cup {Chunk(r, sequence[r])}
     \/ step[r] = "first" /\ x = "running" /\ n = 1 /\ posts' = posts
     \/ /\ step[r] = "running" /\ x = "running" /\ n = sequence[r] + 1 /\ n \in Numbers
        /\ posts' = posts \cup {Chunk(r, sequence[r])}
     \/ step[r] = "running" /\ x = "last" /\ n = sequence[r] /\ posts' = posts \cup {Chunk(r, sequence[r])}
     \/ x \in {"answer", "over"} /\ n = sequence[r] /\ posts' = posts

LEMMA RunActsGo ==
  ASSUME ChunkTyped, NEW r \in Runs, RunActs(r)
  PROVE  \E x \in {"first", "running", "last", "answer", "over"}, n \in Numbers : RunGoes(r, x, n)
<1>t. /\ sequence[r] \in Numbers /\ step \in [Runs -> RunSteps] /\ sequence = [sequence EXCEPT ![r] = sequence[r]]
      /\ step[r] = "running" => step = [step EXCEPT ![r] = "running"]
      /\ step[r] \in {"queued", "first"} => sequence[r] = 0
  BY DEF ChunkTyped, ChunkTypeOK, PodInv, RunInv
<1>1. CASE StartRun(r)
  BY <1>t, <1>1 DEF StartRun, PostChunk, Becomes, RunGoes
<1>2. CASE FirstPosted(r) \/ FirstTimesOut(r)
  BY <1>t, <1>2, NumbersAre DEF FirstPosted, FirstTimesOut, Becomes, CountOn, RunGoes
<1>3. CASE OnEvent(r)
  <2>1. sequence[r] + 1 \in Numbers
    BY <1>t, <1>3, NumbersAre DEF OnEvent, Numbers
  <2> QED
    BY <1>t, <1>3, <2>1 DEF OnEvent, PostChunk, CountOn, RunGoes
<1>4. CASE EndWithChunk(r)
  BY <1>t, <1>4 DEF EndWithChunk, PostChunk, Becomes, RunGoes
<1>5. CASE EndSilently(r) \/ LastPosted(r) \/ LastTimesOut(r) \/ AnswerRun(r) \/ FailRun(r)
  BY <1>t, <1>5 DEF EndSilently, LastPosted, LastTimesOut, AnswerRun, FailRun, Becomes, RunGoes
<1> QED
  BY <1>1, <1>2, <1>3, <1>4, <1>5 DEF RunActs, RunStep

LEMMA RunActsPod ==
  ASSUME ChunkTyped, NEW r \in Runs, RunActs(r)
  PROVE  /\ PodInv'
         /\ step' \in [Runs -> RunSteps] /\ sequence' \in [Runs -> Numbers] /\ posts' \subseteq Posts
<1>t. /\ step \in [Runs -> RunSteps] /\ posts \subseteq Posts /\ chunks \subseteq Posts
      /\ sequence \in [Runs -> Numbers \cup {MaxSequence + 1}]
      /\ RunInv /\ PostInv
  BY DEF ChunkTyped, ChunkTypeOK, PodInv
<1>1. PICK x \in {"first", "running", "last", "answer", "over"}, n \in Numbers : RunGoes(r, x, n)
  BY RunActsGo
<1>2. /\ step'[r] = x /\ sequence'[r] = n
      /\ \A q \in Runs \ {r} : step'[q] = step[q] /\ sequence'[q] = sequence[q]
      /\ step' \in [Runs -> RunSteps] /\ DOMAIN sequence' = Runs
  BY <1>t, <1>1 DEF RunGoes, RunSteps
<1>3. sendOf' = sendOf /\ chunks' = chunks /\ step[r] # "none" /\ sequence[r] \in Numbers
  BY <1>t, RunActsTyped DEF RunInv
<1>4. sequence' \in [Runs -> Numbers] /\ posts' \subseteq Posts
  <2>1. Chunk(r, sequence[r]) \in Posts
    BY <1>3 DEF Chunk, Posts
  <2>2. posts' \subseteq Posts
    BY <1>t, <1>1, <2>1 DEF RunGoes
  <2>3. sequence' = [q \in Runs |-> IF q = r THEN n ELSE sequence[q]]
    BY <1>t, <1>1 DEF RunGoes
  <2>4. \A q \in Runs : sequence[q] \in Numbers
    BY <1>t DEF RunInv
  <2> QED
    BY <2>2, <2>3, <2>4
<1>5. RunInv'
  BY <1>t, <1>1, <1>2, <1>3, <1>4 DEF RunInv, RunGoes
<1>6. PostInv'
  <2>1. Chunk(r, sequence[r]).run = r /\ Chunk(r, sequence[r]).sequence = sequence[r]
    BY DEF Chunk
  <2>2. \A c \in posts \cup chunks : c.run = r /\ step[r] = "running" => c.sequence < sequence[r]
    BY <1>t DEF PostInv
  <2>3. posts' # posts => Chunk(r, sequence[r]) \notin chunks
    <3>1. posts' # posts => step[r] \in {"queued", "running"}
      BY <1>1 DEF RunGoes
    <3>2. sequence[r] \in Nat
      BY <1>3, NumbersAre
    <3> QED
      BY <1>t, <2>1, <2>2, <3>1, <3>2 DEF PostInv
  <2>4. posts' \subseteq posts \cup {Chunk(r, sequence[r])}
    BY <1>1 DEF RunGoes
  <2>5. posts' \cap chunks = {}
    BY <1>t, <2>3, <2>4 DEF PostInv
  <2>6. ASSUME NEW c \in posts' \cup chunks
        PROVE  /\ step'[c.run] \notin {"none", "queued"}
               /\ step'[c.run] = "first" => c.sequence = 0
               /\ step'[c.run] = "running" => c.sequence < sequence'[c.run]
    <3>1. c.run \in Runs /\ c.sequence \in Nat /\ sequence[r] \in Nat
      BY <1>t, <1>3, <1>4, NumbersAre DEF Posts
    <3>2. CASE c.run # r
      <4>1. c \in posts \cup chunks
        BY <2>1, <2>4, <3>2
      <4> QED
        BY <1>2, <1>t, <3>1, <3>2, <4>1 DEF PostInv
    <3>3. CASE c.run = r
      <4>1. CASE c \in posts \cup chunks
        <5>1. step[r] \notin {"none", "queued"} /\ (step[r] = "first" => c.sequence = 0)
          BY <1>t, <3>3, <4>1 DEF PostInv
        <5>2. x = "running" => c.sequence < n
          BY <1>1, <2>2, <3>1, <3>3, <4>1, <5>1 DEF RunGoes
        <5> QED
          BY <1>1, <1>2, <3>3, <5>1, <5>2 DEF RunGoes
      <4>2. CASE c \notin posts \cup chunks
        <5>1. c.sequence = sequence[r] /\ posts' # posts
          BY <2>1, <2>4, <4>2
        <5>2. step[r] = "queued" => sequence[r] = 0
          BY <1>t DEF RunInv
        <5> QED
          BY <1>1, <1>2, <3>1, <3>3, <5>1, <5>2 DEF RunGoes
      <4> QED
        BY <4>1, <4>2
    <3> QED
      BY <3>2, <3>3
  <2> QED
    BY <1>t, <1>3, <2>5, <2>6 DEF PostInv
<1> QED
  BY <1>2, <1>4, <1>5, <1>6 DEF PodInv

(* The other steps, by the part of the state they change. *)
SendsTyped ==
  /\ plan \subseteq Sends /\ asked \subseteq Sends /\ phase \in [CliSends -> SendPhases]
  /\ sendOf \in [Runs -> Sends \cup {NoSend}]
PodTyped ==
  /\ step \in [Runs -> RunSteps] /\ sequence \in [Runs -> Numbers \cup {MaxSequence + 1}]
  /\ posts \subseteq Posts /\ chunks \subseteq Posts /\ late \subseteq Posts
  /\ responses \subseteq Sends /\ refused \subseteq Runs /\ lost \subseteq Runs
CliTyped ==
  /\ DOMAIN cli = CliSends
  /\ \A s \in CliSends :
       cli[s] \in [step : CliSteps, printed : Numbers \cup {MaxSequence + 1}, output : Seq(Posts)]
BrowserTyped ==
  /\ sending \in UiSends \cup {NoSend} /\ resumed \subseteq UiSends
  /\ stream \in [mode : {"off", "send", "session"}, send : UiSends \cup {NoSend}, loaded : BOOLEAN]
  /\ seen \subseteq Numbers /\ shown \subseteq Posts
Bounded == trouble \in 0..MaxTrouble

LEMMA TypesAre ==
  ChunkTypeOK <=> SendsTyped /\ PodTyped /\ CliTyped /\ BrowserTyped /\ Bounded
BY DEF ChunkTypeOK, SendsTyped, PodTyped, CliTyped, BrowserTyped, Bounded

LEMMA TypesNext ==
  ASSUME SendsTyped', PodTyped', CliTyped', BrowserTyped', Bounded', PodInv'
  PROVE  ChunkTyped'
BY DEF ChunkTyped, ChunkTypeOK, SendsTyped, PodTyped, CliTyped, BrowserTyped, Bounded

SendsSame == UNCHANGED sendVars
PodSame == UNCHANGED <<podVars, posts, chunks, responses, refused, lost, late>>
CliSame == UNCHANGED cli
BrowserSame == UNCHANGED browserVars
TroubleSame == trouble' = trouble

LEMMA SameTyped ==
  ASSUME ChunkTyped
  PROVE  /\ SendsSame => SendsTyped'
         /\ PodSame => PodTyped'
         /\ PodSame /\ sendOf' = sendOf => PodInv'
         /\ CliSame => CliTyped'
         /\ BrowserSame => BrowserTyped'
         /\ TroubleSame \/ Spend => Bounded'
<1>1. SendsTyped /\ PodTyped /\ CliTyped /\ BrowserTyped /\ Bounded
  BY TypesAre DEF ChunkTyped
<1>2. PodSame /\ sendOf' = sendOf => PodInv'
  BY DEF ChunkTyped, PodSame, podVars, PodInv, RunInv, PostInv
<1> QED
  BY <1>1, <1>2, SpendTyped
     DEF SendsSame, sendVars, SendsTyped, PodSame, podVars, PodTyped, CliSame, CliTyped, BrowserSame, browserVars,
         BrowserTyped, TroubleSame, Bounded

LEMMA RunsTyped ==
  ASSUME ChunkTyped, NEW r \in Runs, RunActs(r)
  PROVE  ChunkTyped'
<1>1. SendsTyped /\ PodTyped /\ CliTyped /\ BrowserTyped /\ Bounded
  BY TypesAre DEF ChunkTyped
<1>2. SendsSame /\ CliSame /\ BrowserSame /\ Bounded'
  BY RunActsTyped DEF SendsSame, sendVars, CliSame, cliVars, BrowserSame, browserVars, Bounded
<1>3. PodTyped'
  BY <1>1, RunActsTyped, RunActsPod DEF PodTyped, cliVars
<1> QED
  BY <1>2, <1>3, RunActsPod, SameTyped, TypesNext

LEMMA SendsAskedTyped ==
  ASSUME ChunkTyped, NEW s \in Sends, DecideSend(s) \/ AskOther(s) \/ \E r \in Runs : Dispatch(r, s)
  PROVE  ChunkTyped'
<1>1. SendsTyped /\ PodTyped /\ CliTyped /\ BrowserTyped /\ Bounded /\ PodInv
  BY TypesAre DEF ChunkTyped
<1>2. CliSame /\ BrowserSame /\ (TroubleSame \/ Spend)
  BY DEF DecideSend, AskOther, Dispatch, CliSame, cliVars, BrowserSame, TroubleSame
<1>3. CASE DecideSend(s) \/ AskOther(s)
  <2>1. SendsTyped'
    BY <1>1, <1>3, CreateTyped DEF SendsTyped, DecideSend, AskOther, SendPhases
  <2>2. PodSame /\ sendOf' = sendOf
    BY <1>3 DEF DecideSend, AskOther, PodSame, cliVars
  <2> QED
    BY <1>2, <2>1, <2>2, SameTyped, TypesNext
<1>4. ASSUME NEW r \in Runs, Dispatch(r, s)
      PROVE  ChunkTyped'
  <2>1. SendsTyped' /\ PodTyped'
    BY <1>1, <1>4 DEF SendsTyped, PodTyped, Dispatch, RunSteps, cliVars
  <2>2. /\ step[r] = "none" /\ step'[r] = "queued" /\ sendOf'[r] = s
        /\ \A q \in Runs \ {r} : step'[q] = step[q] /\ sendOf'[q] = sendOf[q]
        /\ UNCHANGED <<sequence, posts, chunks>>
    BY <1>1, <1>4 DEF Dispatch, SendsTyped, PodTyped
  <2>3. RunInv'
    BY <1>1, <2>2, NumbersAre DEF PodInv, RunInv
  <2>4. \A c \in posts \cup chunks : c.run \in Runs \ {r}
    BY <1>1, <2>2 DEF PodInv, PostInv, PodTyped, Posts
  <2>5. PostInv'
    BY <1>1, <2>2, <2>4 DEF PodInv, PostInv
  <2> QED
    BY <1>2, <2>1, <2>3, <2>5, SameTyped, TypesNext DEF PodInv
<1> QED
  BY <1>3, <1>4

LEMMA WebhookTyped ==
  ASSUME ChunkTyped, NEW c \in posts, HandleChunk(c) \/ LoseChunk(c)
  PROVE  ChunkTyped'
<1>1. SendsTyped /\ PodTyped /\ CliTyped /\ BrowserTyped /\ Bounded /\ PodInv
  BY TypesAre DEF ChunkTyped
<1>2. SendsSame /\ CliSame /\ BrowserSame /\ (TroubleSame \/ Spend)
  BY DEF HandleChunk, LoseChunk, elsewhere, SendsSame, CliSame, cliVars, BrowserSame, TroubleSame
<1>3. /\ posts' = posts \ {c} /\ chunks' \in {chunks, chunks \cup {c}} /\ late' \in {late, late \cup {c}}
      /\ refused' \in {refused, refused \cup {c.run}}
      /\ UNCHANGED <<step, sequence, sendOf, responses, lost>>
  BY DEF HandleChunk, LoseChunk, elsewhere, podVars, cliVars, sendVars
<1>4. PodTyped'
  BY <1>1, <1>3 DEF PodTyped, Posts
<1>5. PodInv'
  <2>1. RunInv'
    BY <1>1, <1>3 DEF PodInv, RunInv
  <2>2. IsFiniteSet(chunks')
    BY <1>1, <1>3, FS_AddElement DEF PodInv, PostInv
  <2>3. posts' \cap chunks' = {} /\ posts' \cup chunks' \subseteq posts \cup chunks
    BY <1>1, <1>3 DEF PodInv, PostInv
  <2>4. PostInv'
    BY <1>1, <1>3, <2>2, <2>3 DEF PodInv, PostInv
  <2> QED
    BY <2>1, <2>4 DEF PodInv
<1> QED
  BY <1>2, <1>4, <1>5, SameTyped, TypesNext

LEMMA RestartTyped ==
  ASSUME ChunkTyped, RestartPod
  PROVE  ChunkTyped'
<1>1. SendsTyped /\ PodTyped /\ CliTyped /\ BrowserTyped /\ Bounded /\ PodInv
  BY TypesAre DEF ChunkTyped
<1>2. SendsSame /\ CliSame /\ BrowserSame /\ (TroubleSame \/ Spend)
  BY DEF RestartPod, elsewhere, SendsSame, CliSame, cliVars, BrowserSame, TroubleSame
<1>3. /\ step' = [r \in Runs |-> IF step[r] = "none" THEN "none" ELSE "over"]
      /\ lost' \subseteq lost \cup Runs /\ posts' \subseteq posts
      /\ UNCHANGED <<sequence, chunks, late, refused, responses, sendOf>>
  BY DEF RestartPod, elsewhere, cliVars, sendVars
<1>4. PodTyped'
  BY <1>1, <1>3 DEF PodTyped, RunSteps
<1>5. RunInv'
  BY <1>1, <1>3 DEF PodInv, RunInv
<1>6. PostInv'
  BY <1>1, <1>3 DEF PodInv, PostInv, PodTyped, Posts
<1> QED
  BY <1>2, <1>4, <1>5, <1>6, SameTyped, TypesNext DEF PodInv

LEMMA CliNow ==
  ASSUME CliTyped, NEW s \in CliSends, NEW c, cli' = [cli EXCEPT ![s] = c]
  PROVE  /\ DOMAIN cli' = CliSends
         /\ cli'[s] = c /\ \A t \in CliSends \ {s} : cli'[t] = cli[t]
BY DEF CliTyped

LEMMA CliIs ==
  ASSUME CliTyped, NEW s \in CliSends
  PROVE  /\ cli[s].step \in CliSteps /\ cli[s].output \in Seq(Posts)
         /\ cli[s].printed \in Numbers \cup {MaxSequence + 1} /\ cli[s].printed \in Nat
<1>1. cli[s] \in [step : CliSteps, printed : Numbers \cup {MaxSequence + 1}, output : Seq(Posts)]
  BY DEF CliTyped
<1>2. MaxSequence + 1 \in Nat /\ Numbers \subseteq Nat
  BY NumbersAre
<1> QED
  BY <1>1, <1>2

(* What invoke makes of the list, and what else it does. *)
LEMMA PrintedIs ==
  ASSUME ChunkTyped, NEW s \in CliSends, PrintNew(s)
  PROVE  \E q \in Seq(Posts) :
           /\ ToSet(q) \in OnePerNumber(NewChunks(s))
           /\ \A i, j \in 1..Len(q) : i < j => q[i].sequence < q[j].sequence
           /\ \E n \in Nat :
                /\ cli' = [cli EXCEPT ![s] = Cli("get", n, cli[s].output \o q)]
                /\ IF q = <<>> THEN n = cli[s].printed
                   ELSE n \in Numbers \cup {MaxSequence + 1} /\ n > cli[s].printed
                /\ \A i \in 1..Len(q) : q[i].sequence < n /\ q[i].sequence >= cli[s].printed
<1>1. /\ NewChunks(s) \subseteq Posts /\ IsFiniteSet(NewChunks(s)) /\ cli[s].printed \in Nat
      /\ MaxSequence + 1 \in Nat
  <2>1. NewChunks(s) \subseteq chunks
    BY DEF NewChunks, ChunksOf
  <2>2. cli[s].printed \in Nat /\ MaxSequence + 1 \in Nat
    BY CliIs, NumbersAre, TypesAre DEF ChunkTyped
  <2> QED
    BY <2>1, <2>2, FS_Subset DEF ChunkTyped, ChunkTypeOK, PodInv, PostInv
<1>s. PICK some \in OnePerNumber(NewChunks(s)) : \E q \in InOrder(some) :
        Prints(s, q, IF q = <<>> THEN cli[s].printed ELSE Last(q).sequence + 1)
  BY DEF PrintNew
<1>2. PICK q \in InOrder(some) :
        Prints(s, q, IF q = <<>> THEN cli[s].printed ELSE Last(q).sequence + 1)
  BY <1>s
<1>o. /\ some \subseteq NewChunks(s) /\ IsFiniteSet(some)
      /\ \A c, d \in some : c.sequence = d.sequence => c = d
  BY <1>1, FS_Subset DEF OnePerNumber
<1>5. \A c \in NewChunks(s) : c.sequence \in Numbers /\ c.sequence \in Nat /\ c.sequence >= cli[s].printed
  BY <1>1, NumbersAre DEF NewChunks, Posts
<1>q. /\ q \in Seq(Posts) /\ ToSet(q) = some
      /\ \A i, j \in 1..Len(q) : i < j => q[i] # q[j] /\ q[i].sequence <= q[j].sequence
      /\ q # <<>> => Last(q) \in some /\ \A i \in 1..Len(q) : q[i].sequence <= Last(q).sequence
  BY <1>1, <1>o, InOrderIs
<1>m. \A i \in 1..Len(q) : q[i] \in some
  BY <1>q DEF ToSet
<1>3. /\ q \in Seq(Posts) /\ ToSet(q) \in OnePerNumber(NewChunks(s))
      /\ \A i, j \in 1..Len(q) : i < j => q[i].sequence < q[j].sequence
      /\ q # <<>> => Last(q) \in NewChunks(s) /\ \A i \in 1..Len(q) : q[i].sequence <= Last(q).sequence
  <2>1. ASSUME NEW i \in 1..Len(q), NEW j \in 1..Len(q), i < j
        PROVE  q[i].sequence < q[j].sequence
    <3>1. q[i] \in some /\ q[j] \in some /\ q[i] # q[j] /\ q[i].sequence <= q[j].sequence
      BY <1>q, <1>m, <2>1
    <3>2. q[i].sequence \in Nat /\ q[j].sequence \in Nat /\ q[i].sequence # q[j].sequence
      BY <1>5, <1>o, <3>1
    <3> QED
      BY <3>1, <3>2
  <2> QED
    BY <1>s, <1>o, <1>q, <2>1
<1>4. \A i \in 1..Len(q) : q[i] \in NewChunks(s)
  BY <1>m, <1>o
<1> DEFINE n == IF q = <<>> THEN cli[s].printed ELSE Last(q).sequence + 1
<1>6. CASE q = <<>>
  <2>1. n = cli[s].printed /\ Len(q) = 0
    BY <1>6
  <2>2. cli' = [cli EXCEPT ![s] = Cli("get", cli[s].printed, cli[s].output \o q)]
    BY <1>2, <2>1 DEF Prints, CliBecomes
  <2>3. \A i \in 1..Len(q) : FALSE
    BY <2>1
  <2> HIDE DEF n
  <2> QED
    BY <1>1, <1>3, <1>6, <2>2, <2>3
<1>7. CASE q # <<>>
  <2>1. n = Last(q).sequence + 1 /\ Last(q) \in NewChunks(s)
    BY <1>3, <1>7
  <2>2. n \in Nat /\ n \in Numbers \cup {MaxSequence + 1} /\ n > cli[s].printed
    BY <1>1, <1>5, <2>1, NumbersAre DEF Numbers
  <2>3. \A i \in 1..Len(q) : q[i].sequence < n /\ q[i].sequence >= cli[s].printed
    BY <1>3, <1>4, <1>5, <1>7, <2>1
  <2>4. cli' = [cli EXCEPT ![s] = Cli("get", n, cli[s].output \o q)]
    BY <1>2 DEF Prints, CliBecomes
  <2> HIDE DEF n
  <2> QED
    BY <1>3, <1>7, <2>2, <2>3, <2>4
<1> QED
  BY <1>6, <1>7

(* It goes on from what it has printed. *)
CliMoves(s) == \E x \in CliSteps : cli' = [cli EXCEPT ![s] = Cli(x, cli[s].printed, cli[s].output)]

LEMMA InvokingIs ==
  ASSUME NEW s \in CliSends, Invoking(s)
  PROVE  /\ CliMoves(s) \/ PrintNew(s)
         /\ UNCHANGED others /\ (TroubleSame \/ Spend)
         /\ UNCHANGED <<plan, asked>> \/ Create(s)
<1>1. CASE Invoke(s)
  BY <1>1 DEF Invoke, CliAt, CliBecomes, CliMoves, CliSteps, TroubleSame
<1>2. CASE ListChunks(s)
  BY <1>2 DEF ListChunks, TroubleSame
<1>3. CASE GetSend(s)
  <2>1. \E x \in {"returned", "failed", "list"} : CliAt(s, x)
    BY <1>3 DEF GetSend
  <2> QED
    BY <1>3, <2>1 DEF GetSend, CliAt, CliBecomes, CliMoves, CliSteps, TroubleSame
<1>4. CASE GetFails(s) \/ InvokeFails(s)
  BY <1>4 DEF GetFails, InvokeFails, CliAt, CliBecomes, CliMoves, CliSteps, TroubleSame
<1> QED
  BY <1>1, <1>2, <1>3, <1>4 DEF Invoking

LEMMA InvokingTyped ==
  ASSUME ChunkTyped, NEW s \in CliSends, Invoking(s)
  PROVE  ChunkTyped'
<1>1. SendsTyped /\ CliTyped
  BY TypesAre DEF ChunkTyped
<1>2. PodSame /\ BrowserSame /\ sendOf' = sendOf /\ phase' = phase /\ (TroubleSame \/ Spend)
  BY InvokingIs DEF others, PodSame, BrowserSame
<1>3. SendsTyped'
  BY <1>1, <1>2, InvokingIs, CreateTyped DEF SendsTyped
<1> DEFINE State == [step : CliSteps, printed : Numbers \cup {MaxSequence + 1}, output : Seq(Posts)]
<1>4. PICK c \in State : cli' = [cli EXCEPT ![s] = c]
  <2>1. CASE CliMoves(s)
    <3>1. PICK x \in CliSteps : cli' = [cli EXCEPT ![s] = Cli(x, cli[s].printed, cli[s].output)]
      BY <2>1 DEF CliMoves
    <3>2. Cli(x, cli[s].printed, cli[s].output) \in State
      BY <1>1, CliIs DEF Cli
    <3> QED
      BY <3>1, <3>2
  <2>2. CASE PrintNew(s)
    <3>1. PICK q \in Seq(Posts), n \in Nat :
            /\ cli' = [cli EXCEPT ![s] = Cli("get", n, cli[s].output \o q)]
            /\ IF q = <<>> THEN n = cli[s].printed ELSE n \in Numbers \cup {MaxSequence + 1}
      BY <2>2, PrintedIs
    <3>2. n \in Numbers \cup {MaxSequence + 1}
      BY <1>1, <3>1, CliIs
    <3>3. cli[s].output \o q \in Seq(Posts) /\ "get" \in CliSteps
      BY <1>1, CliIs DEF CliSteps
    <3>4. Cli("get", n, cli[s].output \o q) \in State
      BY <3>2, <3>3 DEF Cli
    <3> QED
      BY <3>1, <3>4
  <2> QED
    BY <2>1, <2>2, InvokingIs
<1>5. CliTyped'
  BY <1>1, <1>4, CliNow DEF CliTyped
<1> QED
  BY <1>2, <1>3, <1>5, SameTyped, TypesNext

(* The browser. *)
Browsing == Reading \/ ChatFails \/ Reconnect \/ \E s \in UiSends : ChatStream(s)

LEMMA WantedTyped ==
  ASSUME PodTyped, BrowserTyped
  PROVE  /\ Wanted \subseteq Posts /\ {c.sequence : c \in Wanted} \subseteq Numbers
         /\ Unseen \subseteq Wanted
<1>1. stream.mode \in {"off", "send", "session"}
  BY DEF BrowserTyped
<1>2. Wanted \subseteq chunks
  BY <1>1 DEF Wanted, ChunksOf
<1>3. Wanted \subseteq Posts
  BY <1>2 DEF PodTyped
<1>4. \A c \in Wanted : c.sequence \in Numbers
  BY <1>3 DEF Posts
<1> QED
  BY <1>3, <1>4 DEF Unseen

LEMMA StreamTyped ==
  ASSUME NEW mode \in {"off", "send", "session"}, NEW s \in UiSends \cup {NoSend}, NEW loaded \in BOOLEAN
  PROVE  Stream(mode, s, loaded)
           \in [mode : {"off", "send", "session"}, send : UiSends \cup {NoSend}, loaded : BOOLEAN]
BY DEF Stream

LEMMA OpenTyped ==
  ASSUME NEW mode \in {"off", "send", "session"}, NEW s \in UiSends \cup {NoSend}, Open(mode, s)
  PROVE  stream' \in [mode : {"off", "send", "session"}, send : UiSends \cup {NoSend}, loaded : BOOLEAN]
         /\ seen' \subseteq Numbers
BY StreamTyped DEF Open

LEMMA BrowsingTyped ==
  ASSUME ChunkTyped, Browsing
  PROVE  ChunkTyped'
<1>1. SendsTyped /\ PodTyped /\ BrowserTyped
  BY TypesAre DEF ChunkTyped
<1>s. /\ stream.mode \in {"off", "send", "session"} /\ stream.send \in UiSends \cup {NoSend}
      /\ UiSends \subseteq Sends
  BY <1>1, NumbersAre DEF BrowserTyped
<1>2. /\ PodSame /\ CliSame /\ sendOf' = sendOf /\ phase' = phase /\ (TroubleSame \/ Spend)
      /\ UNCHANGED <<plan, asked>> \/ \E s \in UiSends : Create(s)
  BY DEF Browsing, Reading, ChatFails, Reconnect, ChatStream, ChatDone, LoadChunks, PollChunks, readers, cliVars,
         PodSame, CliSame, TroubleSame
<1>3. SendsTyped'
  BY <1>1, <1>2, CreateTyped DEF SendsTyped
<1>b. BrowserTyped'
  <2>4. CASE \E s \in UiSends : ChatStream(s)
    <3>1. PICK s \in UiSends : ChatStream(s)
      BY <2>4
    <3>2. sending' = s /\ Open("send", s) /\ shown' = {} /\ resumed' \in {resumed, resumed \cup {s}}
      BY <3>1 DEF ChatStream
    <3> QED
      BY <1>1, <3>2, OpenTyped DEF BrowserTyped
  <2>5. CASE ChatDone
    <3>1. sending' = NoSend /\ Open("session", NoSend) /\ UNCHANGED <<resumed, shown>>
      BY <2>5 DEF ChatDone
    <3> QED
      BY <1>1, <3>1, OpenTyped DEF BrowserTyped
  <2>6. CASE LoadChunks
    <3>1. /\ stream' = Stream(stream.mode, stream.send, TRUE)
          /\ seen' = {c.sequence : c \in Wanted} /\ shown' = shown \cup Wanted
          /\ UNCHANGED <<sending, resumed>>
      BY <2>6 DEF LoadChunks
    <3>2. seen' \subseteq Numbers /\ shown' \subseteq Posts
      BY <1>1, <3>1, WantedTyped DEF BrowserTyped
    <3> QED
      BY <1>1, <1>s, <3>1, <3>2, StreamTyped DEF BrowserTyped
  <2>7. CASE PollChunks
    <3>1. PICK some \in SUBSET Unseen : shown' = shown \cup some /\ seen' = seen \cup {c.sequence : c \in some}
      BY <2>7 DEF PollChunks, OnePerNumber
    <3>2. some \subseteq Posts /\ {c.sequence : c \in some} \subseteq Numbers
      BY <1>1, WantedTyped
    <3>3. seen' \subseteq Numbers /\ shown' \subseteq Posts
      BY <1>1, <3>1, <3>2 DEF BrowserTyped
    <3>4. UNCHANGED <<sending, resumed, stream>>
      BY <2>7 DEF PollChunks
    <3> QED
      BY <1>1, <3>3, <3>4 DEF BrowserTyped
  <2>8. CASE ChatFails
    BY <1>1, <2>8 DEF ChatFails, BrowserTyped
  <2>9. CASE Reconnect
    BY <1>1, <1>s, <2>9, OpenTyped DEF Reconnect, BrowserTyped
  <2> QED
    BY <2>4, <2>5, <2>6, <2>7, <2>8, <2>9 DEF Browsing, Reading
<1> QED
  BY <1>2, <1>3, <1>b, SameTyped, TypesNext

LEMMA ChunkTypedInit ==
  ASSUME ChunkInit
  PROVE  ChunkTyped
<1>0. "" \in SendPhases
  BY DEF SendPhases
<1>1. SendsTyped
  <2>1. phase \in [CliSends -> {""}]
    BY DEF ChunkInit
  <2>2. plan \subseteq Sends /\ asked = {} /\ sendOf \in [Runs -> Sends \cup {NoSend}]
    BY NumbersAre DEF ChunkInit
  <2> QED
    BY <1>0, <2>1, <2>2 DEF SendsTyped
<1>p. PodTyped /\ Bounded
  <2>1. step \in [Runs -> RunSteps] /\ sequence \in [Runs -> Numbers]
    BY NumbersAre DEF ChunkInit, RunSteps
  <2>2. posts = {} /\ chunks = {} /\ late = {} /\ responses = {} /\ refused = {} /\ lost = {} /\ trouble = 0
    BY DEF ChunkInit
  <2> QED
    BY <2>1, <2>2, NumbersAre DEF PodTyped, Bounded
<1>2. CliTyped
  <2>1. Cli("off", 0, <<>>) \in [step : CliSteps, printed : Numbers \cup {MaxSequence + 1}, output : Seq(Posts)]
    BY NumbersAre DEF Cli, CliSteps
  <2> QED
    BY <2>1 DEF ChunkInit, CliTyped
<1>3. BrowserTyped
  BY StreamTyped DEF ChunkInit, BrowserTyped
<1>4. PodInv
  BY NumbersAre, FS_EmptySet DEF ChunkInit, PodInv, RunInv, PostInv
<1> QED
  BY <1>1, <1>p, <1>2, <1>3, <1>4, TypesAre DEF ChunkTyped

LEMMA ChunkNextIs ==
  ASSUME ChunkNext
  PROVE  \/ \E s \in Sends : DecideSend(s) \/ AskOther(s) \/ (\E r \in Runs : Dispatch(r, s))
         \/ \E r \in Runs : RunActs(r)
         \/ RestartPod
         \/ \E c \in posts : HandleChunk(c) \/ LoseChunk(c)
         \/ \E s \in CliSends : Invoking(s)
         \/ Browsing
BY DEF ChunkNext, RunActs, Browsing

LEMMA ChunkTypedNext ==
  ASSUME ChunkTyped, [ChunkNext]_chunkVars
  PROVE  ChunkTyped'
<1>1. CASE ChunkNext
  BY <1>1, ChunkNextIs, SendsAskedTyped, RunsTyped, RestartTyped, WebhookTyped, InvokingTyped, BrowsingTyped
<1>2. CASE UNCHANGED chunkVars
  BY <1>2, SameTyped, TypesNext
     DEF chunkVars, SendsSame, sendVars, PodSame, podVars, CliSame, cliVars, BrowserSame, TroubleSame
<1> QED
  BY <1>1, <1>2

(* What the pod posts, the webhook stores and the readers keep stays of    *)
(* its type: no chunk gets a number beyond the last, and invoke's cursor   *)
(* is at most one behind it.                                               *)
THEOREM ChunksTyped == ChunkSpec => []ChunkTypeOK
<1>1. ChunkInit => ChunkTyped
  BY ChunkTypedInit
<1>2. ChunkTyped /\ [ChunkNext]_chunkVars => ChunkTyped'
  BY ChunkTypedNext
<1>3. ChunkTyped => ChunkTypeOK
  BY DEF ChunkTyped
<1> QED
  BY <1>1, <1>2, <1>3, PTL DEF ChunkSpec

-----------------------------------------------------------------------------
(* Names. *)

(* A run that has begun keeps its send. *)
LEMMA SendsKept ==
  ASSUME ChunkTyped, [ChunkNext]_chunkVars, NEW r \in Runs, step[r] # "none"
  PROVE  step'[r] # "none" /\ sendOf'[r] = sendOf[r]
<1>1. step \in [Runs -> RunSteps] /\ sendOf \in [Runs -> Sends \cup {NoSend}]
  BY DEF ChunkTyped, ChunkTypeOK
<1>2. ASSUME NEW s \in Sends, DecideSend(s) \/ AskOther(s) \/ (\E q \in Runs : Dispatch(q, s))
      PROVE  step'[r] # "none" /\ sendOf'[r] = sendOf[r]
  BY <1>1, <1>2 DEF DecideSend, AskOther, Dispatch, podVars
<1>3. ASSUME NEW q \in Runs, RunActs(q)
      PROVE  step'[r] # "none" /\ sendOf'[r] = sendOf[r]
  <2>1. sendOf' = sendOf
    BY <1>3, RunActsTyped
  <2>2. PICK x \in RunSteps \ {"none", "queued"} : step' = [step EXCEPT ![q] = x] \/ step' = step
    BY <1>3, RunActsTyped
  <2> QED
    BY <1>1, <2>1, <2>2
<1>4. CASE RestartPod
  BY <1>4 DEF RestartPod, elsewhere, sendVars
<1>5. ASSUME NEW c \in posts, HandleChunk(c) \/ LoseChunk(c)
      PROVE  step'[r] # "none" /\ sendOf'[r] = sendOf[r]
  BY <1>5 DEF HandleChunk, LoseChunk, elsewhere, sendVars, podVars
<1>6. ASSUME NEW s \in CliSends, Invoking(s)
      PROVE  step'[r] # "none" /\ sendOf'[r] = sendOf[r]
  BY <1>6, InvokingIs DEF others, podVars
<1>7. CASE Browsing
  BY <1>7 DEF Browsing, Reading, ChatFails, Reconnect, ChatStream, ChatDone, LoadChunks, PollChunks, readers, podVars
<1>8. CASE UNCHANGED chunkVars
  BY <1>8 DEF chunkVars, sendVars, podVars
<1> QED
  BY <1>2, <1>3, <1>4, <1>5, <1>6, <1>7, <1>8, ChunkNextIs

(* Only the webhook stores or refuses, and only invoke prints. *)
LEMMA OnlyHandled ==
  ASSUME ChunkTyped, [ChunkNext]_chunkVars
  PROVE  \/ \E c \in posts : HandleChunk(c)
         \/ \E s \in CliSends : Invoking(s)
         \/ UNCHANGED <<chunks, late, refused, cli>>
<1>2. ASSUME NEW s \in Sends, DecideSend(s) \/ AskOther(s) \/ (\E q \in Runs : Dispatch(q, s))
      PROVE  UNCHANGED <<chunks, late, refused, cli>>
  BY <1>2 DEF DecideSend, AskOther, Dispatch, cliVars
<1>3. ASSUME NEW q \in Runs, RunActs(q)
      PROVE  UNCHANGED <<chunks, late, refused, cli>>
  BY <1>3, RunActsTyped DEF cliVars
<1>4. CASE RestartPod
  BY <1>4 DEF RestartPod, elsewhere, cliVars
<1>5. ASSUME NEW c \in posts, LoseChunk(c)
      PROVE  UNCHANGED <<chunks, late, refused, cli>>
  BY <1>5 DEF LoseChunk, elsewhere, cliVars
<1>7. CASE Browsing
  BY <1>7 DEF Browsing, Reading, ChatFails, Reconnect, ChatStream, ChatDone, LoadChunks, PollChunks, readers, cliVars
<1>8. CASE UNCHANGED chunkVars
  BY <1>8 DEF chunkVars, cliVars
<1> QED
  BY <1>2, <1>3, <1>4, <1>5, <1>7, <1>8, ChunkNextIs

(* A stored chunk has a send, and keeps it. *)
LEMMA StoredKept ==
  ASSUME ChunkTyped, NEW c \in posts \cup chunks
  PROVE  /\ c.run \in Runs /\ c.sequence \in Nat /\ step[c.run] # "none" /\ Ref(c) \in Sends
         /\ [ChunkNext]_chunkVars => sendOf'[c.run] = Ref(c)
<1>1. c \in Posts
  BY DEF ChunkTyped, ChunkTypeOK
<1>2. c.run \in Runs /\ c.sequence \in Nat
  BY <1>1, NumbersAre DEF Posts
<1>3. step[c.run] # "none" /\ sendOf[c.run] \in Sends
  BY <1>2 DEF ChunkTyped, ChunkTypeOK, PodInv, RunInv, PostInv
<1> QED
  BY <1>2, <1>3, SendsKept DEF Ref

LEMMA RefusedNext ==
  ASSUME ChunkTyped, RefusedInv, [ChunkNext]_chunkVars
  PROVE  RefusedInv'
<1>1. refused \subseteq Runs /\ posts \subseteq Posts /\ chunks \subseteq Posts
  BY DEF ChunkTyped, ChunkTypeOK
<1>2. ASSUME NEW r \in refused
      PROVE  step'[r] # "none" /\ \E q \in Runs \ {r} : sendOf'[q] # NoSend /\ SendTail[sendOf'[q]] = SendTail[sendOf'[r]]
  <2>1. r \in Runs /\ step'[r] # "none" /\ sendOf'[r] = sendOf[r]
    BY <1>1, SendsKept DEF RefusedInv
  <2>2. PICK q \in Runs \ {r} : sendOf[q] # NoSend /\ SendTail[sendOf[q]] = SendTail[sendOf[r]]
    BY DEF RefusedInv, LoneRunNeverRefused, Rivals
  <2>3. sendOf'[q] = sendOf[q]
    BY <2>2, SendsKept DEF ChunkTyped, PodInv, RunInv
  <2> QED
    BY <2>1, <2>2, <2>3
<1>3. ASSUME NEW c \in posts, HandleChunk(c), c.run \in refused'
      PROVE  c.run \in refused \/
             /\ step'[c.run] # "none"
             /\ \E q \in Runs \ {c.run} : sendOf'[q] # NoSend /\ SendTail[sendOf'[q]] = SendTail[sendOf'[c.run]]
  <2>0. step'[c.run] # "none" /\ sendOf' = sendOf
    BY <1>3, StoredKept DEF HandleChunk, podVars, sendVars
  <2>1. CASE \E d \in chunks : SameName(c, d)
    <3>1. PICK d \in chunks : SameName(c, d)
      BY <2>1
    <3>2. d.run # c.run
      <4>1. c = [run |-> c.run, sequence |-> c.sequence] /\ d = [run |-> d.run, sequence |-> d.sequence]
        BY <1>1 DEF Posts
      <4>2. c # d
        BY DEF ChunkTyped, PodInv, PostInv
      <4> QED
        BY <3>1, <4>1, <4>2 DEF SameName
    <3>3. d.run \in Runs /\ sendOf[d.run] # NoSend
      BY StoredKept, NumbersAre DEF Ref
    <3> QED
      BY <2>0, <3>1, <3>2, <3>3 DEF SameName, Ref
  <2>2. CASE ~\E d \in chunks : SameName(c, d)
    BY <1>3, <2>2 DEF HandleChunk
  <2> QED
    BY <2>1, <2>2
<1>4. \A r \in refused' : r \in refused \/ \E c \in posts : HandleChunk(c) /\ r = c.run
  BY OnlyHandled, InvokingIs DEF HandleChunk, others
<1>5. ASSUME NEW r \in refused'
      PROVE  step'[r] # "none" /\ \E q \in Runs \ {r} : sendOf'[q] # NoSend /\ SendTail[sendOf'[q]] = SendTail[sendOf'[r]]
  BY <1>2, <1>3, <1>4, <1>5
<1> QED
  BY <1>5 DEF RefusedInv, LoneRunNeverRefused, Rivals

(* A chunk is refused only if its run has a rival: another run of the same *)
(* send, or of one whose name ends alike (server.go:186-188).  The pod     *)
(* never posts two chunks with one number, whichever of its posts time     *)
(* out, are lost, or overtake each other.                                  *)
THEOREM LoneRunsAreStored == ChunkSpec => []LoneRunNeverRefused
<1>1. ChunkInit => ChunkTyped /\ RefusedInv
  BY ChunkTypedInit DEF ChunkInit, RefusedInv, LoneRunNeverRefused
<1>2. ChunkTyped /\ RefusedInv /\ [ChunkNext]_chunkVars => ChunkTyped' /\ RefusedInv'
  BY ChunkTypedNext, RefusedNext
<1>3. RefusedInv => LoneRunNeverRefused
  BY DEF RefusedInv
<1> QED
  BY <1>1, <1>2, <1>3, PTL DEF ChunkSpec

-----------------------------------------------------------------------------
(* What invoke prints. *)

LEMMA NamesNext ==
  ASSUME ChunkTyped, NameInv, [ChunkNext]_chunkVars
  PROVE  NameInv'
<1>1. ASSUME NEW c \in chunks, NEW d \in chunks,
             SendTail[sendOf'[c.run]] = SendTail[sendOf'[d.run]], c.sequence = d.sequence
      PROVE  c = d
  <2>1. sendOf'[c.run] = Ref(c) /\ sendOf'[d.run] = Ref(d)
    BY StoredKept
  <2> QED
    BY <1>1, <2>1 DEF NameInv, SameName
<1>2. CASE chunks' = chunks
  BY <1>1, <1>2 DEF NameInv, SameName, Ref
<1>3. ASSUME NEW c \in posts, HandleChunk(c), chunks' # chunks
      PROVE  NameInv'
  <2>1. chunks' = chunks \cup {c} /\ (\A d \in chunks : ~SameName(c, d)) /\ sendOf' = sendOf
    BY <1>3 DEF HandleChunk, sendVars
  <2> QED
    BY <1>1, <2>1 DEF NameInv, SameName, Ref
<1> QED
  BY <1>2, <1>3, OnlyHandled, InvokingIs DEF others

LEMMA OutputsThen ==
  ASSUME NEW out \in Seq(Posts), NEW q \in Seq(Posts)
  PROVE  /\ ToSet(out \o q) = ToSet(out) \cup ToSet(q)
         /\ DOMAIN (out \o q) = 1..(Len(out) + Len(q))
         /\ \A i \in 1..Len(out) : (out \o q)[i] = out[i]
         /\ \A i \in 1..(Len(out) + Len(q)) : i \notin 1..Len(out) =>
              i - Len(out) \in 1..Len(q) /\ (out \o q)[i] = q[i - Len(out)]
<1>1. /\ Len(out) \in Nat /\ Len(q) \in Nat /\ DOMAIN out = 1..Len(out) /\ DOMAIN q = 1..Len(q)
      /\ DOMAIN (out \o q) = 1..(Len(out) + Len(q))
  OBVIOUS
<1>2. /\ \A i \in 1..Len(out) : (out \o q)[i] = out[i]
      /\ \A i \in 1..(Len(out) + Len(q)) : i \notin 1..Len(out) =>
           i - Len(out) \in 1..Len(q) /\ (out \o q)[i] = q[i - Len(out)]
  BY <1>1
<1>3. ToSet(out \o q) \subseteq ToSet(out) \cup ToSet(q)
  BY <1>1, <1>2 DEF ToSet
<1>4. ToSet(out) \subseteq ToSet(out \o q)
  BY <1>1, <1>2 DEF ToSet
<1>5. ASSUME NEW j \in 1..Len(q)
      PROVE  q[j] \in ToSet(out \o q)
  <2>1. j + Len(out) \in 1..(Len(out) + Len(q)) /\ j + Len(out) \notin 1..Len(out) /\ (j + Len(out)) - Len(out) = j
    BY <1>1
  <2> QED
    BY <1>1, <1>2, <2>1 DEF ToSet
<1>6. ToSet(q) \subseteq ToSet(out \o q)
  BY <1>1, <1>5 DEF ToSet
<1> QED
  BY <1>1, <1>2, <1>3, <1>4, <1>6

LEMMA OutputNext ==
  ASSUME ChunkTyped, OutputInv, [ChunkNext]_chunkVars
  PROVE  OutputInv'
<1>t. CliTyped
  BY TypesAre DEF ChunkTyped
<1>1. CASE cli' = cli
  BY <1>1 DEF OutputInv, OutputInOrder
<1>2. ASSUME NEW s \in CliSends, CliMoves(s)
      PROVE  OutputInv'
  <2>1. \A t \in CliSends : cli'[t].output = cli[t].output /\ cli'[t].printed = cli[t].printed
    BY <1>t, <1>2, CliNow DEF CliMoves, Cli
  <2> QED
    BY <2>1 DEF OutputInv, OutputInOrder
<1>3. ASSUME NEW s \in CliSends, PrintNew(s)
      PROVE  OutputInv'
  <2>1. PICK q \in Seq(Posts) :
           /\ \A i, j \in 1..Len(q) : i < j => q[i].sequence < q[j].sequence
           /\ \E n \in Nat :
                /\ cli' = [cli EXCEPT ![s] = Cli("get", n, cli[s].output \o q)]
                /\ IF q = <<>> THEN n = cli[s].printed
                   ELSE n \in Numbers \cup {MaxSequence + 1} /\ n > cli[s].printed
                /\ \A i \in 1..Len(q) : q[i].sequence < n /\ q[i].sequence >= cli[s].printed
    BY <1>3, PrintedIs
  <2>2. PICK n \in Nat :
                /\ cli' = [cli EXCEPT ![s] = Cli("get", n, cli[s].output \o q)]
                /\ IF q = <<>> THEN n = cli[s].printed
                   ELSE n \in Numbers \cup {MaxSequence + 1} /\ n > cli[s].printed
                /\ \A i \in 1..Len(q) : q[i].sequence < n /\ q[i].sequence >= cli[s].printed
    BY <2>1
  <2> DEFINE out == cli[s].output
             old == cli[s].printed
  <2>3. out \in Seq(Posts) /\ old \in Nat /\ n >= old
    BY <1>t, <2>2, CliIs
  <2>4. /\ cli'[s].output = out \o q /\ cli'[s].printed = n
        /\ \A t \in CliSends \ {s} : cli'[t] = cli[t]
    BY <1>t, <2>2, CliNow DEF Cli
  <2>5. /\ \A i, j \in 1..Len(out) : i < j => out[i].sequence < out[j].sequence
        /\ \A i \in 1..Len(out) : out[i].sequence < old
    BY <2>3 DEF OutputInv, OutputInOrder
  <2>6. \A i, j \in 1..Len(q) : i < j => q[i].sequence < q[j].sequence
    BY <2>1
  <2>7. /\ \A i \in 1..Len(out) : out[i].sequence \in Nat
        /\ \A i \in 1..Len(q) : q[i].sequence \in Nat
    <3>1. \A c \in Posts : c.sequence \in Nat
      BY NumbersAre DEF Posts
    <3>2. /\ \A i \in 1..Len(out) : out[i] \in Posts
          /\ \A i \in 1..Len(q) : q[i] \in Posts
      <4> HIDE DEF out
      <4> QED
        BY <2>3
    <3> QED
      BY <3>1, <3>2
  <2>8. Len(out) \in Nat /\ Len(q) \in Nat
    BY <2>3
  <2> HIDE DEF out, old
  <2>9. ASSUME NEW i \in DOMAIN (out \o q)
        PROVE  (out \o q)[i].sequence < n
    <3>1. CASE i \in 1..Len(out)
      BY <2>2, <2>3, <2>5, <2>7, <3>1, OutputsThen
    <3>2. CASE i \notin 1..Len(out)
      BY <2>2, <2>3, <3>2, OutputsThen
    <3> QED
      BY <3>1, <3>2
  <2>10. ASSUME NEW i \in DOMAIN (out \o q), NEW j \in DOMAIN (out \o q), i < j
         PROVE  (out \o q)[i].sequence < (out \o q)[j].sequence
    <3>0. DOMAIN (out \o q) = 1..(Len(out) + Len(q))
      BY <2>3, OutputsThen
    <3>1. CASE j \in 1..Len(out)
      <4>1. i \in 1..Len(out)
        BY <2>8, <2>10, <3>0, <3>1
      <4> QED
        BY <2>3, <2>5, <2>10, <3>1, <4>1, OutputsThen
    <3>2. CASE j \notin 1..Len(out) /\ i \in 1..Len(out)
      <4>1. (out \o q)[i] = out[i] /\ j - Len(out) \in 1..Len(q) /\ (out \o q)[j] = q[j - Len(out)]
        BY <2>3, <3>0, <3>2, OutputsThen
      <4>2. out[i].sequence < old /\ q[j - Len(out)].sequence >= old
        BY <2>2, <2>5, <3>2, <4>1 DEF old
      <4>3. out[i].sequence \in Nat /\ q[j - Len(out)].sequence \in Nat
        BY <2>7, <3>2, <4>1
      <4> QED
        BY <2>3, <4>1, <4>2, <4>3
    <3>3. CASE j \notin 1..Len(out) /\ i \notin 1..Len(out)
      <4>1. /\ i - Len(out) \in 1..Len(q) /\ (out \o q)[i] = q[i - Len(out)]
            /\ j - Len(out) \in 1..Len(q) /\ (out \o q)[j] = q[j - Len(out)]
        BY <2>3, <3>0, <3>3, OutputsThen
      <4>2. i - Len(out) < j - Len(out)
        BY <2>8, <2>10, <3>0
      <4> QED
        BY <2>6, <4>1, <4>2
    <3> QED
      BY <3>1, <3>2, <3>3
  <2>11. ASSUME NEW t \in CliSends
         PROVE  /\ \A i, j \in DOMAIN cli'[t].output : i < j => cli'[t].output[i].sequence < cli'[t].output[j].sequence
                /\ \A i \in DOMAIN cli'[t].output : cli'[t].output[i].sequence < cli'[t].printed
    <3>1. CASE t = s
      BY <2>4, <2>9, <2>10, <3>1
    <3>2. CASE t # s
      BY <2>4, <3>2 DEF OutputInv, OutputInOrder
    <3> QED
      BY <3>1, <3>2
  <2> QED
    BY <2>11 DEF OutputInv, OutputInOrder
<1>4. ASSUME NEW c \in posts, HandleChunk(c)
      PROVE  cli' = cli
  BY <1>4 DEF HandleChunk
<1> QED
  BY <1>1, <1>2, <1>3, <1>4, OnlyHandled, InvokingIs

(* However late, twice dispatched or out of order chunks are stored,       *)
(* invoke never prints a number again, nor one after a higher one          *)
(* (invoke.go:77-79).                                                      *)
THEOREM OutputsAreInOrder == ChunkSpec => []OutputInOrder
<1>1. ChunkInit => ChunkTyped /\ OutputInv
  <2>1. ASSUME ChunkInit
        PROVE  OutputInv
    <3>1. \A s \in CliSends : cli[s].output = <<>>
      BY <2>1 DEF ChunkInit, Cli
    <3>2. \A s \in CliSends : DOMAIN cli[s].output = {}
      BY <3>1
    <3> QED
      BY <3>1, <3>2 DEF OutputInv, OutputInOrder
  <2> QED
    BY <2>1, ChunkTypedInit
<1>2. ChunkTyped /\ OutputInv /\ [ChunkNext]_chunkVars => ChunkTyped' /\ OutputInv'
  BY ChunkTypedNext, OutputNext
<1>3. OutputInv => OutputInOrder
  BY DEF OutputInv
<1> QED
  BY <1>1, <1>2, <1>3, PTL DEF ChunkSpec

LEMMA MissedNext ==
  ASSUME ChunkTyped, NameInv, OnlyLateMissed, [ChunkNext]_chunkVars
  PROVE  OnlyLateMissed'
<1>t. CliTyped
  BY TypesAre DEF ChunkTyped
<1>1. ASSUME NEW s \in CliSends, NEW c \in chunks, sendOf'[c.run] = s, c.sequence < cli[s].printed
      PROVE  c \in ToSet(cli[s].output) \cup late
  <2>1. Ref(c) = s
    BY <1>1, StoredKept
  <2> QED
    BY <1>1, <2>1 DEF OnlyLateMissed, ChunksOf
<1>2. CASE UNCHANGED <<chunks, late, cli>>
  BY <1>1, <1>2 DEF OnlyLateMissed, ChunksOf, Ref
<1>3. ASSUME NEW c \in posts, HandleChunk(c)
      PROVE  OnlyLateMissed'
  <2>1. /\ cli' = cli /\ sendOf' = sendOf /\ chunks' \in {chunks, chunks \cup {c}}
        /\ late \subseteq late' /\ (chunks' # chunks /\ Printed(c) => c \in late')
    BY <1>3 DEF HandleChunk, sendVars
  <2>2. ASSUME NEW s \in CliSends, NEW d \in chunks', sendOf'[d.run] = s, d.sequence < cli[s].printed
        PROVE  d \in ToSet(cli[s].output) \cup late'
    <3>1. CASE d \in chunks
      BY <1>1, <2>1, <2>2, <3>1
    <3>2. CASE d \notin chunks
      BY <2>1, <2>2, <3>2 DEF Printed, Ref
    <3> QED
      BY <3>1, <3>2
  <2> QED
    BY <2>1, <2>2 DEF OnlyLateMissed, ChunksOf, Ref
<1>4. ASSUME NEW s \in CliSends, UNCHANGED others, CliMoves(s)
      PROVE  OnlyLateMissed'
  <2>1. \A t \in CliSends : cli'[t].output = cli[t].output /\ cli'[t].printed = cli[t].printed
    BY <1>t, <1>4, CliNow DEF CliMoves, Cli
  <2>2. chunks' = chunks /\ late' = late
    BY <1>4 DEF others
  <2> QED
    BY <1>1, <2>1, <2>2 DEF OnlyLateMissed, ChunksOf, Ref
<1>5. ASSUME NEW s \in CliSends, UNCHANGED others, PrintNew(s)
      PROVE  OnlyLateMissed'
  <2>1. PICK q \in Seq(Posts), n \in Nat :
           ToSet(q) \in OnePerNumber(NewChunks(s)) /\ cli' = [cli EXCEPT ![s] = Cli("get", n, cli[s].output \o q)]
    BY <1>5, PrintedIs
  <2>2. /\ cli'[s].output = cli[s].output \o q /\ cli[s].printed \in Nat
        /\ ToSet(cli[s].output \o q) = ToSet(cli[s].output) \cup NewChunks(s)
    <3>q. ToSet(q) = NewChunks(s)
      <4>1. ASSUME NEW c \in NewChunks(s)
            PROVE  c \in ToSet(q)
        <5>1. PICK d \in ToSet(q) : d.sequence = c.sequence /\ d \in NewChunks(s)
          BY <2>1 DEF OnePerNumber
        <5>2. c \in chunks /\ d \in chunks /\ SameName(c, d)
          BY <5>1 DEF NewChunks, ChunksOf, SameName
        <5> QED
          BY <5>1, <5>2 DEF NameInv
      <4> QED
        BY <2>1, <4>1 DEF OnePerNumber
    <3>1. cli[s].output \in Seq(Posts) /\ cli[s].printed \in Nat
      BY <1>t, CliIs
    <3>2. cli'[s] = Cli("get", n, cli[s].output \o q)
      BY <1>t, <2>1, CliNow
    <3>3. cli'[s].output = cli[s].output \o q
      BY <3>2 DEF Cli
    <3>4. ToSet(cli[s].output \o q) = ToSet(cli[s].output) \cup ToSet(q)
      BY <3>1, OutputsThen
    <3> QED
      BY <3>q, <3>1, <3>3, <3>4
  <2>3. chunks' = chunks /\ late' = late /\ \A t \in CliSends \ {s} : cli'[t] = cli[t]
    BY <1>t, <1>5, <2>1, CliNow DEF others
  <2>4. ASSUME NEW t \in CliSends, NEW c \in chunks, sendOf'[c.run] = t, c.sequence < cli'[t].printed
        PROVE  c \in ToSet(cli'[t].output) \cup late
    <3>1. CASE t # s
      BY <1>1, <2>3, <2>4, <3>1
    <3>2. CASE t = s /\ c.sequence < cli[s].printed
      BY <1>1, <2>2, <2>4, <3>2
    <3>3. CASE t = s /\ ~(c.sequence < cli[s].printed)
      <4>1. Ref(c) = s /\ c.sequence \in Nat
        BY <2>4, <3>3, StoredKept
      <4>2. c \in NewChunks(s)
        BY <2>2, <3>3, <4>1 DEF NewChunks, ChunksOf
      <4> QED
        BY <2>2, <3>3, <4>2
    <3> QED
      BY <3>1, <3>2, <3>3
  <2> QED
    BY <2>3, <2>4 DEF OnlyLateMissed, ChunksOf, Ref
<1> QED
  BY <1>2, <1>3, <1>4, <1>5, OnlyHandled, InvokingIs

(* A stored chunk that invoke's cursor has passed was printed, unless it   *)
(* came in behind the cursor: no gap in the numbers and no second run      *)
(* makes invoke skip what was there to print, since the API server keeps   *)
(* the names, and so the numbers of one send, apart.                       *)
THEOREM OnlyLateAreMissed == ChunkSpec => []OnlyLateMissed
<1>1. ChunkInit => ChunkTyped /\ NameInv /\ OnlyLateMissed
  BY ChunkTypedInit DEF ChunkInit, NameInv, OnlyLateMissed, ChunksOf
<1>2. ChunkTyped /\ NameInv /\ OnlyLateMissed /\ [ChunkNext]_chunkVars => ChunkTyped' /\ NameInv' /\ OnlyLateMissed'
  BY ChunkTypedNext, NamesNext, MissedNext
<1> QED
  BY <1>1, <1>2, PTL DEF ChunkSpec
=============================================================================
