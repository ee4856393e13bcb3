------------------------------ MODULE LoadTest ------------------------------
(***************************************************************************)
(* The clients that put load on a server: stress_test_llm.py in its three  *)
(* modes, stress_test_embedding.py, and the cells of bench/bench_client.py.*)
(*                                                                         *)
(* A client finds a text of the wanted length, runs its tasks at once on   *)
(* one event loop, and sums up their results.  A task is a request, or an  *)
(* agent stream that sends one turn after another.  The server may refuse  *)
(* a request, send lines of an event stream, fail in the middle of it, end *)
(* it early or fall silent.                                                *)
(*                                                                         *)
(* Bounds: MaxLines (lines of one event stream).                           *)
(***************************************************************************)
EXTENDS Calibration, Sequences, FiniteSets

CONSTANTS
    Ccu,          \* concurrency: requests at a time, or agent streams
    Total,        \* --total-requests
    Trials,       \* --trials of the bench client
    Targets,      \* prompt lengths asked for: -ctx, --contexts
    Samples,      \* texts of random words, [chars, rate]
    Tokenizers,   \* [template, unit]
    MaxLines

ASSUME LoadTestAssumption ==
    /\ Ccu \in Nat \ {0} /\ Total \in Nat \ {0} /\ Trials \in Nat \ {0}
    /\ Targets \subseteq Nat \ {0}
    /\ Samples \subseteq [chars : Nat \ {0}, rate : Nat \ {0}]
    /\ Tokenizers \subseteq [template : Nat \ {0}, unit : Nat \ {0}]
    /\ MaxLines \in Nat

\* The samples are hundreds of ASCII words: each has tokens, and a token stands for a
\* character or more.
ASSUME TextAssumption ==
    \A k \in Tokenizers, s \in Samples : s.rate <= k.unit /\ s.chars * s.rate >= k.unit

VARIABLES
    mode,      \* "none" until it is chosen, "pp", "tg", "agentic", "embed" or "bench"
    flags,     \* mode flags on the command line
    pc,        \* control point of the program
    exit,      \* "none", "ok" or "failed"
    tokenizer, sample,   \* what the run meets
    target,    \* prompt length aimed at
    pending,   \* bench: contexts to come
    base,      \* bench: weight of growing_prefix before this context
    text,      \* weight of the calibrated text
    trial,     \* bench: trials done in this cell
    free,      \* permits of the semaphore
    at,        \* of each task: "waiting", "open", "stream" or "ended"
    chunk,     \* of each task: saw_chunk
    lines,     \* of each task: lines read (bounded)
    sent,      \* of each task: the messages of each of its requests
    outcome    \* of each task: the results of its requests that have ended

setupVars == <<mode, flags, exit, tokenizer, sample>>
aimVars == <<target, pending, base, text>>
taskVars == <<free, at, chunk, lines, sent, outcome>>
vars == <<setupVars, pc, aimVars, trial, taskVars>>

StressModes == {"pp", "tg", "agentic"}
NoSample == [chars |-> 0, rate |-> 0]

(***************************************************************************)
(* Tasks and what they send                                                *)
(***************************************************************************)
Tasks ==
    IF mode = "agentic" THEN 1..Ccu ELSE IF mode = "bench" THEN 0..Ccu - 1 ELSE 1..Total
AllTasks == 0..AtLeast(Ccu, Total)

\* Turns of an agent stream.
NumTurns == AtLeast(1, CeilDiv(Total, Ccu))

\* Mutant: as many chunks as every stream surely gets through.
NumChunksDown == AtLeast(1, Total \div Ccu)

\* pre_generate_chunks
NumChunks == AtLeast(Ccu, Total)

Chunk(t, turn) == <<"chunk", (t * 1009 + turn) % NumChunks>>

\* The prefix and the chunks so far, each with an answer that is the same every time, and
\* a new chunk.
AgentMessages(t, turn) ==
    <<<<"prefix", t % Ccu>>>> \o [k \in 1..turn + 1 |-> Chunk(t, k - 1)]

InFlight == {t \in Tasks : at[t] \in {"open", "stream"}}

(***************************************************************************)
(* Sending                                                                 *)
(***************************************************************************)
Begin(t, message) ==
    /\ pc = "run" /\ t \in Tasks /\ at[t] = "waiting"
    /\ at' = [at EXCEPT ![t] = "open"]
    /\ sent' = [sent EXCEPT ![t] = Append(@, message)]
    /\ UNCHANGED <<setupVars, pc, aimVars, trial, chunk, lines, outcome>>

\* Mutant: one request may wait at the server instead of at the semaphore.
AcquireEarly == free >= 0 /\ free' = free - 1

\* A permit of the semaphore.
Acquire == free > 0 /\ free' = free - 1

\* -pp takes the text generated for the request, -tg the calibrated one.
SendRequest(t) ==
    /\ mode \in {"pp", "tg"} /\ Acquire
    /\ Begin(t, IF mode = "pp" THEN <<<<"prefix", t - 1>>>> ELSE <<<<"text", text>>>>)

SendTurn(t) ==
    /\ mode = "agentic" /\ Acquire
    /\ Begin(t, AgentMessages(t, Len(sent[t])))

SendEmbedding(t) == mode = "embed" /\ Acquire /\ Begin(t, <<<<"message", t>>>>)

\* The calibrated text and a suffix of the request's own; every stream starts at once.
SendTimed(t) ==
    /\ mode = "bench" /\ UNCHANGED free
    /\ Begin(t, <<<<"text", text>>, <<"suffix", t, trial>>>>)

Send(t) == SendRequest(t) \/ SendTurn(t) \/ SendEmbedding(t) \/ SendTimed(t)

(***************************************************************************)
(* Reading                                                                 *)
(***************************************************************************)

\* HTTP 200, and the event stream begins.
Answer(t) ==
    /\ t \in InFlight /\ at[t] = "open" /\ mode # "embed"
    /\ at' = [at EXCEPT ![t] = "stream"]
    /\ UNCHANGED <<setupVars, pc, aimVars, trial, free, chunk, lines, sent, outcome>>

\* A line with data, or one that is passed over: a comment, a blank one, no object.
Line(t) ==
    /\ t \in InFlight /\ at[t] = "stream" /\ lines[t] < MaxLines
    /\ lines' = [lines EXCEPT ![t] = @ + 1]
    /\ chunk' \in {chunk, [chunk EXCEPT ![t] = TRUE]}
    /\ UNCHANGED <<setupVars, pc, aimVars, trial, free, at, sent, outcome>>

\* The answer to an embedding request is one body: JSON, an error as JSON, or neither.
BodyEnds == {"json", "error_json", "no_json", "silent"}

\* Mutant: no timeout while the connection is open and nothing has come yet.
OpenEndsUntimed == {"refused"}

\* An HTTP error, or no answer within the timeout.
OpenEnds == {"refused", "silent"}

\* A line that is no JSON, an error in a line, a broken connection, no line within the
\* timeout, the end of the stream with or without [DONE].
StreamEnds == {"garbage", "error", "broken", "silent", "eof", "done"}

Ends == BodyEnds \union OpenEnds \union StreamEnds

EventsEnd(t, how) ==
    \/ at[t] = "open" /\ how \in OpenEnds
    \/ at[t] = "stream" /\ how \in StreamEnds

\* The result is noted, and the task ends or waits to send again.
Note(t, ok, again) ==
    /\ t \in InFlight
    /\ outcome' = [outcome EXCEPT ![t] = Append(@, [ok |-> ok])]
    /\ at' = [at EXCEPT ![t] = IF again THEN "waiting" ELSE "ended"]
    /\ chunk' = [chunk EXCEPT ![t] = FALSE] /\ lines' = [lines EXCEPT ![t] = 0]
    /\ UNCHANGED <<setupVars, pc, aimVars, trial, sent>>

\* _stream_chat_completion: nothing is wrong with a stream that stops after some data.
StreamSuccess(how, seen) == how = "done" \/ (how = "eof" /\ seen)

RequestEnds(t, how) ==
    /\ mode \in {"pp", "tg"} /\ EventsEnd(t, how)
    /\ free' = free + 1
    /\ Note(t, StreamSuccess(how, chunk[t]), FALSE)

\* Mutant: a stream that failed goes on with its next turn.
GoesOnAnyway(t, ok) == Len(sent[t]) < NumTurns

\* After a failure the stream's context would be broken.
GoesOn(t, ok) == ok /\ Len(sent[t]) < NumTurns

TurnEnds(t, how) ==
    /\ mode = "agentic" /\ EventsEnd(t, how)
    /\ free' = free + 1
    /\ LET ok == StreamSuccess(how, chunk[t]) IN Note(t, ok, GoesOn(t, ok))

\* Any body that is JSON is a success: the HTTP status is not looked at.
EmbeddingEnds(t, how) ==
    /\ mode = "embed" /\ how \in BodyEnds
    /\ free' = free + 1
    /\ Note(t, how \in {"json", "error_json"}, FALSE)

\* complete_once returns what an exception says as the request's error.
TimedEnds(t, how) ==
    /\ mode = "bench" /\ EventsEnd(t, how)
    /\ UNCHANGED free
    /\ Note(t, how \in {"eof", "done"}, FALSE)

End(t, how) ==
    RequestEnds(t, how) \/ TurnEnds(t, how) \/ EmbeddingEnds(t, how) \/ TimedEnds(t, how)

(***************************************************************************)
(* Before the requests                                                     *)
(***************************************************************************)
Over(result) == pc' = "over" /\ exit' = result

\* Flags that exclude each other: an error is logged, and the program ends as if all
\* were well.
RefuseFlags ==
    /\ pc = "args" /\ Cardinality(flags) > 1
    /\ Over("ok")
    /\ UNCHANGED <<mode, flags, tokenizer, sample, aimVars, trial, taskVars>>

ChooseMode ==
    /\ pc = "args" /\ Cardinality(flags) <= 1
    /\ mode' \in IF flags = {} THEN {"agentic"} ELSE flags
    /\ pc' = "scout"
    /\ UNCHANGED <<flags, exit, tokenizer, sample, aimVars, trial, taskVars>>

\* A context of the list, which may be in any order, comes next.
TakeContext(left) ==
    /\ target' \in left /\ pending' = left \ {target'}
    /\ pc' = "scout"

\* What a failure leaves: longer contexts are skipped.
Shorter == {c \in pending : c < target}

\* calibrate_prefix: every probe is answered.
ScoutPrefix ==
    /\ pc = "scout" /\ mode \in StressModes
    /\ sample' \in Samples
    /\ text' = Weight(sample', CalibratePrefix(tokenizer, sample', target))
    /\ pc' = IF mode = "tg" THEN "warm" ELSE "run"
    /\ UNCHANGED <<mode, flags, exit, tokenizer, target, pending, base, trial, taskVars>>

\* calibrate_prompt for the next context.
ScoutPrompt ==
    /\ pc = "scout" /\ mode = "bench"
    /\ sample' \in Samples /\ text' = CalibratePrompt(tokenizer, sample', target, base)
    /\ pc' = "warm"
    /\ UNCHANGED <<mode, flags, exit, tokenizer, target, pending, base, trial, taskVars>>

\* A probe fails: the bench client goes on with a shorter context, if there is one left,
\* the stress client raises.
ScoutSkips ==
    /\ pc = "scout" /\ mode = "bench"
    /\ TakeContext(Shorter)
    /\ UNCHANGED <<setupVars, base, text, trial, taskVars>>

ScoutFails ==
    /\ pc = "scout" /\ (mode = "bench" => Shorter = {})
    /\ Over(IF mode = "bench" THEN "ok" ELSE "failed")
    /\ UNCHANGED <<mode, flags, tokenizer, sample, aimVars, trial, taskVars>>

\* send_preflight_request, warm_prefix_cache: a failure is fatal to the former only.
Warm ==
    /\ pc = "warm"
    /\ pc' = "run"
    /\ UNCHANGED <<setupVars, aimVars, trial, taskVars>>

WarmFails ==
    /\ pc = "warm" /\ mode = "tg"
    /\ Over("failed")
    /\ UNCHANGED <<mode, flags, tokenizer, sample, aimVars, trial, taskVars>>

(***************************************************************************)
(* After the requests                                                      *)
(***************************************************************************)
AllEnded == pc = "run" /\ \A t \in Tasks : at[t] = "ended"
Failures == {t \in Tasks : \E i \in DOMAIN outcome[t] : ~outcome[t][i].ok}

\* Mutant: the report decides, and it finds some success.
ExitCodeOfReport ==
    IF \E t \in Tasks : \E i \in DOMAIN outcome[t] : outcome[t][i].ok THEN "ok" ELSE "failed"

\* The stress client raises when a result is not a success.
ExitCode == IF Failures = {} THEN "ok" ELSE "failed"

Report ==
    /\ AllEnded /\ mode \in StressModes
    /\ Over(ExitCode)
    /\ UNCHANGED <<mode, flags, tokenizer, sample, aimVars, trial, taskVars>>

\* The embedding client only prints its results.
ReportEmbedding ==
    /\ AllEnded /\ mode = "embed"
    /\ Over("ok")
    /\ UNCHANGED <<mode, flags, tokenizer, sample, aimVars, trial, taskVars>>

\* Mutant: one trial too many.
NextTrialAndOne ==
    /\ AllEnded /\ mode = "bench" /\ trial < Trials
    /\ trial' = trial + 1
    /\ at' = [t \in AllTasks |-> "waiting"]
    /\ UNCHANGED <<setupVars, pc, aimVars, free, chunk, lines, sent, outcome>>

\* run_cell: the next trial begins when every stream of the last one has its result.
NextTrial ==
    /\ AllEnded /\ mode = "bench" /\ trial + 1 < Trials
    /\ trial' = trial + 1
    /\ at' = [t \in AllTasks |-> "waiting"]
    /\ UNCHANGED <<setupVars, pc, aimVars, free, chunk, lines, sent, outcome>>

CellDone == AllEnded /\ mode = "bench" /\ trial + 1 = Trials

\* The contexts that follow; only the shorter ones when an error of the cell is one of
\* memory.
Following == {pending} \union (IF Failures = {} THEN {} ELSE {Shorter})

\* The cell's row is out; the next context starts from this one's text.
NextContext ==
    /\ CellDone /\ \E left \in Following : TakeContext(left)
    /\ base' = text /\ trial' = 0
    /\ at' = [t \in AllTasks |-> "waiting"]
    /\ sent' = [t \in AllTasks |-> <<>>] /\ outcome' = [t \in AllTasks |-> <<>>]
    /\ UNCHANGED <<setupVars, text, free, chunk, lines>>

BenchDone ==
    /\ CellDone /\ {} \in Following
    /\ Over("ok")
    /\ UNCHANGED <<mode, flags, tokenizer, sample, aimVars, trial, taskVars>>

(***************************************************************************)
(* Specification                                                           *)
(***************************************************************************)
Init ==
    /\ tokenizer \in Tokenizers /\ target \in Targets /\ sample = NoSample
    /\ base = 0 /\ text = 0 /\ trial = 0 /\ exit = "none" /\ free = Ccu
    /\ at = [t \in AllTasks |-> "waiting"]
    /\ chunk = [t \in AllTasks |-> FALSE] /\ lines = [t \in AllTasks |-> 0]
    /\ sent = [t \in AllTasks |-> <<>>] /\ outcome = [t \in AllTasks |-> <<>>]
    /\ \/ mode = "none" /\ pc = "args" /\ flags \in SUBSET StressModes /\ pending = {}
       \/ mode = "embed" /\ pc = "run" /\ flags = {} /\ pending = {}
       \/ mode = "bench" /\ pc = "scout" /\ flags = {} /\ pending = Targets \ {target}

Main ==
    \/ RefuseFlags \/ ChooseMode \/ ScoutPrefix \/ ScoutPrompt \/ ScoutSkips \/ ScoutFails
    \/ Warm \/ WarmFails \/ Report \/ ReportEmbedding \/ NextTrial \/ NextContext \/ BenchDone

Next ==
    \/ Main
    \/ \E t \in AllTasks :
           Send(t) \/ Answer(t) \/ Line(t) \/ \E how \in Ends : End(t, how)

Spec == Init /\ [][Next]_vars

\* The event loop gets to every task, and each wait for the server has a timeout.
FairSpec ==
    /\ Spec /\ WF_vars(Main)
    /\ \A t \in AllTasks : WF_vars(Send(t)) /\ WF_vars(End(t, "silent"))

(***************************************************************************)
(* Properties                                                              *)
(***************************************************************************)

\* Types, and that every request that is not in flight has its outcome.
TypeOK ==
    /\ mode \in StressModes \union {"none", "embed", "bench"}
    /\ flags \subseteq StressModes
    /\ pc \in {"args", "scout", "warm", "run", "over"} /\ exit \in {"none", "ok", "failed"}
    /\ tokenizer \in Tokenizers /\ sample \in Samples \union {NoSample}
    /\ target \in Targets /\ pending \subseteq Targets
    /\ base \in Nat /\ text \in Nat /\ trial \in 0..Trials - 1 /\ free \in 0..Ccu
    /\ at \in [AllTasks -> {"waiting", "open", "stream", "ended"}]
    /\ chunk \in [AllTasks -> BOOLEAN] /\ lines \in [AllTasks -> 0..MaxLines]
    /\ \A t \in AllTasks :
           /\ \A i \in DOMAIN outcome[t] : outcome[t][i] \in [ok : BOOLEAN]
           /\ Len(sent[t]) = Len(outcome[t])
                  + (IF at[t] \in {"open", "stream"} THEN 1 ELSE 0)

\* No more requests are with the server than asked for, whatever fails in between; in a
\* cell of the bench client they are of one trial.
InFlightBounded ==
    /\ Cardinality(InFlight) <= Ccu
    /\ mode = "bench" => \A t \in InFlight : Len(sent[t]) = trial + 1

\* A stress test that ends well has had every request answered, and made as many as were
\* asked for: agent streams round up, by less than one turn of each.
CleanExit ==
    LET made == {p \in AllTasks \X (1..Total) : p[2] \in DOMAIN outcome[p[1]]}
    IN  pc = "over" /\ exit = "ok" /\ mode \in StressModes =>
            /\ \A p \in made : outcome[p[1]][p[2]].ok
            /\ Cardinality(made) >= Total
            /\ Cardinality(made) < Total + (IF mode = "agentic" THEN Ccu ELSE 1)

\* An agent's context only grows: a turn is sent after one that succeeded, extends what
\* that one sent, and what it adds is new to the stream; two streams, like two -pp
\* requests, share no prefix, so that what a server has cached is the stream's own.
GrowingContexts ==
    mode \in {"agentic", "pp"} =>
        \A t \in AllTasks :
            /\ \A i \in 1..Len(sent[t]) - 1 :
                   LET last == sent[t][i]
                       this == sent[t][i + 1]
                   IN  /\ outcome[t][i].ok
                       /\ SubSeq(this, 1, Len(this) - 1) = last
                       /\ \A k \in DOMAIN last : last[k] # this[Len(this)]
            /\ \A u \in AllTasks \ {t} :
                   sent[t] # <<>> /\ sent[u] # <<>> => sent[t][1][1] # sent[u][1][1]

\* One correction leaves what the template's tokens, which scaling counts as text, and
\* rounding add up to.
Slack == AtLeast(Tolerance(target), tokenizer.template + 1)

OnTarget(w) == Distance(Tokens(tokenizer, w), target) <= Slack

\* The calibrated prompts are as long as asked for.  The stress client measures one sample;
\* of the texts that -pp and the agents cut to its length, from samples at other rates,
\* nothing is said.  The bench client extends the last context's text, whose rates are
\* those of earlier samples, by a new sample at least, which is how far it can overshoot;
\* and contexts in no order may find a text that is too long already.
PromptsOnTarget ==
    pc \in {"warm", "run"} =>
        /\ mode \in StressModes => OnTarget(text)
        /\ mode = "bench" =>
               /\ text >= base
               /\ Tokens(tokenizer, text) >= target - Slack
               /\ OnTarget(text) \/ text <= base + Weight(sample, sample.chars)

\* Every run ends, with whatever exit code: a silent server does not hold it.
RunEnds == <>(pc = "over")

=============================================================================
