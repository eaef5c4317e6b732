------------------------------- MODULE CallAudio -------------------------------
(***************************************************************************)
(* A voice call (MessageInput/CallOverlay.svelte): the microphone, the     *)
(* prompts it makes, and the answers that are read out part by part while  *)
(* the page still receives them (chatCompletionEventHandler of             *)
(* Chat.svelte).                                                           *)
(*                                                                         *)
(* All of it runs in one event loop; a step goes up to the next wait.  The *)
(* audio of a part comes from the server; one audio element plays.         *)
(***************************************************************************)
EXTENDS Naturals, Sequences, FiniteSets

CONSTANTS
    MaxMsgs,            \* bound: answers
    MaxParts,           \* bound: parts (sentences) of an answer
    MaxModels,          \* models selected, that is answers to one prompt
    MaxUtterances,      \* bound: things the user says
    MaxEvents,          \* bound: things said, kinds of fault, leaps and hanging up
    VoiceInterruption   \* settings.voiceInterruption

ASSUME BoundsAssumption ==
    /\ MaxMsgs \in Nat /\ MaxParts \in Nat /\ MaxUtterances \in Nat /\ MaxEvents \in Nat
    /\ MaxModels \in Nat \ {0}
    /\ VoiceInterruption \in BOOLEAN

Msg == 1 .. MaxMsgs
Part == 0 .. MaxParts
Null == 0

VARIABLES
    answer,             \* answer[m]: how far the page has come with it
    text,               \* parts of the content, the last one may not be complete
    lastSentence,       \* message.lastSentence: the part dispatched last
    done,               \* answers whose `done` is true
    stopping,           \* answers whose task was told to stop
    current,            \* currentMessageId
    queue,              \* messages[m], <<>> also when it is undefined
    opened,             \* answers for which messages[m] is defined
    finished,           \* finishedMessages
    cache, fetching,    \* parts whose audio is there or asked for
    monitor,            \* monitorAndPlayAudio of an answer
    audio,              \* the answer that the audio element plays
    assistantSpeaking, chatStreaming,
    open,               \* $showCallOverlay
    mic,                \* the recorder and its analyser
    confirmed,
    said,               \* things the user has said
    jobs,               \* transcribeHandler calls: the answers they wait for
    spoken,             \* history: the parts of an answer that began to play
    hushed,             \* history: answers that were interrupted
    leaps,              \* history: answers that grew by several parts at once
    faults              \* history: what went wrong with which answer

content == <<answer, text, lastSentence, done, stopping>>
playing == <<current, queue, opened, finished, cache, fetching, monitor, audio,
             assistantSpeaking, chatStreaming, spoken, hushed>>
listening == <<open, mic, confirmed, said, jobs>>
callVars == <<content, playing, listening, leaps, faults>>

\* An answer is asked for; its chat:start was dispatched; it came to its end, was
\* stopped or failed.
AnswerStates == {"none", "asked", "written", "ended", "stopped", "failed"}
\* The loop runs ("idle"), waits for the end of the audio ("playing") or for an end that
\* never comes ("stuck"); it left after the last part ("closed") or as aborted.
MonitorStates == {"none", "idle", "playing", "stuck", "closed", "aborted"}
\* The audio of a part does not come, or does not play; an answer has no text, fails, or is
\* stopped by somebody else than the overlay.
Kinds == {"noAudio", "notPlayed", "noText", "failed", "stoppedElsewhere"}
Fault(answers, what) == faults' = faults \cup (answers \X {what})

CallInit ==
    /\ answer = [m \in Msg |-> "none"]
    /\ text = [m \in Msg |-> 0]
    /\ lastSentence = [m \in Msg |-> 0]
    /\ done = {} /\ stopping = {}
    /\ current = Null
    /\ queue = [m \in Msg |-> <<>>]
    /\ opened = {} /\ finished = {}
    /\ cache = {} /\ fetching = {}
    /\ monitor = [m \in Msg |-> "none"]
    /\ audio = Null
    /\ assistantSpeaking = FALSE /\ chatStreaming = FALSE
    /\ open = TRUE
    /\ mic = "listening"
    /\ confirmed = FALSE
    /\ said = 0
    /\ jobs = {}
    /\ spoken = [m \in Msg |-> <<>>]
    /\ hushed = {} /\ leaps = {} /\ faults = {}

--------------------------------------------------------------------------------
(* Interrupting *)

\* What plays is paused, so that its `ended` does not come.
Paused == [m \in Msg |-> IF m = audio THEN "stuck" ELSE monitor[m]]

\* The answers that stopResponse stops.
Written == {m \in Msg : answer[m] = "written"}

\* stopAllAudio; with it stopResponse, which stops the tasks that run.
StopAllAudio ==
    /\ assistantSpeaking' = FALSE
    /\ stopping' = IF chatStreaming THEN stopping \cup Written ELSE stopping
    /\ monitor' = Paused
    /\ audio' = Null
    /\ hushed' = hushed \cup ({current} \cap Msg)
    /\ UNCHANGED <<answer, text, lastSentence, done, current, queue, opened, finished, cache,
                   fetching, chatStreaming, spoken, leaps, faults>>

\* A tap on the overlay.
Tap ==
    /\ open
    /\ assistantSpeaking
    /\ StopAllAudio
    /\ UNCHANGED listening

\* The overlay is closed (onDestroy); the recorder is dropped.
HangUp ==
    /\ open
    /\ open' = FALSE
    /\ mic' = "off"
    /\ StopAllAudio
    /\ UNCHANGED <<confirmed, said, jobs>>

--------------------------------------------------------------------------------
(* The microphone *)

\* While the assistant speaks the analyser hears nothing, unless the voice may interrupt.
Muted == assistantSpeaking /\ ~VoiceInterruption

\* detectSound: the first sound of an utterance.
Sound ==
    /\ mic = "listening"
    /\ ~Muted
    /\ said < MaxUtterances
    /\ mic' = "hearing"
    /\ said' = said + 1
    /\ StopAllAudio
    /\ UNCHANGED <<open, confirmed, jobs>>

\* Two seconds of silence: the recorder is told to stop.
Silence ==
    /\ mic = "hearing"
    /\ mic' = "stopping"
    /\ confirmed' = TRUE
    /\ UNCHANGED <<content, playing, open, said, jobs, leaps, faults>>

\* stopRecordingCallback: recording starts again, the utterance is transcribed.
RecorderStops ==
    /\ mic = "stopping"
    /\ mic' = "listening"
    /\ jobs' = IF confirmed THEN jobs \cup {[id |-> said, answers |-> {}]} ELSE jobs
    /\ UNCHANGED <<content, playing, open, confirmed, said, leaps, faults>>

Next1 == Cardinality({m \in Msg : answer[m] # "none"}) + 1
\* submitPrompt takes no prompt below an answer that is not done, or failed without text.
Blocks(m) == m \notin done \/ (answer[m] = "failed" /\ text[m] = 0)

\* transcribeHandler submits the text: k answers are made.
Submit(j, k) ==
    LET new == Next1 .. Next1 + k - 1
    IN  /\ j.answers = {}
        /\ new \subseteq Msg
        /\ \A m \in Msg : m = Next1 - 1 => ~Blocks(m)
        /\ answer' = [m \in Msg |-> IF m \in new THEN "asked" ELSE answer[m]]
        /\ jobs' = (jobs \ {j}) \cup {[j EXCEPT !.answers = new]}
        /\ UNCHANGED <<text, lastSentence, done, stopping, playing, open, mic, confirmed, said,
                       leaps, faults>>

\* The text is empty, the server does not transcribe it, or submitPrompt refuses it;
\* or all requests have gone out.
JobEnds(j) ==
    /\ \A m \in j.answers : answer[m] # "asked"
    /\ jobs' = jobs \ {j}
    /\ confirmed' = FALSE
    /\ UNCHANGED <<content, playing, open, mic, said, leaps, faults>>

--------------------------------------------------------------------------------
(* The answers come *)

\* sendMessageSocket and chatStartHandler.
Start(m) ==
    /\ answer[m] = "asked"
    /\ answer' = [answer EXCEPT ![m] = "written"]
    /\ IF open
       THEN /\ chatStreaming' = TRUE
            /\ current' = m
            /\ assistantSpeaking' = TRUE
            /\ monitor' = [monitor EXCEPT ![m] = "idle"]
       ELSE UNCHANGED <<chatStreaming, current, assistantSpeaking, monitor>>
    /\ UNCHANGED <<text, lastSentence, done, stopping, queue, opened, finished, cache, fetching,
                   audio, spoken, hushed, listening, leaps, faults>>

\* chatEventHandler of the overlay, for each of the parts.
Dispatch(m, parts) ==
    IF open /\ m = current /\ parts # <<>>
    THEN /\ queue' = [queue EXCEPT ![m] = @ \o parts]
         /\ opened' = opened \cup {m}
         /\ fetching' = fetching \cup
                ({<<m, parts[i]>> : i \in DOMAIN parts} \ cache)
    ELSE UNCHANGED <<queue, opened, fetching>>

\* Mutation of Complete: the part is not compared with the one dispatched last.
CompleteAgain(m, n) == IF n > 1 THEN <<n - 1>> ELSE <<>>

\* The last complete part, if it was not the last one dispatched.
Complete(m, n) == IF n > 1 /\ n - 1 # lastSentence[m] THEN <<n - 1>> ELSE <<>>

\* chatCompletionEventHandler: the content has n parts now.
Grow(m, n) ==
    /\ answer[m] = "written"
    /\ n > text[m]
    /\ text' = [text EXCEPT ![m] = n]
    /\ lastSentence' = [lastSentence EXCEPT ![m] = IF Complete(m, n) # <<>> THEN n - 1 ELSE @]
    /\ Dispatch(m, Complete(m, n))
    /\ leaps' = leaps \cup IF n > text[m] + 1 THEN {m} ELSE {}
    /\ UNCHANGED <<answer, done, stopping, current, finished, cache, monitor, audio,
                   assistantSpeaking, chatStreaming, spoken, hushed, listening, faults>>

\* ... for the last time: its last part is dispatched too, then chat:finish.
Finish(m, n) ==
    /\ answer[m] = "written"
    /\ n >= text[m]
    /\ answer' = [answer EXCEPT ![m] = "ended"]
    /\ done' = done \cup {m}
    /\ text' = [text EXCEPT ![m] = n]
    /\ Dispatch(m, Complete(m, n) \o IF n > 0 THEN <<n>> ELSE <<>>)
    /\ finished' = finished \cup IF open THEN {m} ELSE {}
    /\ chatStreaming' = (chatStreaming /\ ~open)
    /\ leaps' = leaps \cup IF n > text[m] + 1 THEN {m} ELSE {}
    /\ IF n = 0 THEN Fault({m}, "noText") ELSE UNCHANGED faults
    /\ UNCHANGED <<lastSentence, stopping, current, cache, monitor, audio,
                   assistantSpeaking, spoken, hushed, listening>>

\* The answer ends without chat:finish: its task was stopped, or it failed.  With it
\* those may count as done that are next to the answer shown.
EndsShort(m, how) ==
    /\ answer[m] = "written"
    /\ answer' = [answer EXCEPT ![m] = how]
    /\ \E more \in {{}, {k \in Msg : answer[k] # "none"}} : done' = done \cup {m} \cup more
    /\ UNCHANGED <<text, lastSentence, stopping, playing, listening, leaps>>

Stopped(m) == m \in stopping /\ EndsShort(m, "stopped") /\ UNCHANGED faults
Fails(m) == EndsShort(m, "failed") /\ Fault({m}, "failed")

\* The page's own stop button, beside the overlay, or that of another tab: the overlay
\* does not hear of it, so that assistantSpeaking and what plays stay as they are.
StopElsewhere ==
    /\ Written # {}
    /\ stopping' = stopping \cup Written
    /\ Fault(Written, "stoppedElsewhere")
    /\ UNCHANGED <<answer, text, lastSentence, done, playing, listening, leaps>>

--------------------------------------------------------------------------------
(* The answers are spoken *)

\* fetchAudio
Fetched(p) ==
    /\ fetching' = fetching \ {p}
    /\ cache' = cache \cup {p}
    /\ UNCHANGED <<content, current, queue, opened, finished, monitor, audio, spoken,
                   assistantSpeaking, chatStreaming, hushed, listening, leaps, faults>>

FetchFails(p) ==
    /\ fetching' = fetching \ {p}
    /\ Fault({p[1]}, "noAudio")
    /\ UNCHANGED <<content, current, queue, opened, finished, cache, monitor, audio, spoken,
                   assistantSpeaking, chatStreaming, hushed, listening, leaps>>

\* Mutation of Looks: the loop of an answer goes on when another answer has started.
LooksOn(m) == monitor[m] = "idle" /\ open

\* monitorAndPlayAudio looks at its queue.
Looks(m) == monitor[m] = "idle" /\ open /\ m = current

\* The next part is taken from the queue and given to the audio element; what plays now
\* does not come to its end.
Take(m, state) ==
    /\ Looks(m)
    /\ queue[m] # <<>> /\ <<m, Head(queue[m])>> \in cache
    /\ queue' = [queue EXCEPT ![m] = Tail(@)]
    /\ monitor' = [Paused EXCEPT ![m] = state]
    /\ UNCHANGED <<content, current, opened, finished, cache, fetching, assistantSpeaking,
                   chatStreaming, hushed, listening, leaps>>

\* It plays.
Play(m) ==
    /\ Take(m, "playing")
    /\ spoken' = [spoken EXCEPT ![m] = Append(@, Head(queue[m]))]
    /\ audio' = m
    /\ UNCHANGED faults

\* play() is rejected, or there is no audio element: the promise that the loop awaits
\* never resolves.
PlayFails(m) ==
    /\ Take(m, "stuck")
    /\ audio' = Null
    /\ Fault({m}, "notPlayed")
    /\ UNCHANGED spoken

AudioEnds ==
    /\ audio # Null
    /\ monitor' = [monitor EXCEPT ![audio] = "idle"]
    /\ audio' = Null
    /\ UNCHANGED <<content, current, queue, opened, finished, cache, fetching, spoken,
                   assistantSpeaking, chatStreaming, hushed, listening, leaps, faults>>

\* Mutation of Close: the loop leaves without ending the assistant's turn.
CloseKeepsTurn(m) ==
    /\ Looks(m)
    /\ queue[m] = <<>> /\ m \in opened \cap finished
    /\ monitor' = [monitor EXCEPT ![m] = "closed"]
    /\ UNCHANGED <<content, current, queue, opened, finished, cache, fetching, audio, spoken,
                   assistantSpeaking, chatStreaming, hushed, listening, leaps, faults>>

\* The answer is finished and all of it was played.
Close(m) ==
    /\ Looks(m)
    /\ queue[m] = <<>> /\ m \in opened \cap finished
    /\ monitor' = [monitor EXCEPT ![m] = "closed"]
    /\ assistantSpeaking' = FALSE
    /\ UNCHANGED <<content, current, queue, opened, finished, cache, fetching, audio, spoken,
                   chatStreaming, hushed, listening, leaps, faults>>

\* signal.aborted: another answer has started, or the call is over.
Abort(m) ==
    /\ monitor[m] = "idle" /\ ~Looks(m)
    /\ monitor' = [monitor EXCEPT ![m] = "aborted"]
    /\ UNCHANGED <<content, current, queue, opened, finished, cache, fetching, audio, spoken,
                   assistantSpeaking, chatStreaming, hushed, listening, leaps, faults>>

--------------------------------------------------------------------------------
Step ==
    \/ Tap \/ HangUp \/ Sound \/ Silence \/ RecorderStops
    \/ \E j \in jobs : JobEnds(j) \/ \E k \in 1 .. MaxModels : Submit(j, k)
    \/ \E m \in Msg : \/ Start(m) \/ Stopped(m) \/ Fails(m)
                      \/ \E n \in Part : Grow(m, n) \/ Finish(m, n)
                      \/ Play(m) \/ PlayFails(m) \/ Close(m) \/ Abort(m)
    \/ \E p \in fetching : Fetched(p) \/ FetchFails(p)
    \/ AudioEnds \/ StopElsewhere

Events == said + Cardinality({f[2] : f \in faults}) + Cardinality(leaps) + IF open THEN 0 ELSE 1

CallNext == Step /\ Events' <= MaxEvents

CallSpec == CallInit /\ [][CallNext]_callVars

\* What was asked for comes to an end, the audio is delivered, what plays comes to its end,
\* timers fire; the user need not do anything.
Fairness ==
    /\ \A m \in Msg : /\ WF_callVars(\E n \in Part : Finish(m, n))
                      /\ WF_callVars(Play(m) \/ Close(m))
    /\ WF_callVars(\E p \in fetching : Fetched(p))
    /\ WF_callVars(AudioEnds)

FairSpec == CallSpec /\ Fairness

--------------------------------------------------------------------------------
(* Properties *)

CallTypeOK ==
    /\ answer \in [Msg -> AnswerStates]
    /\ text \in [Msg -> Part] /\ lastSentence \in [Msg -> Part]
    /\ done \subseteq Msg /\ stopping \subseteq Msg /\ current \in Msg \cup {Null}
    /\ queue \in [Msg -> Seq(Part)] /\ spoken \in [Msg -> Seq(Part)]
    /\ opened \subseteq Msg /\ finished \subseteq Msg
    /\ cache \subseteq Msg \X Part /\ fetching \subseteq (Msg \X Part) \ cache
    /\ monitor \in [Msg -> MonitorStates]
    /\ audio \in Msg \cup {Null} /\ (audio # Null => monitor[audio] = "playing")
    /\ assistantSpeaking \in BOOLEAN /\ chatStreaming \in BOOLEAN
    /\ open \in BOOLEAN /\ confirmed \in BOOLEAN
    /\ mic \in {"listening", "hearing", "stopping", "off"}
    /\ said \in 0 .. MaxUtterances
    /\ jobs \subseteq [id : 0 .. MaxUtterances, answers : SUBSET Msg]
    /\ hushed \subseteq Msg /\ leaps \subseteq Msg /\ faults \subseteq Msg \X Kinds

\* The assistant is not taken for the user: while a part plays no sound is detected, so that
\* none begins an utterance and interrupts, although several loops set and clear
\* assistantSpeaking; except for an answer that the user has interrupted before.  (A
\* recording that runs when the part begins goes on: nothing stops it but silence.)
NotHeardWhileSpeaking ==
    [][mic = "listening" /\ mic' = "hearing" =>
           audio \in {Null} \cup hushed \/ VoiceInterruption]_callVars

\* An answer that is spoken to its end is spoken in full: each part once and in order,
\* unless it was interrupted or came in leaps.
SpokenInFull ==
    \A m \in Msg : monitor[m] = "closed" /\ m \notin hushed \cup leaps =>
        spoken[m] = [i \in 1 .. text[m] |-> i]

\* The assistant does not keep the microphone shut: the current answer ends its turn, unless
\* something went wrong with this very answer: a part has no audio or does not play, the answer
\* has no text, fails, or is stopped by another button than the overlay.
MicReopens ==
    \A m \in Msg :
        (assistantSpeaking /\ current = m) ~>
            (~assistantSpeaking \/ current # m \/ \E k \in Kinds : <<m, k>> \in faults)

================================================================================
