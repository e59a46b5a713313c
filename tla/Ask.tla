-------------------------------- MODULE Ask --------------------------------
(***************************************************************************)
(* A question to the language model: RagPipeline::answer_in_conversation,  *)
(* with the retries of the HTTP clients under it and the one repeat that   *)
(* invented citations cause, and the streamed answer (answer_stream, the   *)
(* providers' event streams, /ask/stream), whose frames arrive cut at any  *)
(* byte and whose connection may close or fail at any point.               *)
(*                                                                         *)
(* A frame on the wire is two units: its body, and the blank line that     *)
(* ends it.  The grounding of the question is a set of concept ids.        *)
(***************************************************************************)
EXTENDS Naturals, FiniteSets, Sequences, SequencesExt

CONSTANTS Scripts,       \* what the provider may send, frame by frame
          Texts,         \* its text deltas
          MaxRetries,
          Known,         \* ids in the retrieved subgraph
          Invented,      \* ids the model may make up
          MaxErrors,     \* bound: failed reads of one stream
          None

(* Besides text: frames that carry none, the stop reason, an error of the  *)
(* provider's own, the end.  No text follows the stop reason or the end.   *)
Signals == {"start", "ping", "why", "oops", "stop"}

AskAssumption ==
    \A s \in Scripts :
        /\ s \in Seq(Texts \cup Signals)
        /\ \A i, j \in DOMAIN s : s[i] \in {"why", "stop"} /\ i < j => s[j] \notin Texts

VARIABLES
    mode,      \* "idle", "first", "again" (the repeat), "stream", "done"
    script,
    attempt,   \* of the generate under way
    first,     \* the first answer's citations, once it is kept for comparison
    answer,    \* the citations returned, and those of the text returned
    got,       \* units received
    used,      \* frames taken off the buffer
    net,       \* "open", "closed" by the server, or "failed"
    failures,
    why,       \* the stop reason is known
    out,       \* the events sent on
    ended

qvars == <<mode, script, attempt, first, answer, got, used, net, failures, why, out, ended>>
stream == <<script, got, used, net, failures, why, out, ended>>
plain  == <<attempt, first, answer>>

QInit ==
    /\ mode = "idle" /\ script \in Scripts /\ attempt = 0
    /\ first = None /\ answer = None
    /\ got = 0 /\ used = 0 /\ net = "open" /\ failures = 0 /\ why = FALSE
    /\ out = << >> /\ ended = FALSE

---------------------------------------------------------------------------
(* generate: transport errors and 408, 409, 429 and 5xx are tried again.   *)
AskPlain ==
    /\ mode = "idle" /\ mode' = "first"
    /\ UNCHANGED <<plain, stream>>

Generating == mode \in {"first", "again"}

Retry ==
    /\ Generating /\ attempt < MaxRetries
    /\ attempt' = attempt + 1
    /\ UNCHANGED <<mode, first, answer, stream>>

(* The call fails for good: the question does, or its repeat is given up.  *)
Fail ==
    /\ Generating
    /\ attempt' = 0 /\ mode' = "done"
    /\ answer' = IF mode = "first" THEN None
                 ELSE [cited |-> first \cap Known, text |-> first]
    /\ UNCHANGED <<first, stream>>

(* The model answers, citing `ids'; ids that were not retrieved are worth  *)
(* one repeat, kept if it invents none or cites more that are known.       *)
Reply(ids) == [cited |-> ids \cap Known, text |-> ids]
Better(ids) ==
    ids \subseteq Known \/ Cardinality(ids \cap Known) > Cardinality(first \cap Known)

Answered ==
    /\ Generating
    /\ attempt' = 0
    /\ \E ids \in SUBSET (Known \cup Invented) :
          \/ /\ mode = "first" /\ ids \subseteq Known
             /\ mode' = "done" /\ answer' = Reply(ids) /\ UNCHANGED first
          \/ /\ mode = "first" /\ ~(ids \subseteq Known)
             /\ mode' = "again" /\ first' = ids /\ UNCHANGED answer
          \/ /\ mode = "again"
             /\ mode' = "done" /\ answer' = Reply(IF Better(ids) THEN ids ELSE first)
             /\ UNCHANGED first
    /\ UNCHANGED stream

---------------------------------------------------------------------------
(* The stream: the grounding first, then what the frames say.              *)
AskStream ==
    /\ mode = "idle" /\ mode' = "stream"
    /\ out' = <<"retrieved">>
    /\ UNCHANGED <<attempt, first, answer, script, got, used, net, failures, why, ended>>

Streaming == mode = "stream" /\ ~ended
Total     == 2 * Len(script)

Arrive ==
    /\ mode = "stream" /\ net = "open" /\ got < Total
    /\ got' \in got + 1 .. Total
    /\ UNCHANGED <<mode, plain, script, used, net, failures, why, out, ended>>

(* The server closes, at its end or before; or the connection breaks.      *)
Hang ==
    /\ mode = "stream" /\ net = "open" /\ net' \in {"closed", "failed"}
    /\ UNCHANGED <<mode, plain, script, got, used, failures, why, out, ended>>

(* take_one_sse_event: the first frame whose blank line has come.          *)
Complete == got >= 2 * (used + 1)
TakeOne_All == got \div 2
TakeOne == used + 1

Frame == script[used + 1]

Drain ==
    /\ Streaming /\ Complete
    /\ used' = TakeOne
    /\ why' = (why \/ Frame = "why")
    /\ out' = IF Frame \in Texts THEN Append(out, Frame)
              ELSE IF Frame = "oops" THEN Append(out, "error")
              ELSE IF Frame = "stop" THEN Append(out, IF why THEN "end" ELSE "end?")
              ELSE out
    /\ ended' = (Frame = "stop")
    /\ UNCHANGED <<mode, plain, script, got, net, failures>>

(* No whole frame is left.  At a close the end is made up; a failed read   *)
(* is sent as an error, and the stream is asked again, which finds the     *)
(* connection failed still, or closed.                                     *)
ReadOn ==
    /\ Streaming /\ ~Complete
    /\ \/ /\ net = "closed"
          /\ out' = Append(out, IF why THEN "end" ELSE "end?") /\ ended' = TRUE
          /\ UNCHANGED <<net, failures>>
       \/ /\ net = "failed" /\ failures < MaxErrors
          /\ out' = Append(out, "error") /\ failures' = failures + 1
          /\ net' \in {"closed", "failed"}
          /\ UNCHANGED ended
    /\ UNCHANGED <<mode, plain, script, got, used, why>>

QNext == \/ AskPlain \/ Retry \/ Fail \/ Answered
         \/ AskStream \/ Arrive \/ Hang \/ Drain \/ ReadOn

QSpec == QInit /\ [][QNext]_qvars

---------------------------------------------------------------------------
(* However the bytes are cut and wherever the connection ends: the text    *)
(* sent on is what the model sent, in order, nothing twice, nothing left   *)
(* out in the middle; the end comes once, last; and an end that carries    *)
(* the stop reason comes after the whole text.                             *)
TextOf(s) ==
    LET upTo[i \in 0 .. Len(s)] ==
            IF i = 0 THEN << >> ELSE IF s[i] \in Texts THEN Append(upTo[i - 1], s[i]) ELSE upTo[i - 1]
    IN  upTo[Len(s)]
IsEnd(x)  == x \in {"end", "end?"}

StreamWhole ==
    /\ IsPrefix(TextOf(out), TextOf(script))
    /\ \A i \in DOMAIN out : IsEnd(out[i]) => i = Len(out)
    /\ out # << >> => out[1] = "retrieved"
    /\ (\E i \in DOMAIN out : out[i] = "end") => TextOf(out) = TextOf(script)

==============================================================================
