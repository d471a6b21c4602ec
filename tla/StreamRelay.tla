---------------------------- MODULE StreamRelay ----------------------------
(* How the answer of an upstream reaches a streaming client: bytes as they are
   (proxy/stream_integrity.go, stream_audio.go) or translated between the chat and the
   Anthropic protocol (proxy/stream_translate.go, apicompat/stream.go). Nothing is sent
   before the first good frame, so that a stream without one can be tried elsewhere; a
   timer closes the body meanwhile. A chunk with several parts is read as its parts. *)
EXTENDS Naturals, Sequences

CONSTANTS Way,          \* ways of relaying, of those below
          Tool,         \* indices of tool calls, of content blocks of an Anthropic upstream
          MaxParts      \* bound: parts that an upstream sends

Translating == {"toAnthropic", "toChat"}

ASSUME StreamAssumption ==
    Way \subseteq Translating \cup {"openai", "other", "audio"} /\ MaxParts \in Nat

VARIABLES way,      \* how this stream is relayed
          body,     \* "flows", "ended", or "broken" by a read error or a timer
          relay,    \* what the relay remembers and what the client has
          outcome,  \* "streaming", "served", or "failed" and tried elsewhere
          parts

streamVars == <<way, body, relay, outcome, parts>>

Delta == {<<"think">>, <<"text">>} \cup ({"args"} \X Tool)
Block == [kind : {"think", "text", "call"}, tool : Tool \cup {"none"}, open : BOOLEAN,
          got : SUBSET Delta, late : SUBSET Delta]   \* late: after its stop

StreamTypeOK ==
    /\ way \in Way /\ body \in {"flows", "ended", "broken"} /\ parts \in 0 .. MaxParts
    /\ outcome \in {"streaming", "served", "failed"}
    /\ \A i \in 1 .. Len(relay.blocks) : relay.blocks[i] \in Block
    /\ DOMAIN relay.index \subseteq Tool /\ \A t \in DOMAIN relay.index : relay.index[t] \in 1 .. Len(relay.blocks)
    /\ relay.open # "none" => relay.blocks # <<>> /\ relay.blocks[Len(relay.blocks)].open

StreamInit ==
    /\ way \in Way
    /\ body = "flows"
    /\ relay = [wrote |-> FALSE, bytes |-> FALSE,      \* sent to the client, read from the upstream
                started |-> FALSE, open |-> "none",        \* openKind
                blocks |-> <<>>,                       \* blocks that the client was told of
                index |-> [t \in {} |-> 1],            \* toolBlocks, blockToTool
                reason |-> "none", told |-> "none",            \* the upstream's reason, the client's
                ends |-> 0, terminated |-> FALSE,
                tools |-> FALSE, finishes |-> 0,       \* relayed as they are
                sawTools |-> FALSE, sawFinish |-> FALSE, split |-> FALSE,
                eager |-> {}]                          \* calls whose first part had arguments
    /\ outcome = "streaming"
    /\ parts = 0

--------------------------------------------------------------------------
(* Blocks *)

\* Mutant: a block stays open when the next one begins.
closeBlock_Never(s) == [s EXCEPT !.open = "none"]
closeBlock(s) == IF s.open = "none" THEN s
                 ELSE [s EXCEPT !.open = "none", !.blocks[Len(s.blocks)].open = FALSE]

openBlock(s, kind, tool) ==
    [closeBlock(s) EXCEPT !.open = kind,
        !.blocks = Append(@, [kind |-> kind, tool |-> tool, open |-> TRUE, got |-> {}, late |-> {}])]

Given(b, what) == [b EXCEPT !.got = @ \cup {what}, !.late = IF b.open THEN @ ELSE @ \cup {what}]

deltaEventAt(s, i, what) == [s EXCEPT !.blocks[i] = Given(@, what)]

\* A tool call counts whatever reason the upstream gives.
ReasonOf(s, given) == IF DOMAIN s.index # {} \/ given = "tools" THEN "tools" ELSE given

--------------------------------------------------------------------------
(* ChatToAnthropicStream *)

Texts(s, kind) ==
    LET now == IF s.open = kind THEN s ELSE openBlock(s, kind, "none")
    IN  deltaEventAt(now, Len(now.blocks), <<kind>>)

\* The branch that opens the block of a call declares its index anew: arguments in the same
\* chunk go to block 0, whatever that is.
Calls(s, t, args) ==
    IF t \in DOMAIN s.index
    THEN IF args THEN deltaEventAt(s, s.index[t], <<"args", t>>) ELSE s
    ELSE LET now == openBlock(s, "call", t)
             known == [now EXCEPT !.index = [u \in DOMAIN @ \cup {t} |->
                                               IF u = t THEN Len(now.blocks) ELSE @[u]],
                                  !.eager = IF args THEN @ \cup {t} ELSE @]
         IN  IF args THEN deltaEventAt(known, 1, <<"args", t>>) ELSE known

\* Finalize, at [DONE] or at the end of the body; it sends nothing twice.
FinalizeAnthropic(s) ==
    IF ~s.started \/ s.ends > 0 THEN s
    ELSE [closeBlock(s) EXCEPT !.ends = 1, !.told = IF s.reason = "none" THEN "end" ELSE s.reason]

ChatParts ==
    {<<"usage">>, <<"think">>, <<"text">>, <<"finish", "end">>, <<"finish", "tools">>, <<"done">>}
        \cup ({"call"} \X Tool \X BOOLEAN)

ChatToAnthropic(s, p) ==
    LET begun == [s EXCEPT !.started = TRUE, !.wrote = TRUE] IN
    CASE p[1] = "usage" -> begun
      [] p[1] \in {"think", "text"} -> Texts(begun, p[1])
      [] p[1] = "finish" -> [begun EXCEPT !.reason = ReasonOf(s, p[2])]
      [] p[1] = "done" -> [FinalizeAnthropic(s) EXCEPT !.terminated = TRUE]
      [] p[1] = "call" -> Calls(begun, p[2], p[3])

--------------------------------------------------------------------------
(* AnthropicToChatStream: only tool calls have an index in the chat protocol *)

FinishChat(s) == [s EXCEPT !.ends = @ + 1, !.told = IF s.reason = "none" THEN "end" ELSE s.reason]

AnthropicParts ==
    {<<"message_start">>, <<"text">>, <<"finish", "end">>, <<"finish", "tools">>,
     <<"message_stop">>, <<"ping">>} \cup ({"call", "args"} \X Tool)

AnthropicToChat(s, p) ==
    CASE p[1] = "message_start" -> [s EXCEPT !.started = TRUE]
      [] p[1] = "ping" -> s
      [] p[1] = "text" -> [s EXCEPT !.wrote = TRUE]
      [] p[1] = "finish" -> [s EXCEPT !.reason = ReasonOf(s, p[2])]
      [] p[1] = "message_stop" -> [FinishChat(s) EXCEPT !.terminated = TRUE, !.wrote = TRUE]
      [] p[1] = "call" ->
           [s EXCEPT !.wrote = TRUE,
              !.blocks = Append(@, [kind |-> "call", tool |-> p[2], open |-> TRUE, got |-> {}, late |-> {}]),
              !.index = [u \in DOMAIN @ \cup {p[2]} |-> IF u = p[2] THEN Len(s.blocks) + 1 ELSE @[u]]]
      [] p[1] = "args" ->   \* arguments of a block that was never started are dropped
           IF p[2] \in DOMAIN s.index
           THEN [deltaEventAt(s, s.index[p[2]], <<"args", p[2]>>) EXCEPT !.wrote = TRUE] ELSE s

--------------------------------------------------------------------------
(* streamWithIntegrity, flushAndStream, streamAudioPassthrough *)

PlainParts ==
    IF way = "audio" THEN {<<"data">>} ELSE
        {<<"data">>, <<"tools">>, <<"finish">>, <<"error">>, <<"done">>, <<"comment">>}
Valid(p) == p[1] \notin {"done", "comment"}

Relayed(s, p) == [s EXCEPT !.tools = @ \/ p[1] = "tools", !.finishes = @ + (IF p[1] = "finish" THEN 1 ELSE 0)]
scanToolCallsAndFinish(s, p) == [s EXCEPT !.sawTools = @ \/ p[1] = "tools", !.sawFinish = @ \/ p[1] = "finish"]

\* After the head, a frame that two reads split is relayed and not recognised.
Plain(s, p, whole) ==
    IF s.wrote
    THEN IF whole THEN scanToolCallsAndFinish(Relayed(s, p), p)
         ELSE [Relayed(s, p) EXCEPT !.split = TRUE]
    ELSE IF Valid(p) THEN [scanToolCallsAndFinish(Relayed(s, p), p) EXCEPT !.wrote = TRUE, !.bytes = TRUE]
    ELSE [s EXCEPT !.bytes = TRUE]

\* Clients wait for the reason of a tool call: one is added when the upstream gave none.
Completed(s) == IF way = "openai" /\ s.sawTools /\ ~s.sawFinish THEN [s EXCEPT !.finishes = @ + 1] ELSE s

--------------------------------------------------------------------------

\* After its terminator an upstream sends nothing, but for a second [DONE].
Says(p) ==
    /\ outcome = "streaming" /\ body = "flows"
    /\ parts < MaxParts /\ parts' = parts + 1
    /\ relay.terminated => p[1] = "done"

TranslatedPart(p) ==
    /\ way \in Translating
    /\ Says(p)
    /\ relay' = IF way = "toAnthropic" THEN ChatToAnthropic(relay, p) ELSE AnthropicToChat(relay, p)
    /\ UNCHANGED <<way, body, outcome>>

\* The first frame of an OpenAI stream is an error: nothing was sent, another try.
ErrorFirst(p) ==
    /\ way = "openai" /\ p[1] = "error" /\ ~relay.wrote
    /\ Says(p)
    /\ outcome' = "failed"
    /\ UNCHANGED <<way, body, relay>>

PlainPart(p) ==
    /\ way \notin Translating /\ ~(way = "openai" /\ p[1] = "error" /\ ~relay.wrote)
    /\ Says(p)
    /\ \E whole \in BOOLEAN : relay' = Plain(relay, p, whole)
    /\ UNCHANGED <<way, body, outcome>>

\* The upstream ends, breaks off or is cut off by a timer or by the client.
BodyEnds(how) ==
    /\ outcome = "streaming" /\ body = "flows"
    /\ body' = how
    /\ UNCHANGED <<way, relay, outcome, parts>>

\* Mutant: a stream that breaks off is left as it is.
Finalize_Not(s) == s
Finalize(s) ==
    IF s.terminated THEN s
    ELSE IF way = "toAnthropic" THEN FinalizeAnthropic(s)
    ELSE [(IF s.started THEN FinishChat(s) ELSE s) EXCEPT !.terminated = TRUE, !.wrote = TRUE]

TranslatedEnds ==
    /\ outcome = "streaming" /\ body # "flows" /\ way \in Translating
    /\ relay' = Finalize(relay)
    /\ outcome' = IF relay'.wrote THEN "served" ELSE "failed"
    /\ UNCHANGED <<way, body, parts>>

\* Bytes without a frame are passed on, unless reading them failed.
PlainEnds ==
    /\ outcome = "streaming" /\ body # "flows" /\ way \notin Translating
    /\ LET passes == relay.wrote \/ (relay.bytes /\ body = "ended") IN
         /\ relay' = IF passes THEN [Completed(relay) EXCEPT !.wrote = TRUE] ELSE relay
         /\ outcome' = IF passes THEN "served" ELSE "failed"
    /\ UNCHANGED <<way, body, parts>>

StreamNext ==
    \/ \E p \in (IF way = "toAnthropic" THEN ChatParts ELSE AnthropicParts) : TranslatedPart(p)
    \/ \E p \in PlainParts : PlainPart(p) \/ ErrorFirst(p)
    \/ \E how \in {"ended", "broken"} : BodyEnds(how)
    \/ TranslatedEnds \/ PlainEnds

StreamSpec == StreamInit /\ [][StreamNext]_streamVars

--------------------------------------------------------------------------
(* Properties *)

\* A strict Anthropic client can follow the stream, in whatever order thoughts, texts and
\* calls come and wherever the upstream breaks off: one block is open at a time, what a
\* block gets is its own, only arguments of interleaved calls come after its stop, and a
\* stream that began ends once, with every block closed (Process, Finalize).
AnthropicWellFormed ==
    way = "toAnthropic" =>
        /\ \A i \in 1 .. Len(relay.blocks) :
             LET b == relay.blocks[i]
                 own == IF b.kind = "call" THEN <<"args", b.tool>> ELSE <<b.kind>> IN
             /\ b.open => i = Len(relay.blocks)
             /\ b.got \subseteq {own} \cup ({"args"} \X relay.eager)
             /\ b.late \subseteq {"args"} \X Tool
        /\ relay.ends <= 1
        /\ relay.ends = 1 => \A i \in 1 .. Len(relay.blocks) : ~relay.blocks[i].open
        /\ outcome = "served" => relay.ends = 1

\* A chat client gets the arguments of a call under its own index, and a stream that began
\* ends with one reason and [DONE] (AnthropicToChatStream).
ChatWellFormed ==
    way = "toChat" =>
        /\ \A i \in 1 .. Len(relay.blocks) : relay.blocks[i].got \subseteq {<<"args", relay.blocks[i].tool>>}
        /\ outcome = "served" => relay.terminated /\ (relay.started => relay.ends = 1)

\* A client runs the calls that it was sent only if the upstream came to its end.
CallsNeedReason == relay.told = "tools" => relay.reason = "tools"

\* A client that was sent calls as they are is told that they are complete; it is told so
\* twice only if the upstream does or two reads split the frame (flushAndStream).
CallsCompleted ==
    way = "openai" /\ outcome = "served" /\ relay.tools /\ ~relay.split => relay.finishes >= 1

\* A stream is tried elsewhere only if nothing of it was sent.
FailedUnsent == outcome = "failed" => ~relay.wrote /\ relay.blocks = <<>>

StreamsSound == AnthropicWellFormed /\ ChatWellFormed /\ CallsNeedReason /\ CallsCompleted /\ FailedUnsent

\* The arguments of a call reach the block of that call (toolBlocks).
ArgumentsReachTheirCall ==
    \A i \in 1 .. Len(relay.blocks), t \in Tool :
        <<"args", t>> \in relay.blocks[i].got => relay.blocks[i].tool = t
=============================================================================
