--------------------------- MODULE MCProxyRequest ---------------------------
(* A small instance of ProxyRequest. *)
EXTENDS ProxyRequest, Functions, TLC

CONSTANTS o, a, p    \* an OpenAI stream, an Anthropic stream, a plain request

Of(kind, name, in, out) == [kind |-> kind, name |-> name, in |-> in, out |-> out]

Texts == {"", "default", "unknown", "acme", "globex", "bot", "cursor",
          "message_start", "message_delta", "message_stop", "ping"}

Three == {o, a, p}
ViaOpenAI == {o, p}
Streams == {o, a}
None == {}
JustO == {o}
TwoHang == {a, p}

\* o names its tenant and leaves the agent to its key; p has only a key.
Headers == [r \in Three |->
  CASE r = o -> [tenant |-> "acme", agent |-> ""]
    [] r = a -> [tenant |-> "acme", agent |-> "bot"]
    [] r = p -> [tenant |-> "", agent |-> ""]]

OandP == {o, p}
OneMapping == {[tenant |-> "globex", agent |-> "cursor"]}

\* Two usage chunks, the second one final; a stream of Anthropic's with a ping
\* between, two running totals, and an overlong line before its closing event.
OpenAIStream == <<Of("usage", "", 1, 1), Of("usage", "", 2, 3), Of("other", "", 0, 0)>>
AnthropicStream ==
  <<Of("event", "message_start", 0, 0), Of("data", "", 2, 1),
    Of("event", "ping", 0, 0), Of("data", "", 0, 0),
    Of("event", "message_delta", 0, 0), Of("data", "", 0, 1),
    Of("event", "message_delta", 0, 0), Of("data", "", 0, 2),
    Of("long", "", 0, 0), Of("event", "message_stop", 0, 0)>>

Answers == [r \in Three |->
  CASE r = o -> OpenAIStream
    [] r = a -> AnthropicStream
    [] r = p -> <<Of("usage", "", 1, 2)>>]

=============================================================================
