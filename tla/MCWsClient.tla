----------------------------- MODULE MCWsClient ------------------------------
(* A small instance of WsClient for TLC. *)
EXTENDS WsClient

Frame(kind, ext, len) == [kind |-> kind, ext |-> ext, len |-> len]

\* Each form of the length, contents with and without bytes.
Short  == Frame("data", 0, 1)
Long   == Frame("data", 2, 3)
Huge   == Frame("data", 8, 0)
Part   == Frame("more", 0, 2)

\* One message is too big, one has control frames inside; two streams end by
\* a close frame and by a frame that is masked.
MCScripts == { <<Long, Short>>, <<Huge, Short>>, <<Part, Long>>,
               <<Part, Frame("ping", 0, 0), Frame("pong", 0, 0), Short>>,
               <<Long, Frame("close", 0, 2)>>, <<Huge, Frame("masked", 0, 1)>> }

Config(own, idle, layer) ==
  [own_io |-> own, timeout_request |-> TRUE, timeout_idle |-> idle, layer |-> layer]

\* An owner's io_service with the idle timer, internal ones without; each layer.
MCConfigs == {Config(TRUE, TRUE, "plain"), Config(FALSE, FALSE, "tls"), Config(FALSE, FALSE, "tunnel")}
==============================================================================
