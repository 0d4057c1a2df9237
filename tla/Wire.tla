-------------------------------- MODULE Wire --------------------------------
(***************************************************************************)
(* What crosses a tunnel (crate mobilink-core: message.rs, wire.rs).  Each *)
(* stream carries one message in each direction, and the end of a stream   *)
(* is the end of its message: the CLI opens the first for its Hello and    *)
(* the SessionCreated that answers it, the server one for each request.    *)
(***************************************************************************)
EXTENDS Core

CONSTANTS
  Reqs,       \* the public HTTP requests, each on a stream of its own
  Slow,       \* the requests the developer's application never answers
  NoHello,    \* no Hello has been sent yet
  BadHello    \* a first message that does not decode as a Hello

ASSUME NotAHelloAssumption == {NoHello, BadHello} \cap Options = {}

\* What the server knows of the stream of a request: not opened, sent and
\* without an answer, answered by a frame that decodes, or by one that does
\* not, be it empty, cut short or too long.
Streams == {"none", "sent", "frame", "unreadable"}
=============================================================================
