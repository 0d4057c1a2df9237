---------------------------- MODULE HttpExchange ----------------------------
(***************************************************************************)
(* What becomes of one HTTP exchange on its way from the browser to the    *)
(* developer's application and back: the CORS layer and the proxy handler  *)
(* of the server (http.rs), the injection of Eruda (transform.rs) and the  *)
(* replay by the CLI (local.rs).  Who the exchange is routed to is the     *)
(* business of Relay; here the tunnel is found.                            *)
(*                                                                         *)
(* A header is a name and a value; names are in lower case, as the two     *)
(* HTTP libraries deliver them.  A body is a sequence of parts, a cookie a *)
(* sequence of its name-value pair and its attributes.                     *)
(***************************************************************************)
EXTENDS Naturals, SequencesExt

CONSTANTS
  Requests,    \* the browser's requests: [method, origin, asked, headers]
  Replies,     \* Replies[q]: what the application may reply while q is
               \* handled: [status, location, headers, cookies, body]
  Treatments,  \* Treatments[q]: what may be done to its response:
               \* [rewrite, inject]
  UrlScheme,   \* the scheme of the configured public URL, or None
  MaxHops      \* the redirects the CLI's HTTP client follows: 10

None == "none"            \* an absent header, or the None of an Option
Unreadable == "opaque"    \* a value whose bytes are not visible ASCII
Nothing == <<>>           \* a reply, frame or response there is not yet

Header  == [name : STRING, value : STRING \ {None}]
Cookies == Seq(STRING) \ {<<>>}
Body    == [text : BOOLEAN, parts : Seq(STRING)]
Frames  == [status : STRING, headers : Seq(Header), cookies : Seq(Cookies), body : Body]

ASSUME MaxHopsAssumption == MaxHops \in Nat

\* What is written out below is a string, which the provers do not know.
ASSUME LiteralsAssumption ==
  {"none", "opaque", "http", "host", "content-type", "content-length", "text/plain",
   "x-forwarded-proto", "x-forwarded-host", "vary", "origin", "*", "true", "all", "86400",
   "access-control-allow-origin", "access-control-allow-credentials",
   "access-control-allow-methods", "access-control-allow-headers",
   "access-control-max-age", "204", "404", "413", "502", "unreachable", "message",
   "secure", "domain", "empty", "samesite=lax", "samesite=none", "eruda"} \subseteq STRING

ASSUME SchemeAssumption == UrlScheme \in STRING

ASSUME RequestsAssumption ==
  Requests \subseteq
    [method : STRING, origin : STRING, asked : STRING, headers : Seq(Header)]

ASSUME RepliesAssumption ==
  \A q \in Requests :
    Replies[q] \subseteq [status : STRING, location : STRING, headers : Seq(Header),
                         cookies : Seq(Cookies), body : Body]

ASSUME TreatmentsAssumption ==
  \A q \in Requests : Treatments[q] \subseteq [rewrite : BOOLEAN, inject : BOOLEAN]

VARIABLES
  request,     \* the browser's request
  treatment,   \* the options that apply to its response
  place,       \* where the exchange is
  forwarded,   \* the headers in the request frame
  local,       \* the headers of the request the CLI sends to the local port
  hops,        \* the redirects followed so far
  reply,       \* the reply of the application whose body is still to be read
  frame,       \* the response frame
  response     \* what the browser gets

evars == <<request, treatment, place, forwarded, local, hops, reply, frame, response>>

\* The elements of s that are in T, in their order: SelectSeq, in a form that
\* can be proved about.
Keep(s, T) ==
  LET kept[i \in 0 .. Len(s)] ==
        IF i = 0 THEN <<>>
        ELSE IF s[i] \in T THEN Append(kept[i - 1], s[i])
        ELSE kept[i - 1]
  IN kept[Len(s)]

Called(N) == [name : N, value : STRING \ {None}]
Readable  == [name : STRING, value : STRING \ {None, Unreadable}]

Named(hs, n)   == Keep(hs, Called({n}))
Unnamed(hs, N) == Keep(hs, Called(STRING \ N))
Has(hs, n)     == Named(hs, n) # <<>>

\* header(): the first value of that name.
First(hs, n) == IF Has(hs, n) THEN Named(hs, n)[1].value ELSE None

SetHeaderAdding(hs, n, v) == Append(hs, [name |-> n, value |-> v])

\* HeaderMap::insert: the new value replaces every other.
SetHeader(hs, n, v) == Append(Unnamed(hs, {n}), [name |-> n, value |-> v])
-----------------------------------------------------------------------------
(***************************************************************************)
(* The way to the application.                                             *)
(***************************************************************************)
StrippedRequestHeaders ==
  {"host", "connection", "accept-encoding", "content-length", "transfer-encoding"}
Recomputed == {"x-forwarded-proto", "x-forwarded-host"}

PublicScheme == IF UrlScheme = None THEN "http" ELSE UrlScheme

ForwardedProto(hs) ==
  IF First(hs, "x-forwarded-proto") \in {None, Unreadable}
    THEN PublicScheme ELSE First(hs, "x-forwarded-proto")

\* An x-forwarded-host that cannot be read hides the Host header too.
ForwardedHost(hs) ==
  LET v == First(hs, IF Has(hs, "x-forwarded-host") THEN "x-forwarded-host" ELSE "host")
  IN IF v = Unreadable THEN None ELSE v

ForwardedHeadersAdding(hs) ==
  LET kept == Keep(Unnamed(hs, StrippedRequestHeaders), Readable)
      proto == [name |-> "x-forwarded-proto", value |-> ForwardedProto(hs)]
      host == [name |-> "x-forwarded-host", value |-> ForwardedHost(hs)]
  IN kept \o <<proto>> \o IF host.value = None THEN <<>> ELSE <<host>>

ForwardedHeadersUnfiltered(hs) ==
  LET kept == Keep(Unnamed(hs, {"host"} \cup Recomputed), Readable)
      proto == [name |-> "x-forwarded-proto", value |-> ForwardedProto(hs)]
      host == [name |-> "x-forwarded-host", value |-> ForwardedHost(hs)]
  IN kept \o <<proto>> \o IF host.value = None THEN <<>> ELSE <<host>>

ForwardedHeaders(hs) ==
  LET kept == Keep(Unnamed(hs, StrippedRequestHeaders \cup Recomputed), Readable)
      proto == [name |-> "x-forwarded-proto", value |-> ForwardedProto(hs)]
      host == [name |-> "x-forwarded-host", value |-> ForwardedHost(hs)]
  IN kept \o <<proto>> \o IF host.value = None THEN <<>> ELSE <<host>>

\* try_replay leaves these two to the HTTP client.
ReplayedHeaders(hs) == Unnamed(hs, {"host", "content-length"})
-----------------------------------------------------------------------------
(***************************************************************************)
(* The way back.                                                           *)
(***************************************************************************)

\* replay_locally, when the replay fails.
ReplayFailed ==
  [status |-> "502", headers |-> <<[name |-> "content-type", value |-> "text/plain"]>>,
   cookies |-> <<>>, body |-> [text |-> TRUE, parts |-> <<"unreachable">>]]

\* try_replay keeps the headers whose value is readable.
Captured(a) ==
  [status  |-> a.status,
   headers |-> Keep(a.headers, Readable),
   cookies |-> Keep(a.cookies, Seq(STRING \ {Unreadable})),
   body    |-> a.body]

SameSite == {"samesite=lax", "samesite=none"}

\* An attribute list without its empty entries and those that name N.
Attributes(c, N) == Keep(Tail(c), STRING \ (N \cup {"empty"}))

RewriteKeepingSameSite(c) ==
  LET kept == Attributes(c, {"domain"})
  IN <<Head(c)>> \o kept \o (IF Contains(kept, "secure") THEN <<>> ELSE <<"secure">>)
       \o <<"samesite=none">>

RewriteSetCookie(c) ==
  LET kept == Attributes(c, {"domain"} \cup SameSite)
  IN <<Head(c)>> \o kept \o (IF Contains(kept, "secure") THEN <<>> ELSE <<"secure">>)
       \o <<"samesite=none">>

RewriteCookies(r) ==
  [r EXCEPT !.cookies = [i \in DOMAIN @ |-> RewriteSetCookie(@[i])]]

ClosingTag(p) == p \in {"</body>", "</BODY>"}

InsertSnippetFirst(parts) ==
  LET k == SelectInSeq(parts, ClosingTag)
  IN IF k = 0 THEN Append(parts, "eruda") ELSE InsertAt(parts, k, "eruda")

\* Before the last closing tag, or at the end.
InsertSnippet(parts) ==
  LET k == SelectLastInSeq(parts, ClosingTag)
  IN IF k = 0 THEN Append(parts, "eruda") ELSE InsertAt(parts, k, "eruda")

Injectable(r) ==
  /\ First(r.headers, "content-type") = "text/html"
  /\ First(r.headers, "content-encoding") \in {None, "identity"}
  /\ r.body.text

\* ErudaInjector::transform
Transform(r) ==
  IF Injectable(r)
    THEN [r EXCEPT !.body.parts = InsertSnippet(@),
                   !.headers = Unnamed(@, {"content-length"})]
    ELSE r

StrippedResponseHeaders == {"content-length", "transfer-encoding", "connection"}

BuildResponse(r) == [r EXCEPT !.headers = Unnamed(@, StrippedResponseHeaders)]

\* text_response, for the requests that have no tunnel or a broken one.
TextResponse(s) ==
  [status |-> s, headers |-> <<[name |-> "content-type", value |-> "text/plain"]>>,
   cookies |-> <<>>, body |-> [text |-> TRUE, parts |-> <<"message">>]]

AddCorsHeaders(hs, origin) ==
  IF origin = None
    THEN SetHeader(hs, "access-control-allow-origin", "*")
    ELSE SetHeader(
           SetHeader(
             SetHeader(hs, "access-control-allow-origin", origin),
             "access-control-allow-credentials", "true"),
           "vary", "origin")

PreflightResponse(q) ==
  [status |-> "204", cookies |-> <<>>, body |-> [text |-> TRUE, parts |-> <<>>],
   headers |-> AddCorsHeaders(<<>>, q.origin) \o
     <<[name |-> "access-control-allow-methods", value |-> "all"],
       [name |-> "access-control-allow-headers",
        value |-> IF q.asked = None THEN "*" ELSE q.asked],
       [name |-> "access-control-max-age", value |-> "86400"]>>]
-----------------------------------------------------------------------------
(***************************************************************************)
(* The steps of an exchange, each by one party.                            *)
(***************************************************************************)
ExchangeInit ==
  /\ request \in Requests
  /\ treatment \in Treatments[request]
  /\ place = "cors"
  /\ forwarded = <<>>
  /\ local = <<>>
  /\ hops = 0
  /\ reply = Nothing
  /\ frame = Nothing
  /\ response = Nothing

\* cors_layer answers every OPTIONS request itself.
AnswerPreflight ==
  /\ place = "cors"
  /\ request.method = "OPTIONS"
  /\ response' = PreflightResponse(request)
  /\ place' = "done"
  /\ UNCHANGED <<request, treatment, forwarded, local, hops, reply, frame>>

\* proxy_handler does not take a body above the limit.
RefuseBody ==
  /\ place = "cors"
  /\ request.method # "OPTIONS"
  /\ response' = TextResponse("413")
  /\ place' = "answer"
  /\ UNCHANGED <<request, treatment, forwarded, local, hops, reply, frame>>

\* proxy_handler makes the request frame and forwards it.
SendFrame ==
  /\ place = "cors"
  /\ request.method # "OPTIONS"
  /\ forwarded' = ForwardedHeaders(request.headers)
  /\ place' = "tunnel"
  /\ UNCHANGED <<request, treatment, local, hops, reply, frame, response>>

\* The pipeline finds nobody to forward to, or the tunnel is lost before the
\* frame is in or returns one that cannot be read: proxy_handler answers itself,
\* whatever the application does or has done with the request.
Refuse ==
  /\ \/ place = "tunnel" /\ \E s \in {"404", "502"} : response' = TextResponse(s)
     \/ place \in {"local", "reply", "frame"} /\ response' = TextResponse("502")
  /\ place' = "answer"
  /\ reply' = Nothing
  /\ frame' = Nothing
  /\ UNCHANGED <<request, treatment, forwarded, local, hops>>

\* try_replay sends the request to the local port.
Replay ==
  /\ place = "tunnel"
  /\ local' = ReplayedHeaders(forwarded)
  /\ place' = "local"
  /\ UNCHANGED <<request, treatment, forwarded, hops, reply, frame, response>>

FollowRedirectCountingAnew(a) ==
  CASE a.location = None ->
         reply' = a /\ place' = "reply" /\ UNCHANGED <<hops, frame>>
    [] a.location = "http" /\ hops < MaxHops ->
         hops' = (IF a.status = "302" THEN 0 ELSE hops + 1) /\ UNCHANGED <<reply, place, frame>>
    [] OTHER ->
         frame' = ReplayFailed /\ place' = "frame" /\ UNCHANGED <<hops, reply>>

FollowRedirectOnceMore(a) ==
  CASE a.location = None ->
         reply' = a /\ place' = "reply" /\ UNCHANGED <<hops, frame>>
    [] a.location = "http" /\ hops <= MaxHops ->
         hops' = hops + 1 /\ UNCHANGED <<reply, place, frame>>
    [] OTHER ->
         frame' = ReplayFailed /\ place' = "frame" /\ UNCHANGED <<hops, reply>>

\* What the HTTP client of the CLI makes of a reply.  By default it follows
\* redirects, up to a limit; it is built without TLS, so one to an https
\* address fails like any other transport error.  What it changes in the headers
\* of a request it repeats is left out: `local` is what the first address gets.
FollowRedirect(a) ==
  CASE a.location = None ->
         reply' = a /\ place' = "reply" /\ UNCHANGED <<hops, frame>>
    [] a.location = "http" /\ hops < MaxHops ->
         hops' = hops + 1 /\ UNCHANGED <<reply, place, frame>>
    [] OTHER ->
         frame' = ReplayFailed /\ place' = "frame" /\ UNCHANGED <<hops, reply>>

\* The client's send() returns with the head of a reply, or fails.
LocalReplies ==
  /\ place = "local"
  /\ \E a \in Replies[request] : FollowRedirect(a)
  /\ UNCHANGED <<request, treatment, forwarded, local, response>>

\* try_replay has read the body as well.
CaptureReply ==
  /\ place = "reply"
  /\ frame' = Captured(reply)
  /\ reply' = Nothing
  /\ place' = "frame"
  /\ UNCHANGED <<request, treatment, forwarded, local, hops, response>>

\* Nothing listens on the local port, or the connection breaks before the reply
\* or inside its body.
LocalFails ==
  /\ place \in {"local", "reply"}
  /\ frame' = ReplayFailed
  /\ reply' = Nothing
  /\ place' = "frame"
  /\ UNCHANGED <<request, treatment, forwarded, local, hops, response>>

\* proxy_handler treats the response frame as the options say.
TreatResponse ==
  /\ place = "frame"
  /\ LET r == IF treatment.rewrite THEN RewriteCookies(frame) ELSE frame
     IN response' = BuildResponse(IF treatment.inject THEN Transform(r) ELSE r)
  /\ place' = "answer"
  /\ UNCHANGED <<request, treatment, forwarded, local, hops, reply, frame>>

\* cors_layer, on the way out.
AddCors ==
  /\ place = "answer"
  /\ response' = [response EXCEPT !.headers = AddCorsHeaders(@, request.origin)]
  /\ place' = "done"
  /\ UNCHANGED <<request, treatment, forwarded, local, hops, reply, frame>>

ExchangeNext ==
  \/ AnswerPreflight \/ RefuseBody \/ SendFrame \/ Refuse \/ Replay
  \/ LocalReplies \/ CaptureReply \/ LocalFails \/ TreatResponse \/ AddCors

ExchangeSpec == ExchangeInit /\ [][ExchangeNext]_evars

\* An application that answers each request it gets; one that does not is the
\* business of Relay.
FairExchangeSpec == ExchangeSpec /\ WF_evars(ExchangeNext)
-----------------------------------------------------------------------------
Places == {"cors", "tunnel", "local", "reply", "frame", "answer", "done"}

ExchangeTypeOK ==
  /\ request \in Requests
  /\ treatment \in Treatments[request]
  /\ place \in Places
  /\ hops \in 0 .. MaxHops
  /\ forwarded \in Seq(Header)
  /\ local \in Seq(Header)
  /\ reply \in Replies[request] \cup {Nothing}
  /\ frame \in Frames \cup {Nothing}
  /\ response \in Frames \cup {Nothing}

Values(hs, n) == [i \in DOMAIN Named(hs, n) |-> Named(hs, n)[i].value]

AtLocal == place \in {"local", "reply"} \/ frame # Nothing

\* The application learns the public address under which it is visited from
\* exactly one X-Forwarded-Proto and at most one X-Forwarded-Host, however
\* many of them proxies in front of the server have added.  The scheme is the
\* first proxy's, or the server's own when there is none that can be read; the
\* host is one that a proxy or the browser named, and the very first if that
\* one can be read.  When it cannot, see PublicHostAlwaysTold.
LocalLearnsPublicAddress ==
  AtLocal =>
    LET said(n) == Values(request.headers, n)
        proto == said("x-forwarded-proto")
        host == said("x-forwarded-host") \o said("host")
        told == Values(local, "x-forwarded-host")
    IN /\ Values(local, "x-forwarded-proto") =
            <<IF proto = <<>> \/ proto[1] = Unreadable THEN PublicScheme ELSE proto[1]>>
       /\ Len(told) <= 1
       /\ ToSet(told) \subseteq ToSet(host) \ {Unreadable}
       /\ host # <<>> /\ host[1] # Unreadable => told = <<host[1]>>

\* All readable headers the browser sent reach the application, repeated ones
\* in the order they had, but for those that concern the connection alone and
\* the one that would ask for a compressed page.
OtherHeadersArrive ==
  AtLocal =>
    \A n \in {h.name : h \in ToSet(request.headers)} \ Recomputed :
      Values(local, n) =
        IF n \in StrippedRequestHeaders THEN <<>>
        ELSE Keep(Values(request.headers, n), STRING \ {Unreadable})

\* The response frame has been treated; cors_layer changes headers only.
Treated == place \in {"answer", "done"} /\ frame # Nothing

\* A page comes out as it went in, or with the console inserted at one place
\* that no closing tag follows but the one right behind it; and it is touched
\* only if the developer wants it and it is readable HTML.
PageOnlyGainsConsole ==
  Treated =>
    LET old == frame.body.parts
        new == response.body.parts
    IN IF ~(treatment.inject /\ Injectable(frame)) THEN new = old
       ELSE \E k \in 0 .. Len(old) :
              /\ new = SubSeq(old, 1, k) \o <<"eruda">> \o SubSeq(old, k + 1, Len(old))
              /\ k = Len(old) \/ ClosingTag(old[k + 1])
              /\ \A j \in 1 .. Len(old) : ClosingTag(old[j]) => j <= k + 1

\* With --auth cookie, every cookie keeps its value and its other attributes
\* in their order, is bound to no domain, is Secure, and carries one SameSite,
\* which is None: browsers take it in whatever form the application gave it.
\* In the other modes cookies pass untouched.
CookiesSurvive ==
  Treated =>
    IF ~treatment.rewrite THEN response.cookies = frame.cookies
    ELSE /\ Len(response.cookies) = Len(frame.cookies)
         /\ \A i \in DOMAIN frame.cookies :
              LET old == frame.cookies[i]
                  new == response.cookies[i]
                  others(c) == Attributes(c, {"domain", "secure"} \cup SameSite)
              IN /\ Head(new) = Head(old)
                 /\ others(new) = others(old)
                 /\ ToSet(Tail(new)) \cap ({"domain", "empty"} \cup SameSite) = {"samesite=none"}
                 /\ Keep(Tail(new), SameSite) = <<"samesite=none">>
                 /\ Contains(Tail(new), "secure")

\* Whatever CORS headers the application sets itself, and also on errors and
\* preflights, the browser gets one allowed origin; a page of another origin
\* gets its own, with credentials, and no cache may give its answer to a third.
OneAllowedOrigin ==
  place = "done" =>
    LET got(n) == Values(response.headers, n) IN
    IF request.origin = None
      THEN got("access-control-allow-origin") = <<"*">>
      ELSE /\ got("access-control-allow-origin") = <<request.origin>>
           /\ got("access-control-allow-credentials") = <<"true">>
           /\ got("vary") = <<"origin">>

\* The exchange ends however the application redirects.
RedirectsEnd == (place = "local") ~> (place = "done")
-----------------------------------------------------------------------------
(***************************************************************************)
(* What the documentation says, and the code does not keep.                *)
(***************************************************************************)

\* USER_GUIDE.md: "Every request reaches your app with X-Forwarded-Proto and
\* X-Forwarded-Host set to the real public scheme and host", and http.rs: "An
\* upstream proxy's values (nginx) win; otherwise we fill them in ourselves".
PublicHostAlwaysTold ==
  AtLocal =>
    LET host == Values(request.headers, "x-forwarded-host") \o Values(request.headers, "host")
    IN ToSet(host) \ {Unreadable} # {} => Has(local, "x-forwarded-host")
=============================================================================
