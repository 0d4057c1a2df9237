--------------------------- MODULE MCHttpExchange ---------------------------
(* Instances of HttpExchange for TLC: an exchange is rich in one part, the  *)
(* request or the response, and plain in the others.                        *)
EXTENDS HttpExchange

Hd(n, v) == [name |-> n, value |-> v]
Upto(S, n) == UNION {[1 .. m -> S] : m \in 0 .. n}

\* Up to three request headers, repeated and unreadable ones among them.
RequestHeaders ==
  {Hd("host", "public"), Hd("x-forwarded-proto", "https"),
   Hd("x-forwarded-proto", Unreadable), Hd("x-forwarded-host", "edge"),
   Hd("x-forwarded-host", Unreadable), Hd("accept-encoding", "gzip"),
   Hd("content-length", "9"), Hd("cookie", "a"), Hd("cookie", "b"),
   Hd("cookie", Unreadable)}

Request(m, o, k, hs) == [method |-> m, origin |-> o, asked |-> k, headers |-> hs]

AnyHeaders == {Request("GET", None, None, hs) : hs \in Upto(RequestHeaders, 3)}

AnyOrigin ==
  {Request(m, o, k, <<Hd("host", "public")>>) :
     m \in {"GET", "OPTIONS"}, o \in {None, "shop"}, k \in {None, "x-api-key"}}

OneRequest == {Request("GET", "shop", None, <<Hd("host", "public")>>)}

Page(ps) == [text |-> TRUE, parts |-> ps]

Reply(s, l, hs, cs, b) ==
  [status |-> s, location |-> l, headers |-> hs, cookies |-> cs, body |-> b]

Html == Hd("content-type", "text/html")

PlainReply == Reply("200", None, <<Html>>, <<>>, Page(<<"text">>))

\* Up to two headers, the application's own CORS headers among them.
ResponseHeaders ==
  {Html, Hd("content-type", "application/json"), Hd("content-encoding", "gzip"),
   Hd("content-encoding", "identity"), Hd("content-length", "9"), Hd("vary", "accept"),
   Hd("access-control-allow-origin", "*"), Hd("access-control-allow-origin", "shop"),
   Hd("access-control-allow-credentials", "true")}

Pages(bodies) ==
  {Reply("200", None, hs, <<>>, [text |-> t, parts |-> ps]) :
     hs \in Upto(ResponseHeaders, 2), t \in BOOLEAN, ps \in bodies}

AnyPage == Pages(Upto({"text", "</body>", "</BODY>"}, 3))
OnePage == Pages({<<"text", "</body>">>})

CookieAttributes == {"path", "domain", "secure", "samesite=lax", "samesite=none", "empty"}

SomeCookies == {<<"pair">> \o as : as \in Upto(CookieAttributes, 3)} \cup {<<"secure", Unreadable>>}

\* Up to two cookies, the second one plain.
AnyCookies ==
  {Reply("200", None, <<Html>>, cs, Page(<<"text">>)) :
     cs \in {<<>>} \cup {<<c>> : c \in SomeCookies} \cup {<<c, <<"other", "path">>>> : c \in SomeCookies}}

AnyPageOrCookies == AnyPage \cup AnyCookies

AnyRedirect ==
  {PlainReply} \cup
  {Reply(s, l, <<>>, <<<<"pair", "path">>>>, Page(<<>>)) :
     s \in {"302", "307"}, l \in {None, "http", "https"}}

AllTreatments == [rewrite : BOOLEAN, inject : BOOLEAN]
NoTreatment == {[rewrite |-> FALSE, inject |-> FALSE]}

\* Any headers, to an application that redirects as it likes; any browser, to one
\* that replies with any headers; and one browser, with any page or cookies as well.
AnyRequest == AnyHeaders \cup AnyOrigin

AnyReply ==
  [q \in AnyRequest |->
     IF q \in OneRequest THEN AnyPageOrCookies
     ELSE IF q \in AnyOrigin THEN OnePage
     ELSE AnyRedirect]

AnyTreatment ==
  [q \in AnyRequest |-> IF q \in AnyOrigin THEN AllTreatments ELSE NoTreatment]

\* Any headers, to an application that answers plainly.
PlainReplies == [q \in AnyHeaders |-> {PlainReply}]
Untreated == [q \in AnyHeaders |-> NoTreatment]
=============================================================================
