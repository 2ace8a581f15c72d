------------------------------- MODULE Proxy -------------------------------
(* The reverse proxy: the path, query and headers with which an allowed    *)
(* request reaches the upstream. Headers are a function from names to      *)
(* values, a value a sequence of who wrote its parts (a client's TE that   *)
(* offers trailers says so); a path is a sequence of "/", "x" and "%2F",   *)
(* an escaped slash. net/http/httputil and net/url are modelled from how   *)
(* proxy.go uses them.                                                     *)
EXTENDS Sequences, Functions, SequencesExt

Unescape(p) == [i \in DOMAIN p |-> IF p[i] = "%2F" THEN "/" ELSE p[i]]

\* A parsed URL keeps the escaped form only if it differs from the default one.
ParseURL(p) == [path |-> Unescape(p), raw |-> IF Unescape(p) = p THEN <<>> ELSE p]

\* URL.EscapedPath, with which the request is sent: the escaped form is used
\* while it still stands for the path.
EscapedPath(u) == IF u.raw # <<>> /\ Unescape(u.raw) = u.path THEN u.raw ELSE u.path

JoinPath(a, b) ==
  LET aslash == a # <<>> /\ Last(a) = "/"
      bslash == b # <<>> /\ Head(b) = "/"
  IN  IF aslash /\ bslash THEN a \o Tail(b)
      ELSE IF ~aslash /\ ~bslash /\ a # <<>> THEN a \o <<"/">> \o b
      ELSE a \o b

JoinQuery(a, b) == IF a = <<>> \/ b = <<>> THEN a \o b ELSE a \o <<"&">> \o b

HopByHopHeaders == {"Connection", "Keep-Alive", "Proxy-Authenticate", "Proxy-Authorization",
                    "TE", "Trailers", "Transfer-Encoding", "Upgrade"}

\* StripHopByHop; `listed` is what the Connection headers name.
StripHopByHop(h, listed) ==
  Restrict(h, DOMAIN h \ (HopByHopHeaders \cup (IF "Connection" \in DOMAIN h THEN listed ELSE {})))

Set(h, names, by) == [n \in DOMAIN h \cup names |-> IF n \in names THEN <<by>> ELSE h[n]]
Forwarded == {"X-Forwarded-Proto", "X-Forwarded-Host"}
WithAgent(h) == IF "User-Agent" \in DOMAIN h THEN h ELSE Set(h, {"User-Agent"}, "gateway")

\* The headers: strip first, then say where the request came from. The mutant
\* does the two the other way round.
DirectHeadersLate(h, listed) == StripHopByHop(Set(WithAgent(h), Forwarded, "gateway"), listed)
DirectHeaders(h, listed) == Set(StripHopByHop(WithAgent(h), listed), Forwarded, "gateway")

\* newDirector's function, and the request line as the transport sends it. Only
\* the path is joined: the escaped form stays the client's.
Director(target, req) ==
  [path |-> EscapedPath([ParseURL(req.path) EXCEPT !.path = JoinPath(target.path, @)]),
   query |-> JoinQuery(target.query, req.query),
   headers |-> DirectHeaders(req.headers, req.listed)]

\* ReverseProxy.ServeHTTP after its Director: an upgrade the headers still ask for
\* is kept, the library's own hop-by-hop list is removed, trailers the client takes
\* are asked for again, and the client's address goes behind what X-Forwarded-For
\* says already.
LibraryHopHeaders == {"Connection", "Proxy-Connection", "Keep-Alive", "Proxy-Authenticate",
                      "Proxy-Authorization", "TE", "Trailer", "Transfer-Encoding", "Upgrade"}
TakesTrailers(h) == "TE" \in DOMAIN h /\ h["TE"] = <<"trailers">>
Again(h, req) ==
  (IF {"Connection", "Upgrade"} \subseteq DOMAIN h /\ "Upgrade" \in req.listed
   THEN {"Connection", "Upgrade"} ELSE {})
  \cup (IF TakesTrailers(req.headers) THEN {"TE"} ELSE {})
WithClient(h) ==
  LET prior == IF "X-Forwarded-For" \in DOMAIN h THEN h["X-Forwarded-For"] ELSE <<>>
  IN  [n \in DOMAIN h \cup {"X-Forwarded-For"} |->
         IF n = "X-Forwarded-For" THEN Append(prior, "gateway") ELSE h[n]]
ServeHTTP(h, req) ==
  WithAgent(WithClient(Set(Restrict(h, DOMAIN h \ LibraryHopHeaders), Again(h, req), "gateway")))

\* Forward: what reaches the upstream.
Forward(target, req) == [Director(target, req) EXCEPT !.headers = ServeHTTP(@, req)]
=============================================================================
