----------------------------- MODULE MCSignals -----------------------------
(* The collectors whose evidence comes from outside. From the page: what   *)
(* its behaviour collector sends (part "page") and the report of browsers  *)
(* and automation tools (part "report", see MCFingerprint). From the       *)
(* connection: header lists (part "headers", see MCHeaders), ClientHellos, *)
(* HTTP/2 frames and request shapes (the parts of MCFormats). A behaviour  *)
(* of the run is one of one part.                                          *)
EXTENDS Behavior, MCBrowserHeaders, MCBrowserReport

CONSTANTS RandomLength, MaxShift, MaxFrames, MaxLost  \* bounds
ASSUME SignalsAssumption == MaxTime \in Nat \ {0} /\ MaxEdits \in Nat

VARIABLES part, hello, wrap, follow, lost, frames, table, shifted, bytes, shape  \* see MCFormats
list == <<headers, order, genuine>>
report == <<name, secure, traits, failed, signals>>
wire == <<hello, wrap, follow, lost, frames, table, shifted, bytes, shape>>

W == INSTANCE MCFormats

Idle == document = "visible" /\ ~counted
MCInit == /\ part \in {"page", "report", "headers", "tls", "frames", "shape"}
          /\ Init /\ (part # "page" => Idle)
          /\ L!Init /\ (part # "headers" => headers.words = {"safari"} /\ headers.site = "")
          /\ F!Init /\ (part # "report" => name = "safari ios" /\ secure)
          /\ W!Start
MCNext == \/ part = "page" /\ Next /\ UNCHANGED <<part, list, report, wire, edits>>
          \/ part = "report" /\ (F!Patch \/ F!Break) /\ UNCHANGED <<part, list, vars, wire, edits>>
          \/ part = "headers" /\ L!Next /\ UNCHANGED <<part, vars, report, wire>>
          \/ W!Next /\ UNCHANGED <<list, vars, report>>
MCSpec == MCInit /\ [][MCNext]_<<part, vars, list, report, wire, edits>>
-----------------------------------------------------------------------------
\* MCHeaders, MCFormats: a genuine browser's request raises no signal at the
\* connection. With optional headers anywhere in its list its headers raise none,
\* and with GREASE and shuffled extensions its ClientHello raises none under its own
\* User-Agent, Chrome on iOS excepted (see MCFormats).
BrowsersRaiseNothing ==
  /\ part = "headers" => L!HeadersRaiseNothing
  /\ W!HelloRaisesNothing

\* MCFormats: parser.go reads back exactly the ClientHello a client sent, and
\* refuses one that is cut.
HelloReadExactly == W!HelloReadExactly

\* MCFormats: frames.go reads back exactly the frames and header names a client
\* sent, and refuses a capture that ends inside a frame.
FramesReadExactly == W!FramesReadExactly

\* MCFormats: fingerprints, and the signals raised on them, do not change with what
\* varies between the requests of one client.
FingerprintsAreStable == W!FingerprintsAreStable
=============================================================================
