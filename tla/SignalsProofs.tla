--------------------------- MODULE SignalsProofs ---------------------------
(* What a client's page sends. The behaviour collector's reports and what   *)
(* its beacons are scored for, for every band, factor, number of kept       *)
(* intervals and number of events. The fingerprint's collectors and probes, *)
(* for any set of traits and of collectors that throw.                      *)
EXTENDS Behavior, MCBrowserReport, ListProofs

\* The provers get more than their usual time.
USE SMTT(60)

\* The totals are those of the time gone by, the click intervals those of the
\* clicks, and the beacon on the store was right when it was sent.
Timed ==
  /\ now \in Nat /\ changedAt \in Nat /\ hiddenMs \in Nat /\ visibleMs \in Nat
  /\ wasHidden \in Nat
  /\ document \in {"visible", "hidden"} /\ visibilityState = document
  /\ changedAt <= now
  /\ TimeIsAccounted
Clicked ==
  /\ clickTimes \in Seq(Nat \ {0}) /\ now \in Nat \ {0}
  /\ lastClickAt = IF clickTimes = <<>> THEN 0 ELSE clickTimes[Len(clickTimes)]
  /\ clickIntervals = Gaps(clickTimes)
Right(b) == /\ CheckVisibility(b) <=> b.truth.hiddenLonger
            /\ CheckClickTiming(b) <=> b.truth.clicksInBand
Sent == posted = NoBeacon \/ \E b : posted = <<b>> /\ Right(b)
IInv == Timed /\ Clicked /\ Sent

\* A concatenation has what its parts have.
LEMMA ConcatHas ==
  ASSUME NEW V, NEW s \in Seq(V), NEW t \in Seq(V), NEW e
  PROVE  Has(s \o t, e) <=> Has(s, e) \/ Has(t, e)
<1>1. /\ s \o t \in Seq(V) /\ Len(s \o t) = Len(s) + Len(t)
      /\ Len(s) \in Nat /\ Len(t) \in Nat
      /\ \A i \in 1..(Len(s) + Len(t)) : (s \o t)[i] = IF i <= Len(s) THEN s[i] ELSE t[i - Len(s)]
  OBVIOUS
<1>2. DOMAIN (s \o t) = 1..(Len(s) + Len(t)) /\ DOMAIN s = 1..Len(s) /\ DOMAIN t = 1..Len(t)
  BY <1>1
<1>3. ASSUME Has(s \o t, e) PROVE Has(s, e) \/ Has(t, e)
  <2>1. PICK i \in 1..(Len(s) + Len(t)) : (s \o t)[i] = e
    BY <1>2, <1>3 DEF Has
  <2>2. CASE i <= Len(s)
    BY <1>1, <1>2, <2>1, <2>2 DEF Has
  <2>3. CASE i > Len(s)
    <3>1. i - Len(s) \in 1..Len(t) /\ t[i - Len(s)] = e
      BY <1>1, <2>1, <2>3
    <3> QED BY <1>2, <3>1 DEF Has
  <2> QED BY <1>1, <2>2, <2>3
<1>4. ASSUME Has(s, e) PROVE Has(s \o t, e)
  <2>1. PICK i \in 1..Len(s) : s[i] = e
    BY <1>2, <1>4 DEF Has
  <2>2. i \in 1..(Len(s) + Len(t)) /\ (s \o t)[i] = e
    BY <1>1, <2>1
  <2> QED BY <1>2, <2>2 DEF Has
<1>5. ASSUME Has(t, e) PROVE Has(s \o t, e)
  <2>1. PICK i \in 1..Len(t) : t[i] = e
    BY <1>2, <1>5 DEF Has
  <2>2. /\ i + Len(s) \in 1..(Len(s) + Len(t)) /\ ~(i + Len(s) <= Len(s))
        /\ (i + Len(s)) - Len(s) = i
    BY <1>1, <2>1
  <2>3. (s \o t)[i + Len(s)] = e
    BY <1>1, <2>1, <2>2
  <2> QED BY <1>2, <2>2, <2>3 DEF Has
<1> QED BY <1>3, <1>4, <1>5

\* The signals of a beacon are those of the checks that say yes.
Part(c, e) == IF c THEN <<e>> ELSE <<>>
LEMMA PartHas ==
  ASSUME NEW V, NEW e \in V, NEW c, NEW n
  PROVE  Part(c, e) \in Seq(V) /\ (Has(Part(c, e), n) <=> c /\ n = e)
<1>1. CASE c
  <2>1. Part(c, e) = <<e>>
    BY <1>1 DEF Part
  <2>2. <<e>> \in Seq(V) /\ DOMAIN <<e>> = {1} /\ <<e>>[1] = e
    OBVIOUS
  <2> QED BY <1>1, <2>1, <2>2, Zenon DEF Has
<1>2. CASE ~c
  <2>1. Part(c, e) = <<>>
    BY <1>2 DEF Part
  <2>2. <<>> \in Seq(V) /\ DOMAIN <<>> = {}
    OBVIOUS
  <2> QED BY <1>2, <2>1, <2>2 DEF Has
<1> QED BY <1>1, <1>2

LEMMA ScoreHas ==
  ASSUME NEW b
  PROVE  /\ Has(Score(b), "behavior_hidden_dominant") <=> CheckVisibility(b)
         /\ Has(Score(b), "behavior_turnstile_clicker") <=> CheckClickTiming(b)
<1> DEFINE V == {"behavior_resource_block", "behavior_smooth_path",
                 "behavior_turnstile_clicker", "behavior_hidden_dominant"}
           p == Part(CheckResourceBlock(b), "behavior_resource_block")
           q == Part(CheckMouseJitter(b), "behavior_smooth_path")
           r == Part(CheckClickTiming(b), "behavior_turnstile_clicker")
           s == Part(CheckVisibility(b), "behavior_hidden_dominant")
<1>1. Score(b) = ((p \o q) \o r) \o s
  BY DEF Score, Part
<1>2. /\ "behavior_resource_block" \in V /\ "behavior_smooth_path" \in V
      /\ "behavior_turnstile_clicker" \in V /\ "behavior_hidden_dominant" \in V
  OBVIOUS
<1> HIDE DEF V
<1>3. p \in Seq(V) /\ q \in Seq(V) /\ r \in Seq(V) /\ s \in Seq(V)
  BY <1>2, PartHas, Zenon
<1>4. ASSUME NEW n PROVE Has(p, n) => n = "behavior_resource_block"
  BY <1>2, PartHas, Zenon
<1>5. ASSUME NEW n PROVE Has(q, n) => n = "behavior_smooth_path"
  BY <1>2, PartHas, Zenon
<1>6. ASSUME NEW n PROVE Has(r, n) <=> CheckClickTiming(b) /\ n = "behavior_turnstile_clicker"
  BY <1>2, PartHas, Zenon
<1>7. ASSUME NEW n PROVE Has(s, n) <=> CheckVisibility(b) /\ n = "behavior_hidden_dominant"
  BY <1>2, PartHas, Zenon
<1> HIDE DEF p, q, r, s
<1>8. p \o q \in Seq(V) /\ (p \o q) \o r \in Seq(V)
  BY <1>3
<1>9. ASSUME NEW n
      PROVE  Has(Score(b), n) <=> Has(p, n) \/ Has(q, n) \/ Has(r, n) \/ Has(s, n)
  <2>1. Has(p \o q, n) <=> Has(p, n) \/ Has(q, n)
    BY <1>3, ConcatHas, Zenon
  <2>2. Has((p \o q) \o r, n) <=> Has(p \o q, n) \/ Has(r, n)
    BY <1>3, <1>8, ConcatHas, Zenon
  <2>3. Has(((p \o q) \o r) \o s, n) <=> Has((p \o q) \o r, n) \/ Has(s, n)
    <3> DEFINE w == (p \o q) \o r
    <3>1. w \in Seq(V)
      BY <1>8
    <3> HIDE DEF w
    <3>2. Has(w \o s, n) <=> Has(w, n) \/ Has(s, n)
      BY <1>3, <3>1, ConcatHas, Zenon
    <3> QED BY <3>2 DEF w
  <2> QED BY <1>1, <2>1, <2>2, <2>3, Zenon
<1>10. Has(Score(b), "behavior_hidden_dominant") <=> CheckVisibility(b)
  BY <1>4, <1>5, <1>6, <1>7, <1>9
<1>11. Has(Score(b), "behavior_turnstile_clicker") <=> CheckClickTiming(b)
  BY <1>4, <1>5, <1>6, <1>7, <1>9
<1> QED BY <1>10, <1>11

\* One more click: one more gap.
LEMMA GapsGrow ==
  ASSUME NEW c \in Seq(Nat \ {0}), NEW t \in Nat \ {0}
  PROVE  Gaps(Append(c, t)) = IF c = <<>> THEN Gaps(c) ELSE Append(Gaps(c), t - c[Len(c)])
<1> DEFINE a == Append(c, t)
<1>1. /\ Len(a) = Len(c) + 1 /\ Len(c) \in Nat /\ a[Len(c) + 1] = t
      /\ \A i \in 1..Len(c) : a[i] = c[i] /\ c[i] \in Nat
      /\ (c = <<>> <=> Len(c) = 0)
  OBVIOUS
<1> HIDE DEF a
<1>2. Gaps(a) = [i \in 1..Len(c) |-> a[i + 1] - a[i]]
  BY <1>1 DEF Gaps
<1>3. CASE c = <<>>
  <2>1. Len(c) = 0 /\ 1..Len(c) = {} /\ 1..(Len(c) - 1) = {}
    BY <1>1, <1>3
  <2>2. Gaps(c) = [i \in {} |-> c[i + 1] - c[i]] /\ Gaps(a) = [i \in {} |-> a[i + 1] - a[i]]
    BY <1>2, <2>1 DEF Gaps
  <2>3. Gaps(c) = Gaps(a)
    BY <2>2
  <2> QED BY <1>3, <2>3 DEF a
<1>4. CASE c # <<>>
  <2> DEFINE m == Len(c) - 1
             g == Gaps(c)
             d == t - c[Len(c)]
  <2>1. m \in Nat /\ m + 1 = Len(c)
    BY <1>1, <1>4
  <2>2. g = [i \in 1..m |-> c[i + 1] - c[i]]
    BY DEF Gaps
  <2>3. \A i \in 1..m : i \in 1..Len(c) /\ i + 1 \in 1..Len(c)
    BY <1>1, <2>1
  <2>4. g \in [1..m -> Int]
    BY <1>1, <2>2, <2>3
  <2>6. d \in Int
    BY <1>1, <2>1
  <2> HIDE DEF g, d, m
  <2>5. g \in Seq(Int) /\ Len(g) = m
    BY <2>1, <2>4
  <2>7. /\ DOMAIN Append(g, d) = 1..(m + 1) /\ Append(g, d) = [i \in 1..(m + 1) |-> Append(g, d)[i]]
        /\ Append(g, d)[m + 1] = d /\ \A i \in 1..m : Append(g, d)[i] = g[i]
    <3>1. Append(g, d) \in Seq(Int) /\ Len(Append(g, d)) = m + 1
      BY <2>1, <2>5, <2>6
    <3>2. DOMAIN Append(g, d) = 1..(m + 1) /\ Append(g, d) \in [1..(m + 1) -> Int]
      <4> DEFINE e == Append(g, d)
      <4> HIDE DEF e
      <4>1. e \in Seq(Int) /\ Len(e) = m + 1
        BY <3>1 DEF e
      <4>2. DOMAIN e = 1..(m + 1) /\ e \in [1..(m + 1) -> Int]
        BY <4>1
      <4> QED BY <4>2 DEF e
    <3>3. Append(g, d)[m + 1] = d
      BY <2>5, <2>6
    <3>4. \A i \in 1..m : Append(g, d)[i] = g[i]
      BY <2>5, <2>6
    <3> QED BY <3>2, <3>3, <3>4, Zenon
  <2>8. ASSUME NEW i \in 1..(m + 1) PROVE a[i + 1] - a[i] = Append(g, d)[i]
    <3>1. CASE i = m + 1
      BY <1>1, <2>1, <2>7, <3>1 DEF d
    <3>2. CASE i # m + 1
      <4>1. i \in 1..m
        BY <2>1, <3>2
      <4>2. a[i] = c[i] /\ a[i + 1] = c[i + 1]
        BY <1>1, <2>3, <4>1
      <4> QED BY <2>2, <2>7, <4>1, <4>2, Zenon
    <3> QED BY <3>1, <3>2, Zenon
  <2>9. Gaps(a) = [i \in 1..(m + 1) |-> a[i + 1] - a[i]]
    BY <1>2, <2>1
  <2>10. Gaps(a) = Append(g, d)
    BY <2>7, <2>8, <2>9, Zenon
  <2> QED BY <1>4, <2>10 DEF g, d, a
<1> QED BY <1>3, <1>4

LEMMA TimedInductive == Timed /\ [Next]_vars => Timed'
<1> SUFFICES ASSUME Timed, [Next]_vars PROVE Timed'
  OBVIOUS
<1> USE DEF Timed, TimeIsAccounted, CurrentHidden, CurrentVisible, Since
<1>1. ASSUME UNCHANGED <<now, timers, wasHidden>> PROVE Timed'
  BY <1>1 DEF timers
<1>2. CASE Click \/ OnMouseMove \/ Send \/ Fetch \/ CountResources
  BY <1>1, <1>2, Zenon DEF Click, OnMouseMove, Send, Fetch, CountResources
<1>3. CASE OnVisibilityChange
  BY <1>3 DEF OnVisibilityChange, UpdateTimers
<1>4. CASE OnPageHide
  BY <1>4 DEF OnPageHide, UpdateTimers
<1>5. CASE Tick
  BY <1>5 DEF Tick, timers
<1>6. CASE UNCHANGED vars
  BY <1>1, <1>6 DEF vars
<1> QED BY <1>2, <1>3, <1>4, <1>5, <1>6 DEF Next

LEMMA ClickedInductive == Clicked /\ [Next]_vars => Clicked'
<1> SUFFICES ASSUME Clicked, [Next]_vars PROVE Clicked'
  OBVIOUS
<1>1. ASSUME UNCHANGED <<now, lastClickAt, clickIntervals, clickTimes>> PROVE Clicked'
  BY <1>1 DEF Clicked
<1>2. CASE OnMouseMove \/ OnVisibilityChange \/ Send \/ OnPageHide \/ Fetch \/ CountResources
  BY <1>1, <1>2, Zenon
     DEF OnMouseMove, OnVisibilityChange, Send, OnPageHide, Fetch, CountResources, mouse
<1>3. CASE Click
  <2> DEFINE c == clickTimes
  <2>1. /\ c \in Seq(Nat \ {0}) /\ now \in Nat \ {0} /\ now' = now
        /\ lastClickAt = IF c = <<>> THEN 0 ELSE c[Len(c)]
        /\ clickIntervals = Gaps(c)
        /\ lastClickAt' = now /\ clickTimes' = Append(c, now)
        /\ clickIntervals' = IF lastClickAt > 0 THEN Append(clickIntervals, now - lastClickAt)
                             ELSE clickIntervals
    BY <1>3 DEF Clicked, Click, OnClick, Since
  <2>2. c # <<>> => c[Len(c)] \in Nat \ {0}
    BY <2>1
  <2>3. lastClickAt > 0 <=> c # <<>>
    BY <2>1, <2>2
  <2>4. clickIntervals' = Gaps(Append(c, now))
    BY <2>1, <2>3, GapsGrow, Zenon
  <2>5. /\ Append(c, now) \in Seq(Nat \ {0}) /\ Append(c, now) # <<>>
        /\ Append(c, now)[Len(Append(c, now))] = now
    BY <2>1
  <2> QED BY <2>1, <2>4, <2>5 DEF Clicked
<1>4. CASE Tick
  BY <1>4 DEF Tick, mouse, Clicked
<1>5. CASE UNCHANGED vars
  BY <1>1, <1>5 DEF vars, mouse
<1> QED BY <1>2, <1>3, <1>4, <1>5 DEF Next

\* A snapshot of the totals is right.
LEMMA SnapshotRight ==
  ASSUME Timed, Clicked
  PROVE  Right(Snapshot(CurrentHidden, CurrentVisible))
<1> DEFINE b == Snapshot(CurrentHidden, CurrentVisible)
<1>1. /\ b.hidden = wasHidden /\ b.visible = Since(1) - wasHidden
      /\ b.intervals = LastOf(Gaps(clickTimes), KeptIntervals)
      /\ b.truth.hiddenLonger = (wasHidden > 0 /\ wasHidden > HiddenFactor * (Since(1) - wasHidden))
      /\ b.truth.clicksInBand = AllInBand(LastOf(Gaps(clickTimes), KeptIntervals))
  BY DEF Snapshot, Truth, Timed, Clicked, TimeIsAccounted
<1> HIDE DEF b
<1>2. wasHidden \in Nat /\ Since(1) - wasHidden \in Int /\ HiddenFactor \in Int
  BY BehaviorAssumption DEF Timed, Since
<1>3. (Since(1) - wasHidden) * HiddenFactor = HiddenFactor * (Since(1) - wasHidden)
  BY <1>2
<1>4. CheckVisibility(b) <=> b.truth.hiddenLonger
  <2>1. CheckVisibility(b) <=> wasHidden # 0 /\ wasHidden > (Since(1) - wasHidden) * HiddenFactor
    BY <1>1, Zenon DEF CheckVisibility
  <2>2. wasHidden # 0 <=> wasHidden > 0
    BY <1>2
  <2> QED BY <1>1, <1>3, <2>1, <2>2, Zenon
<1>5. CheckClickTiming(b) <=> b.truth.clicksInBand
  BY <1>1 DEF CheckClickTiming
<1> QED BY <1>4, <1>5 DEF Right, b

LEMMA SentInductive == Timed /\ Clicked /\ Sent /\ [Next]_vars => Sent'
<1> SUFFICES ASSUME Timed, Clicked, Sent, [Next]_vars PROVE Sent'
  OBVIOUS
<1>1. CASE UNCHANGED posted
  BY <1>1 DEF Sent
<1>2. CASE posted' = <<Snapshot(CurrentHidden, CurrentVisible)>>
  BY <1>2, SnapshotRight DEF Sent
<1>3. CASE OnPageHide
  <2>1. posted' = <<Snapshot(CurrentHidden, CurrentVisible)>>
    BY <1>3 DEF OnPageHide, UpdateTimers, CurrentHidden, CurrentVisible
  <2> QED BY <1>2, <2>1
<1>4. CASE Send
  BY <1>2, <1>4 DEF Send
<1>5. CASE Click \/ OnMouseMove \/ OnVisibilityChange \/ Fetch \/ CountResources \/ Tick
  BY <1>1, <1>5, Zenon DEF Click, OnMouseMove, OnVisibilityChange, Fetch, CountResources, Tick
<1>6. CASE UNCHANGED vars
  BY <1>1, <1>6 DEF vars
<1> QED BY <1>3, <1>4, <1>5, <1>6 DEF Next

LEMMA CollectorSound == Spec => []IInv
<1>1. Init => IInv
  <2> SUFFICES ASSUME Init PROVE IInv
    OBVIOUS
  <2>1. Timed
    BY DEF Init, Timed, TimeIsAccounted, CurrentHidden, CurrentVisible, Since
  <2>2. Gaps(<<>>) = <<>>
    <3>1. Gaps(<<>>) = [i \in {} |-> <<>>[i + 1] - <<>>[i]]
      BY DEF Gaps
    <3> QED BY <3>1
  <2>3. Clicked
    BY <2>2 DEF Init, Clicked
  <2> QED BY <2>1, <2>3 DEF Init, IInv, Sent
<1>2. IInv /\ [Next]_vars => IInv'
  BY TimedInductive, ClickedInductive, SentInductive DEF IInv
<1> QED BY <1>1, <1>2, PTL DEF Spec

\* Every moment since the page was opened is in exactly one of the two totals,
\* and in the right one, however visibilitychange and pagehide follow each other
\* (updateVisibilityTimers, snapshot).
THEOREM TimeStaysAccounted == Spec => []TimeIsAccounted
<1>1. IInv => TimeIsAccounted
  BY DEF IInv, Timed
<1> QED BY <1>1, CollectorSound, PTL

\* A beacon is scored for hidden time and for clicks in the band exactly when they
\* happened, for every band, factor and number of kept intervals (onClick, snapshot,
\* behavior.Score).
THEOREM BeaconsAreTrue == Spec => []BeaconIsTrue
<1>1. IInv => BeaconIsTrue
  <2> SUFFICES ASSUME Sent, posted # NoBeacon PROVE BeaconIsTrue
    BY DEF IInv, BeaconIsTrue
  <2>1. PICK b : posted = <<b>> /\ Right(b)
    BY DEF Sent
  <2>2. posted[1] = b
    BY <2>1
  <2> QED BY <2>1, <2>2, ScoreHas DEF BeaconIsTrue, Right
<1> QED BY <1>1, CollectorSound, PTL
-----------------------------------------------------------------------------
(***************************************************************************)
(* Fingerprints. What raises each signal of a browser's report: the page's *)
(* collectors and the server's probes, composed. n is the browser, T its   *)
(* traits, s whether its context is secure, P the collectors that throw.   *)
(***************************************************************************)
Chromes == {"chrome linux", "chrome mac"}
Safaris == {"safari mac", "safari ios"}
Cause(n, T, s, P) ==
  LET nav == "navigator" \notin P
  IN  [platform   |-> nav /\ ("platform" \in T \/ n = "safari ios"),
       cores      |-> nav /\ "cores" \in T,
       webdriver  |-> nav /\ "webdriver" \in T,
       plugins    |-> nav /\ n \in Chromes /\ "plugins" \in T,
       pluginsFF  |-> nav /\ n = "firefox linux" /\ "plugins" \in T,
       vendor     |-> nav /\ n \in Chromes /\ "vendor" \in T,
       vendorFF   |-> nav /\ n = "firefox linux" /\ "vendor" \in T,
       oscpu      |-> nav /\ n # "firefox linux" /\ "oscpu" \in T,
       gpu        |-> "webgl" \notin P /\ "gpu" \in T,
       unmasked   |-> "webgl" \in P,
       extensions |-> "webgl" \in P \/ "extensions" \in T,
       canvas     |-> "canvas" \notin P /\ ("canvas" \in T \/ "canvas3" \in T),
       audio      |-> "audio" \notin P /\ "audio" \in T,
       codecs     |-> nav /\ n \in Chromes \cup Safaris,
       fonts      |-> "fonts" \notin P /\ ("fonts" \in T \/ ("platform" \in T
                                             /\ n \in {"chrome linux", "firefox linux"})),
       height     |-> "window" \notin P /\ "height" \in T,
       connect    |-> nav /\ "chrome" \notin P /\ n \in Chromes /\ "connect" \in T,
       chrome     |-> nav /\ "chrome" \notin P /\ n = "firefox linux" /\ "chrome" \in T,
       midi       |-> "permissions" \notin P /\ "midi" \in T,
       ips        |-> "webrtc" \in P \/ "ips" \in T,
       iframe     |-> "dom" \notin P,
       shadow     |-> "dom" \notin P /\ "shadow" \in T,
       console    |-> "runtime" \in P \/ "console" \in T,
       proxy      |-> "runtime" \in P \/ "proxy" \in T,
       stack      |-> "runtime" \notin P /\ "stack" \in T,
       voices     |-> nav /\ n # "edge windows" /\ ("speech" \in P \/ "voices" \in T),
       worker     |-> "serviceWorker" \notin P /\ s,
       hairline   |-> "hairline" \notin P /\ "hairline" \in T]

\* The signals that causes c raise, in the order of the probes.
NavigatorFirst(c) == F!Fire(c.platform, "nav_platform_ua_mismatch", 50)
                     \o F!Fire(c.cores, "nav_hardware_concurrency_trap", 30)
                     \o F!Fire(c.webdriver, "nav_webdriver_set", 60)
                     \o F!Fire(c.plugins, "nav_plugins_anomaly", 20)
NavigatorOf(c) == NavigatorFirst(c) \o F!Fire(c.pluginsFF, "nav_plugins_anomaly", 20)
                  \o F!Fire(c.vendor, "nav_vendor_ua_mismatch", 25)
                  \o F!Fire(c.vendorFF, "nav_vendor_ua_mismatch", 25)
                  \o F!Fire(c.oscpu, "nav_oscpu_firefox_only", 15)
WebGLOf(c) == F!Fire(c.gpu, "webgl_vendor_renderer_impossible", 40)
              \o F!Fire(c.unmasked, "webgl_unmasked_missing", 20)
              \o F!Fire(c.extensions, "webgl_extensions_anomaly", 15)
ChromeOf(c) == F!Fire(c.connect, "chrome_runtime_connect_failure", 40)
               \o F!Fire(c.chrome, "chrome_present_for_firefox", 60)
DOMOf(c) == F!Fire(c.iframe, "dom_iframe_contentwindow_anomaly", 40)
            \o F!Fire(c.shadow, "dom_closed_shadow_root_accessible", 50)
RuntimeOf(c) == F!Fire(c.console, "runtime_console_debug_disabled", 60)
                \o F!Fire(c.proxy, "runtime_to_string_proxy", 35)
                \o F!Fire(c.stack, "runtime_error_stack_pw_signature", 70)
First(c) == NavigatorOf(c) \o WebGLOf(c) \o F!Fire(c.canvas, "canvas_seeded_noise", 50)
            \o F!Fire(c.audio, "audio_seeded_noise", 40)
Second(c) == First(c) \o F!Fire(c.codecs, "codec_rare_missing", 20)
             \o F!Fire(c.fonts, "font_os_bundled_missing", 25)
             \o F!Fire(c.height, "window_outer_height_85_trap", 50) \o ChromeOf(c)
Third(c) == Second(c) \o F!Fire(c.midi, "permissions_midi_inconsistent", 35)
            \o F!Fire(c.ips, "webrtc_no_local_ips", 15) \o DOMOf(c) \o RuntimeOf(c)
SignalsOf(c) == Third(c) \o F!Fire(c.voices, "speech_voices_empty", 15)
                \o F!Fire(c.worker, "sw_register_noop", 45)
                \o F!Fire(c.hairline, "hairline_non_modernizr_anomaly", 20)

Sums(f, s) == /\ f \in [0..Len(s) -> Nat] /\ f[0] = 0
              /\ \A i \in 1..Len(s) : f[i] = f[i - 1] + s[i].score

LEMMA TotalSums ==
  ASSUME NEW V, \A v \in V : v.score \in Nat, NEW s \in Seq(V)
  PROVE  \E f : Sums(f, s) /\ F!Total(s) = f[Len(s)]
<1> DEFINE n == Len(s)
           Steps(f) == f = [i \in 0..Len(s) |-> IF i = 0 THEN 0 ELSE f[i - 1] + s[i].score]
           g == CHOOSE f : f = [i \in 0..Len(s) |-> IF i = 0 THEN 0 ELSE f[i - 1] + s[i].score]
           step == [i \in 1..n |-> [a \in Nat |-> a + s[i].score]]
<1>0. n \in Nat /\ \A i \in 1..n : s[i].score \in Nat
  OBVIOUS
<1>1. step \in [1..n -> [Nat -> Nat]]
  BY <1>0
<1>2. PICK f : Folds(f, n, Nat, 0, step)
  <2> HIDE DEF step, n
  <2>1. 0 \in Nat
    OBVIOUS
  <2> QED BY <1>0, <1>1, <2>1, FoldExists, Zenon
<1>3. /\ f \in [0..n -> Nat] /\ f[0] = 0
      /\ \A i \in 1..n : f[i] = f[i - 1] + s[i].score
  <2>1. f \in [0..n -> Nat] /\ f[0] = 0 /\ \A i \in 1..n : f[i] = step[i][f[i - 1]]
    BY <1>2, Zenon DEF Folds
  <2>2. ASSUME NEW i \in 1..n PROVE f[i] = f[i - 1] + s[i].score
    <3>1. i - 1 \in 0..n
      BY <1>0
    <3>2. f[i - 1] \in Nat
      BY <2>1, <3>1, Zenon
    <3>3. step[i][f[i - 1]] = f[i - 1] + s[i].score
      BY <3>2, Zenon
    <3> QED BY <2>1, <3>3, Zenon
  <2> QED BY <2>1, <2>2, Zenon
<1>4. Steps(f)
  <2>1. ASSUME NEW i \in 0..n PROVE f[i] = IF i = 0 THEN 0 ELSE f[i - 1] + s[i].score
    <3>1. i = 0 \/ i \in 1..n
      BY <1>0
    <3> QED BY <1>3, <3>1, Zenon
  <2>2. f = [i \in 0..n |-> f[i]]
    BY <1>3, Zenon
  <2> QED BY <2>1, <2>2, Zenon
<1>5. Steps(g)
  <2>1. g = CHOOSE h : Steps(h)
    BY Zenon
  <2> HIDE DEF Steps, g
  <2> QED BY <1>4, <2>1, Zenon
<1>6. F!Total(s) = g[n]
  BY Zenon DEF F!Total
<1> HIDE DEF g
<1>7. \A i \in 0..n : g[i] = f[i]
  <2> DEFINE D == {i \in 0..n : g[i] # f[i]}
  <2> SUFFICES ASSUME D # {} PROVE FALSE
    OBVIOUS
  <2>1. 0 \in 0..n
    BY <1>0
  <2>2. \A i \in 0..n : g[i] = IF i = 0 THEN 0 ELSE g[i - 1] + s[i].score
    BY <1>5, Zenon
  <2>3. D \in SUBSET (0..n) /\ 0 \notin D
    BY <1>3, <2>1, <2>2, Zenon
  <2>4. PICK k \in D : k \in 1..n /\ k # 0 /\ k - 1 \in 0..n /\ k - 1 \notin D
    BY <1>0, <2>3, Descent, Zenon
  <2>5. g[k - 1] = f[k - 1] /\ k \in 0..n /\ g[k] # f[k]
    BY <2>4, Zenon
  <2> QED BY <1>3, <2>2, <2>4, <2>5, Zenon
<1> QED
  <2>1. n \in 0..n
    BY <1>0
  <2>2. Sums(f, s)
    BY <1>3, Zenon DEF Sums
  <2> QED BY <1>6, <1>7, <2>1, <2>2, Zenon

\* HandleVerify's sum over the signals of two probes is the sum of theirs.
LEMMA TotalConcat ==
  ASSUME NEW V, \A v \in V : v.score \in Nat, NEW s \in Seq(V), NEW t \in Seq(V)
  PROVE  /\ s \o t \in Seq(V) /\ F!Total(s) \in Nat /\ F!Total(t) \in Nat
         /\ F!Total(s \o t) = F!Total(s) + F!Total(t)
<1> DEFINE u == s \o t
           m == Len(s)
           n == Len(t)
<1>1. /\ u \in Seq(V) /\ Len(u) = m + n /\ m \in Nat /\ n \in Nat
      /\ \A i \in 1..m : u[i] = s[i]
      /\ \A i \in 1..n : u[m + i] = t[i]
      /\ \A i \in 1..m : s[i].score \in Nat
      /\ \A i \in 1..n : t[i].score \in Nat
  OBVIOUS
<1>2. PICK f : Sums(f, s) /\ F!Total(s) = f[m]
  BY TotalSums, Zenon
<1>3. PICK g : Sums(g, t) /\ F!Total(t) = g[n]
  BY TotalSums, Zenon
<1>4. PICK h : Sums(h, u) /\ F!Total(u) = h[Len(u)]
  <2> HIDE DEF u
  <2> QED BY <1>1, TotalSums, Zenon
<1>5. /\ f \in [0..m -> Nat] /\ f[0] = 0 /\ \A i \in 1..m : f[i] = f[i - 1] + s[i].score
      /\ g \in [0..n -> Nat] /\ g[0] = 0 /\ \A i \in 1..n : g[i] = g[i - 1] + t[i].score
  BY <1>2, <1>3, Zenon DEF Sums
<1>6. h \in [0..(m + n) -> Nat] /\ h[0] = 0 /\ \A i \in 1..(m + n) : h[i] = h[i - 1] + u[i].score
  BY <1>1, <1>4, Zenon DEF Sums
<1>0. m \in Nat /\ n \in Nat
  BY <1>1, Zenon
<1> HIDE DEF m, n, u
<1>7. \A i \in 0..m : h[i] = f[i]
  <2> DEFINE D == {i \in 0..m : h[i] # f[i]}
  <2> SUFFICES ASSUME D # {} PROVE FALSE
    OBVIOUS
  <2>1. D \in SUBSET (0..m) /\ 0 \notin D
    BY <1>5, <1>6, Zenon
  <2>2. PICK k \in D : k \in 1..m /\ k - 1 \in 0..m /\ k - 1 \notin D
    BY <1>0, <2>1, Descent, Zenon
  <2>4. k \in 1..(m + n)
    BY <1>0, <2>2
  <2>5. k \in 1..m /\ k \in 1..(m + n) /\ h[k] # f[k]
    BY <2>2, <2>4, Zenon
  <2>6. h[k - 1] = f[k - 1]
    BY <2>2, Zenon
  <2>7. h[k] = h[k - 1] + u[k].score /\ f[k] = f[k - 1] + s[k].score /\ u[k] = s[k]
    <3>1. h[k] = h[k - 1] + u[k].score
      BY <1>6, <2>5, Zenon
    <3>2. f[k] = f[k - 1] + s[k].score
      BY <1>5, <2>5, Zenon
    <3>3. u[k] = s[k]
      BY <1>1, <2>5, Zenon
    <3> QED BY <3>1, <3>2, <3>3, Zenon
  <2> QED BY <2>5, <2>6, <2>7, Zenon
<1>8. \A i \in 0..n : h[m + i] = f[m] + g[i]
  <2> DEFINE D == {i \in 0..n : h[m + i] # f[m] + g[i]}
  <2> SUFFICES ASSUME D # {} PROVE FALSE
    OBVIOUS
  <2>1. m + 0 = m /\ m \in 0..m
    BY <1>0
  <2>2. f[m] \in Nat
    BY <1>5, <2>1, Zenon
  <2>3. f[m] + 0 = f[m]
    BY <2>2
  <2>4. D \in SUBSET (0..n) /\ 0 \notin D
    BY <1>5, <1>7, <2>1, <2>3, Zenon
  <2> PICK k \in D : k \in 1..n /\ k - 1 \in 0..n /\ k - 1 \notin D
    BY <1>0, <2>4, Descent, Zenon
  <2>5. k \in 1..n /\ m + k \in 1..(m + n) /\ (m + k) - 1 = m + (k - 1)
    BY <1>0
  <2>6. h[m + (k - 1)] = f[m] + g[k - 1] /\ k - 1 \in 0..n
    BY Zenon
  <2>7. h[m + k] = (f[m] + g[k - 1]) + t[k].score /\ g[k] = g[k - 1] + t[k].score
    <3>1. h[m + k] = h[(m + k) - 1] + u[m + k].score
      BY <1>6, <2>5, Zenon
    <3>2. g[k] = g[k - 1] + t[k].score
      BY <1>5, <2>5, Zenon
    <3>3. u[m + k] = t[k]
      BY <1>1, <2>5, Zenon
    <3>4. h[(m + k) - 1] = f[m] + g[k - 1]
      BY <2>5, <2>6, Zenon
    <3> QED BY <3>1, <3>2, <3>3, <3>4, Zenon
  <2>8. g[k - 1] \in Nat /\ t[k].score \in Nat
    BY <1>1, <1>5, <2>5, <2>6, Zenon
  <2> DEFINE a == g[k - 1]
             b == t[k].score
             c == f[m]
  <2>9. a \in Nat /\ b \in Nat /\ c \in Nat
    BY <2>2, <2>8, Zenon
  <2> HIDE DEF a, b, c
  <2>10. (c + a) + b = c + (a + b)
    BY <2>9
  <2>11. h[m + k] # f[m] + g[k]
    BY Zenon
  <2> QED BY <2>7, <2>10, <2>11, Zenon DEF a, b, c
<1>9. m \in 0..m /\ n \in 0..n
  BY <1>0
<1>10. f[m] \in Nat /\ g[n] \in Nat
  BY <1>5, <1>9, Zenon
<1> QED BY <1>1, <1>2, <1>3, <1>4, <1>8, <1>9, <1>10, Zenon DEF u

\* Signals of a list that scores no more than another one.
SignalNames ==
  {"nav_platform_ua_mismatch", "nav_hardware_concurrency_trap", "nav_webdriver_set",
   "nav_plugins_anomaly", "nav_vendor_ua_mismatch", "nav_oscpu_firefox_only",
   "webgl_vendor_renderer_impossible", "webgl_unmasked_missing", "webgl_extensions_anomaly",
   "canvas_seeded_noise", "audio_seeded_noise", "codec_rare_missing", "font_os_bundled_missing",
   "window_outer_height_85_trap", "chrome_runtime_connect_failure", "chrome_present_for_firefox",
   "permissions_midi_inconsistent", "webrtc_no_local_ips", "dom_iframe_contentwindow_anomaly",
   "dom_closed_shadow_root_accessible", "runtime_console_debug_disabled",
   "runtime_to_string_proxy", "runtime_error_stack_pw_signature", "speech_voices_empty",
   "sw_register_noop", "hairline_non_modernizr_anomaly"}
Sig == [name : SignalNames, score : Nat]
Below(s, t) == s \in Seq(Sig) /\ t \in Seq(Sig) /\ F!Total(s) <= F!Total(t)

LEMMA SigScores == \A v \in Sig : v.score \in Nat
BY DEF Sig

LEMMA BelowConcat ==
  ASSUME NEW a, NEW b, NEW s, NEW t, Below(a, b), Below(s, t)
  PROVE  Below(a \o s, b \o t)
<1> DEFINE w == F!Total(a)
           x == F!Total(b)
           y == F!Total(s)
           z == F!Total(t)
<1>1. a \in Seq(Sig) /\ b \in Seq(Sig) /\ s \in Seq(Sig) /\ t \in Seq(Sig) /\ w <= x /\ y <= z
  BY Zenon DEF Below
<1>2. /\ a \o s \in Seq(Sig) /\ w \in Nat /\ y \in Nat /\ F!Total(a \o s) = w + y
      /\ b \o t \in Seq(Sig) /\ x \in Nat /\ z \in Nat /\ F!Total(b \o t) = x + z
  BY <1>1, SigScores, TotalConcat, Zenon
<1> HIDE DEF w, x, y, z
<1>3. w + y <= x + z
  BY <1>1, <1>2
<1> QED BY <1>2, <1>3, Zenon DEF Below

LEMMA FireTotals ==
  ASSUME NEW c, NEW n \in SignalNames, NEW k \in Nat
  PROVE  /\ F!Fire(c, n, k) \in Seq(Sig) /\ F!Total(F!Fire(c, n, k)) = IF c THEN k ELSE 0
<1>1. CASE ~c
  <2>1. F!Fire(c, n, k) = <<>>
    BY <1>1, Zenon DEF F!Fire
  <2>2. <<>> \in Seq(Sig) /\ Len(<<>>) = 0
    OBVIOUS
  <2>3. PICK f : Sums(f, <<>>) /\ F!Total(<<>>) = f[Len(<<>>)]
    BY <2>2, SigScores, TotalSums, Zenon
  <2>4. F!Total(<<>>) = 0
    BY <2>2, <2>3, Zenon DEF Sums
  <2> QED BY <1>1, <2>1, <2>2, <2>4, Zenon
<1>2. CASE c
  <2> DEFINE e == [name |-> n, score |-> k]
  <2>1. F!Fire(c, n, k) = <<e>>
    BY <1>2, Zenon DEF F!Fire
  <2>2. e \in Sig /\ e.score = k
    BY Zenon DEF Sig
  <2> HIDE DEF e
  <2>3. <<e>> \in Seq(Sig) /\ Len(<<e>>) = 1 /\ <<e>>[1] = e
    BY <2>2
  <2>4. PICK f : Sums(f, <<e>>) /\ F!Total(<<e>>) = f[Len(<<e>>)]
    BY <2>3, SigScores, TotalSums, Zenon
  <2>5. 1 \in 1..1 /\ 1 - 1 = 0 /\ 0 + k = k
    OBVIOUS
  <2>6. F!Total(<<e>>) = f[1] /\ f[0] = 0 /\ f[1] = f[1 - 1] + <<e>>[1].score
    BY <2>3, <2>4, <2>5, Zenon DEF Sums
  <2>7. F!Total(<<e>>) = k
    BY <2>2, <2>3, <2>5, <2>6, Zenon
  <2> QED BY <1>2, <2>1, <2>3, <2>7, Zenon
<1> QED BY <1>1, <1>2, Zenon

LEMMA FireBelow ==
  ASSUME NEW c, NEW d, c => d, NEW n \in SignalNames, NEW k \in Nat
  PROVE  Below(F!Fire(c, n, k), F!Fire(d, n, k))
<1>1. /\ F!Fire(c, n, k) \in Seq(Sig) /\ F!Total(F!Fire(c, n, k)) = IF c THEN k ELSE 0
      /\ F!Fire(d, n, k) \in Seq(Sig) /\ F!Total(F!Fire(d, n, k)) = IF d THEN k ELSE 0
  BY FireTotals, Zenon
<1>2. k <= k /\ 0 <= k /\ 0 <= 0
  OBVIOUS
<1> QED BY <1>1, <1>2, Zenon DEF Below

\* The causes, and the signal each one raises.
Keys ==
  {"platform", "cores", "webdriver", "plugins", "pluginsFF", "vendor", "vendorFF", "oscpu",
   "gpu", "unmasked", "extensions", "canvas", "audio", "codecs", "fonts", "height", "connect",
   "chrome", "midi", "ips", "iframe", "shadow", "console", "proxy", "stack", "voices", "worker",
   "hairline"}
SignalOf ==
  [platform |-> "nav_platform_ua_mismatch", cores |-> "nav_hardware_concurrency_trap",
   webdriver |-> "nav_webdriver_set", plugins |-> "nav_plugins_anomaly",
   pluginsFF |-> "nav_plugins_anomaly", vendor |-> "nav_vendor_ua_mismatch",
   vendorFF |-> "nav_vendor_ua_mismatch", oscpu |-> "nav_oscpu_firefox_only",
   gpu |-> "webgl_vendor_renderer_impossible", unmasked |-> "webgl_unmasked_missing",
   extensions |-> "webgl_extensions_anomaly", canvas |-> "canvas_seeded_noise",
   audio |-> "audio_seeded_noise", codecs |-> "codec_rare_missing",
   fonts |-> "font_os_bundled_missing", height |-> "window_outer_height_85_trap",
   connect |-> "chrome_runtime_connect_failure", chrome |-> "chrome_present_for_firefox",
   midi |-> "permissions_midi_inconsistent", ips |-> "webrtc_no_local_ips",
   iframe |-> "dom_iframe_contentwindow_anomaly",
   shadow |-> "dom_closed_shadow_root_accessible", console |-> "runtime_console_debug_disabled",
   proxy |-> "runtime_to_string_proxy", stack |-> "runtime_error_stack_pw_signature",
   voices |-> "speech_voices_empty", worker |-> "sw_register_noop",
   hairline |-> "hairline_non_modernizr_anomaly"]
Names(s) == {s[i].name : i \in DOMAIN s}
Says(s, c, K) == /\ s \in Seq(Sig)
                 /\ \A e : e \in Names(s) <=> \E k \in K : c[k] /\ e = SignalOf[k]

Joins(u, a, b) ==
  /\ \A i \in DOMAIN u : (i \in DOMAIN a /\ u[i] = a[i]) \/ \E j \in DOMAIN b : u[i] = b[j]
  /\ \A i \in DOMAIN a : i \in DOMAIN u /\ u[i] = a[i]
  /\ \A j \in DOMAIN b : \E i \in DOMAIN u : u[i] = b[j]
LEMMA ConcatJoins ==
  ASSUME NEW V, NEW a \in Seq(V), NEW b \in Seq(V)
  PROVE  a \o b \in Seq(V) /\ Joins(a \o b, a, b)
<1> DEFINE u == a \o b
<1>1. u \in Seq(V)
  OBVIOUS
<1>2. ASSUME NEW i \in DOMAIN u
      PROVE  (i \in DOMAIN a /\ u[i] = a[i]) \/ \E j \in DOMAIN b : u[i] = b[j]
  <2>1. CASE i <= Len(a)
    BY <2>1
  <2>2. CASE ~(i <= Len(a))
    <3>1. i - Len(a) \in DOMAIN b /\ u[i] = b[i - Len(a)]
      BY <2>2
    <3> QED BY <3>1, Zenon
  <2> QED BY <2>1, <2>2, Zenon
<1>3. ASSUME NEW i \in DOMAIN a PROVE i \in DOMAIN u /\ u[i] = a[i]
  OBVIOUS
<1>4. ASSUME NEW j \in DOMAIN b PROVE \E i \in DOMAIN u : u[i] = b[j]
  <2>1. j + Len(a) \in DOMAIN u /\ u[j + Len(a)] = b[j]
    OBVIOUS
  <2> QED BY <2>1, Zenon
<1> HIDE DEF u
<1> QED BY <1>1, <1>2, <1>3, <1>4, Zenon DEF Joins, u

LEMMA SaysConcat ==
  ASSUME NEW c, NEW J, NEW K, NEW s, NEW t, Says(s, c, J), Says(t, c, K)
  PROVE  Says(s \o t, c, J \cup K)
<1> DEFINE u == s \o t
<1>1. s \in Seq(Sig) /\ t \in Seq(Sig)
  BY Zenon DEF Says
<1>2. u \in Seq(Sig) /\ Joins(u, s, t)
  BY <1>1, ConcatJoins, Zenon
<1> HIDE DEF u
<1>3. ASSUME NEW e \in Names(u) PROVE e \in Names(s) \cup Names(t)
  <2>1. PICK i \in DOMAIN u : e = u[i].name
    BY Zenon DEF Names
  <2>2. CASE i \in DOMAIN s /\ u[i] = s[i]
    <3>1. e = s[i].name
      BY <2>1, <2>2, Zenon
    <3> QED BY <2>2, <3>1, Zenon DEF Names
  <2>3. CASE \E j \in DOMAIN t : u[i] = t[j]
    <3>1. PICK j \in DOMAIN t : e = t[j].name
      BY <2>1, <2>3, Zenon
    <3> QED BY <3>1, Zenon DEF Names
  <2> QED BY <1>2, <2>2, <2>3, Zenon DEF Joins
<1>4. ASSUME NEW e \in Names(s) PROVE e \in Names(u)
  <2>1. PICK i \in DOMAIN s : e = s[i].name
    BY Zenon DEF Names
  <2>2. i \in DOMAIN u /\ e = u[i].name
    BY <1>2, <2>1, Zenon DEF Joins
  <2> QED BY <2>2, Zenon DEF Names
<1>5. ASSUME NEW e \in Names(t) PROVE e \in Names(u)
  <2>1. PICK i \in DOMAIN t : e = t[i].name
    BY Zenon DEF Names
  <2>2. PICK j \in DOMAIN u : u[j] = t[i]
    BY <1>2, Zenon DEF Joins
  <2>3. e = u[j].name
    BY <2>1, <2>2, Zenon
  <2> QED BY <2>3, Zenon DEF Names
<1>6. ASSUME NEW e PROVE e \in Names(u) <=> \E k \in J \cup K : c[k] /\ e = SignalOf[k]
  <2>1. e \in Names(u) <=> e \in Names(s) \/ e \in Names(t)
    BY <1>3, <1>4, <1>5, Zenon
  <2>2. e \in Names(s) <=> \E k \in J : c[k] /\ e = SignalOf[k]
    BY Zenon DEF Says
  <2>3. e \in Names(t) <=> \E k \in K : c[k] /\ e = SignalOf[k]
    BY Zenon DEF Says
  <2> QED BY <2>1, <2>2, <2>3, Zenon
<1> QED BY <1>2, <1>6, Zenon DEF Says, u

LEMMA FireSays ==
  ASSUME NEW c, NEW k \in Keys, NEW n \in SignalNames, n = SignalOf[k], NEW w \in Nat
  PROVE  Says(F!Fire(c[k], n, w), c, {k})
<1>1. F!Fire(c[k], n, w) \in Seq(Sig)
  BY FireTotals, Zenon
<1>2. CASE ~c[k]
  <2>1. F!Fire(c[k], n, w) = <<>>
    BY <1>2, Zenon DEF F!Fire
  <2>2. DOMAIN <<>> = {}
    OBVIOUS
  <2>3. Names(<<>>) = {}
    BY <2>2, Zenon DEF Names
  <2> QED BY <1>1, <1>2, <2>1, <2>3, Zenon DEF Says
<1>3. CASE c[k]
  <2> DEFINE e == [name |-> n, score |-> w]
  <2>1. F!Fire(c[k], n, w) = <<e>>
    BY <1>3, Zenon DEF F!Fire
  <2>2. e.name = n
    BY Zenon
  <2> HIDE DEF e
  <2>3. DOMAIN <<e>> = {1} /\ <<e>>[1] = e
    OBVIOUS
  <2>4. Names(<<e>>) = {n}
    BY <2>2, <2>3, Zenon DEF Names
  <2> QED BY <1>1, <1>3, <2>1, <2>4, Zenon DEF Says
<1> QED BY <1>2, <1>3, Zenon

\* Keys, names and weights that the next lemmas use.
LEMMA KeyTable ==
  /\ "platform" \in Keys /\ "cores" \in Keys /\ "webdriver" \in Keys /\ "plugins" \in Keys
  /\ "pluginsFF" \in Keys /\ "vendor" \in Keys /\ "vendorFF" \in Keys /\ "oscpu" \in Keys
  /\ "gpu" \in Keys /\ "unmasked" \in Keys /\ "extensions" \in Keys /\ "canvas" \in Keys
  /\ "audio" \in Keys /\ "codecs" \in Keys /\ "fonts" \in Keys /\ "height" \in Keys
  /\ "connect" \in Keys /\ "chrome" \in Keys /\ "midi" \in Keys /\ "ips" \in Keys
  /\ "iframe" \in Keys /\ "shadow" \in Keys /\ "console" \in Keys /\ "proxy" \in Keys
  /\ "stack" \in Keys /\ "voices" \in Keys /\ "worker" \in Keys /\ "hairline" \in Keys
BY Zenon DEF Keys

LEMMA NameTable ==
  /\ "nav_platform_ua_mismatch" \in SignalNames
  /\ "nav_hardware_concurrency_trap" \in SignalNames /\ "nav_webdriver_set" \in SignalNames
  /\ "nav_plugins_anomaly" \in SignalNames /\ "nav_vendor_ua_mismatch" \in SignalNames
  /\ "nav_oscpu_firefox_only" \in SignalNames
  /\ "webgl_vendor_renderer_impossible" \in SignalNames
  /\ "webgl_unmasked_missing" \in SignalNames /\ "webgl_extensions_anomaly" \in SignalNames
  /\ "canvas_seeded_noise" \in SignalNames /\ "audio_seeded_noise" \in SignalNames
  /\ "codec_rare_missing" \in SignalNames /\ "font_os_bundled_missing" \in SignalNames
  /\ "window_outer_height_85_trap" \in SignalNames
  /\ "chrome_runtime_connect_failure" \in SignalNames
  /\ "chrome_present_for_firefox" \in SignalNames
  /\ "permissions_midi_inconsistent" \in SignalNames
  /\ "webrtc_no_local_ips" \in SignalNames
  /\ "dom_iframe_contentwindow_anomaly" \in SignalNames
  /\ "dom_closed_shadow_root_accessible" \in SignalNames
  /\ "runtime_console_debug_disabled" \in SignalNames
  /\ "runtime_to_string_proxy" \in SignalNames
  /\ "runtime_error_stack_pw_signature" \in SignalNames
  /\ "speech_voices_empty" \in SignalNames /\ "sw_register_noop" \in SignalNames
  /\ "hairline_non_modernizr_anomaly" \in SignalNames
BY Zenon DEF SignalNames

LEMMA WeightTable ==
  /\ 15 \in Nat /\ 20 \in Nat /\ 25 \in Nat /\ 30 \in Nat /\ 35 \in Nat /\ 40 \in Nat
  /\ 45 \in Nat /\ 50 \in Nat /\ 60 \in Nat /\ 70 \in Nat
OBVIOUS

LEMMA SignalTable ==
  /\ SignalOf.platform = "nav_platform_ua_mismatch"
  /\ SignalOf.cores = "nav_hardware_concurrency_trap"
  /\ SignalOf.webdriver = "nav_webdriver_set" /\ SignalOf.plugins = "nav_plugins_anomaly"
  /\ SignalOf.pluginsFF = "nav_plugins_anomaly"
  /\ SignalOf.vendor = "nav_vendor_ua_mismatch"
  /\ SignalOf.vendorFF = "nav_vendor_ua_mismatch"
  /\ SignalOf.oscpu = "nav_oscpu_firefox_only"
  /\ SignalOf.gpu = "webgl_vendor_renderer_impossible"
  /\ SignalOf.unmasked = "webgl_unmasked_missing"
  /\ SignalOf.extensions = "webgl_extensions_anomaly"
  /\ SignalOf.canvas = "canvas_seeded_noise" /\ SignalOf.audio = "audio_seeded_noise"
  /\ SignalOf.codecs = "codec_rare_missing" /\ SignalOf.fonts = "font_os_bundled_missing"
  /\ SignalOf.height = "window_outer_height_85_trap"
  /\ SignalOf.connect = "chrome_runtime_connect_failure"
  /\ SignalOf.chrome = "chrome_present_for_firefox"
  /\ SignalOf.midi = "permissions_midi_inconsistent" /\ SignalOf.ips = "webrtc_no_local_ips"
  /\ SignalOf.iframe = "dom_iframe_contentwindow_anomaly"
  /\ SignalOf.shadow = "dom_closed_shadow_root_accessible"
  /\ SignalOf.console = "runtime_console_debug_disabled"
  /\ SignalOf.proxy = "runtime_to_string_proxy"
  /\ SignalOf.stack = "runtime_error_stack_pw_signature"
  /\ SignalOf.voices = "speech_voices_empty" /\ SignalOf.worker = "sw_register_noop"
  /\ SignalOf.hairline = "hairline_non_modernizr_anomaly"
BY Zenon DEF SignalOf

\* More causes raise signals that score no less.
LEMMA MoreCauses ==
  ASSUME NEW c, NEW d, \A k \in Keys : c[k] => d[k]
  PROVE  Below(SignalsOf(c), SignalsOf(d))
<1>1. ASSUME NEW k \in Keys, NEW n \in SignalNames, NEW w \in Nat
      PROVE  Below(F!Fire(c[k], n, w), F!Fire(d[k], n, w))
  BY FireBelow, Zenon
<1>2. Below(NavigatorFirst(c), NavigatorFirst(d))
  <2> DEFINE A(e) == F!Fire(e.platform, "nav_platform_ua_mismatch", 50)
             B(e) == F!Fire(e.cores, "nav_hardware_concurrency_trap", 30)
             C(e) == F!Fire(e.webdriver, "nav_webdriver_set", 60)
             D(e) == F!Fire(e.plugins, "nav_plugins_anomaly", 20)
  <2>1. Below(A(c), A(d)) /\ Below(B(c), B(d)) /\ Below(C(c), C(d)) /\ Below(D(c), D(d))
    BY <1>1, KeyTable, NameTable, WeightTable, Zenon
  <2>2. /\ NavigatorFirst(c) = A(c) \o B(c) \o C(c) \o D(c)
        /\ NavigatorFirst(d) = A(d) \o B(d) \o C(d) \o D(d)
    BY Zenon DEF NavigatorFirst
  <2> HIDE DEF A, B, C, D
  <2>3. Below(A(c) \o B(c), A(d) \o B(d))
    BY <2>1, BelowConcat, Zenon
  <2>4. Below(A(c) \o B(c) \o C(c), A(d) \o B(d) \o C(d))
    BY <2>1, <2>3, BelowConcat, Zenon
  <2> QED BY <2>1, <2>2, <2>4, BelowConcat, Zenon
<1>3. Below(NavigatorOf(c), NavigatorOf(d))
  <2> DEFINE A(e) == NavigatorFirst(e)
             B(e) == F!Fire(e.pluginsFF, "nav_plugins_anomaly", 20)
             C(e) == F!Fire(e.vendor, "nav_vendor_ua_mismatch", 25)
             D(e) == F!Fire(e.vendorFF, "nav_vendor_ua_mismatch", 25)
             E(e) == F!Fire(e.oscpu, "nav_oscpu_firefox_only", 15)
  <2>1. /\ Below(A(c), A(d)) /\ Below(B(c), B(d)) /\ Below(C(c), C(d))
        /\ Below(D(c), D(d)) /\ Below(E(c), E(d))
    BY <1>1, <1>2, KeyTable, NameTable, WeightTable, Zenon
  <2>2. /\ NavigatorOf(c) = A(c) \o B(c) \o C(c) \o D(c) \o E(c)
        /\ NavigatorOf(d) = A(d) \o B(d) \o C(d) \o D(d) \o E(d)
    BY Zenon DEF NavigatorOf
  <2> HIDE DEF A, B, C, D, E
  <2>3. Below(A(c) \o B(c), A(d) \o B(d))
    BY <2>1, BelowConcat, Zenon
  <2>4. Below(A(c) \o B(c) \o C(c), A(d) \o B(d) \o C(d))
    BY <2>1, <2>3, BelowConcat, Zenon
  <2>5. Below(A(c) \o B(c) \o C(c) \o D(c), A(d) \o B(d) \o C(d) \o D(d))
    BY <2>1, <2>4, BelowConcat, Zenon
  <2> QED BY <2>1, <2>2, <2>5, BelowConcat, Zenon
<1>4. Below(WebGLOf(c), WebGLOf(d))
  <2> DEFINE A(e) == F!Fire(e.gpu, "webgl_vendor_renderer_impossible", 40)
             B(e) == F!Fire(e.unmasked, "webgl_unmasked_missing", 20)
             C(e) == F!Fire(e.extensions, "webgl_extensions_anomaly", 15)
  <2>1. Below(A(c), A(d)) /\ Below(B(c), B(d)) /\ Below(C(c), C(d))
    BY <1>1, KeyTable, NameTable, WeightTable, Zenon
  <2>2. WebGLOf(c) = A(c) \o B(c) \o C(c) /\ WebGLOf(d) = A(d) \o B(d) \o C(d)
    BY Zenon DEF WebGLOf
  <2> HIDE DEF A, B, C
  <2>3. Below(A(c) \o B(c), A(d) \o B(d))
    BY <2>1, BelowConcat, Zenon
  <2> QED BY <2>1, <2>2, <2>3, BelowConcat, Zenon
<1>5. Below(ChromeOf(c), ChromeOf(d))
  <2> DEFINE A(e) == F!Fire(e.connect, "chrome_runtime_connect_failure", 40)
             B(e) == F!Fire(e.chrome, "chrome_present_for_firefox", 60)
  <2>1. Below(A(c), A(d)) /\ Below(B(c), B(d))
    BY <1>1, KeyTable, NameTable, WeightTable, Zenon
  <2>2. ChromeOf(c) = A(c) \o B(c) /\ ChromeOf(d) = A(d) \o B(d)
    BY Zenon DEF ChromeOf
  <2> HIDE DEF A, B
  <2> QED BY <2>1, <2>2, BelowConcat, Zenon
<1>6. Below(DOMOf(c), DOMOf(d))
  <2> DEFINE A(e) == F!Fire(e.iframe, "dom_iframe_contentwindow_anomaly", 40)
             B(e) == F!Fire(e.shadow, "dom_closed_shadow_root_accessible", 50)
  <2>1. Below(A(c), A(d)) /\ Below(B(c), B(d))
    BY <1>1, KeyTable, NameTable, WeightTable, Zenon
  <2>2. DOMOf(c) = A(c) \o B(c) /\ DOMOf(d) = A(d) \o B(d)
    BY Zenon DEF DOMOf
  <2> HIDE DEF A, B
  <2> QED BY <2>1, <2>2, BelowConcat, Zenon
<1>7. Below(RuntimeOf(c), RuntimeOf(d))
  <2> DEFINE A(e) == F!Fire(e.console, "runtime_console_debug_disabled", 60)
             B(e) == F!Fire(e.proxy, "runtime_to_string_proxy", 35)
             C(e) == F!Fire(e.stack, "runtime_error_stack_pw_signature", 70)
  <2>1. Below(A(c), A(d)) /\ Below(B(c), B(d)) /\ Below(C(c), C(d))
    BY <1>1, KeyTable, NameTable, WeightTable, Zenon
  <2>2. RuntimeOf(c) = A(c) \o B(c) \o C(c) /\ RuntimeOf(d) = A(d) \o B(d) \o C(d)
    BY Zenon DEF RuntimeOf
  <2> HIDE DEF A, B, C
  <2>3. Below(A(c) \o B(c), A(d) \o B(d))
    BY <2>1, BelowConcat, Zenon
  <2> QED BY <2>1, <2>2, <2>3, BelowConcat, Zenon
<1>8. Below(First(c), First(d))
  <2> DEFINE A(e) == NavigatorOf(e)
             B(e) == WebGLOf(e)
             C(e) == F!Fire(e.canvas, "canvas_seeded_noise", 50)
             D(e) == F!Fire(e.audio, "audio_seeded_noise", 40)
  <2>1. Below(A(c), A(d)) /\ Below(B(c), B(d)) /\ Below(C(c), C(d)) /\ Below(D(c), D(d))
    BY <1>1, <1>3, <1>4, KeyTable, NameTable, WeightTable, Zenon
  <2>2. First(c) = A(c) \o B(c) \o C(c) \o D(c) /\ First(d) = A(d) \o B(d) \o C(d) \o D(d)
    BY Zenon DEF First
  <2> HIDE DEF A, B, C, D
  <2>3. Below(A(c) \o B(c), A(d) \o B(d))
    BY <2>1, BelowConcat, Zenon
  <2>4. Below(A(c) \o B(c) \o C(c), A(d) \o B(d) \o C(d))
    BY <2>1, <2>3, BelowConcat, Zenon
  <2> QED BY <2>1, <2>2, <2>4, BelowConcat, Zenon
<1>9. Below(Second(c), Second(d))
  <2> DEFINE A(e) == First(e)
             B(e) == F!Fire(e.codecs, "codec_rare_missing", 20)
             C(e) == F!Fire(e.fonts, "font_os_bundled_missing", 25)
             D(e) == F!Fire(e.height, "window_outer_height_85_trap", 50)
             E(e) == ChromeOf(e)
  <2>1. /\ Below(A(c), A(d)) /\ Below(B(c), B(d)) /\ Below(C(c), C(d))
        /\ Below(D(c), D(d)) /\ Below(E(c), E(d))
    BY <1>1, <1>8, <1>5, KeyTable, NameTable, WeightTable, Zenon
  <2>2. /\ Second(c) = A(c) \o B(c) \o C(c) \o D(c) \o E(c)
        /\ Second(d) = A(d) \o B(d) \o C(d) \o D(d) \o E(d)
    BY Zenon DEF Second
  <2> HIDE DEF A, B, C, D, E
  <2>3. Below(A(c) \o B(c), A(d) \o B(d))
    BY <2>1, BelowConcat, Zenon
  <2>4. Below(A(c) \o B(c) \o C(c), A(d) \o B(d) \o C(d))
    BY <2>1, <2>3, BelowConcat, Zenon
  <2>5. Below(A(c) \o B(c) \o C(c) \o D(c), A(d) \o B(d) \o C(d) \o D(d))
    BY <2>1, <2>4, BelowConcat, Zenon
  <2> QED BY <2>1, <2>2, <2>5, BelowConcat, Zenon
<1>10. Below(Third(c), Third(d))
  <2> DEFINE A(e) == Second(e)
             B(e) == F!Fire(e.midi, "permissions_midi_inconsistent", 35)
             C(e) == F!Fire(e.ips, "webrtc_no_local_ips", 15)
             D(e) == DOMOf(e)
             E(e) == RuntimeOf(e)
  <2>1. /\ Below(A(c), A(d)) /\ Below(B(c), B(d)) /\ Below(C(c), C(d))
        /\ Below(D(c), D(d)) /\ Below(E(c), E(d))
    BY <1>1, <1>9, <1>6, <1>7, KeyTable, NameTable, WeightTable, Zenon
  <2>2. /\ Third(c) = A(c) \o B(c) \o C(c) \o D(c) \o E(c)
        /\ Third(d) = A(d) \o B(d) \o C(d) \o D(d) \o E(d)
    BY Zenon DEF Third
  <2> HIDE DEF A, B, C, D, E
  <2>3. Below(A(c) \o B(c), A(d) \o B(d))
    BY <2>1, BelowConcat, Zenon
  <2>4. Below(A(c) \o B(c) \o C(c), A(d) \o B(d) \o C(d))
    BY <2>1, <2>3, BelowConcat, Zenon
  <2>5. Below(A(c) \o B(c) \o C(c) \o D(c), A(d) \o B(d) \o C(d) \o D(d))
    BY <2>1, <2>4, BelowConcat, Zenon
  <2> QED BY <2>1, <2>2, <2>5, BelowConcat, Zenon
<1>11. Below(SignalsOf(c), SignalsOf(d))
  <2> DEFINE A(e) == Third(e)
             B(e) == F!Fire(e.voices, "speech_voices_empty", 15)
             C(e) == F!Fire(e.worker, "sw_register_noop", 45)
             D(e) == F!Fire(e.hairline, "hairline_non_modernizr_anomaly", 20)
  <2>1. Below(A(c), A(d)) /\ Below(B(c), B(d)) /\ Below(C(c), C(d)) /\ Below(D(c), D(d))
    BY <1>1, <1>10, KeyTable, NameTable, WeightTable, Zenon
  <2>2. SignalsOf(c) = A(c) \o B(c) \o C(c) \o D(c) /\ SignalsOf(d) = A(d) \o B(d) \o C(d) \o D(d)
    BY Zenon DEF SignalsOf
  <2> HIDE DEF A, B, C, D
  <2>3. Below(A(c) \o B(c), A(d) \o B(d))
    BY <2>1, BelowConcat, Zenon
  <2>4. Below(A(c) \o B(c) \o C(c), A(d) \o B(d) \o C(d))
    BY <2>1, <2>3, BelowConcat, Zenon
  <2> QED BY <2>1, <2>2, <2>4, BelowConcat, Zenon
<1> QED BY <1>11

\* The signals name the causes there were.
LEMMA CausesShow ==
  ASSUME NEW c
  PROVE  /\ SignalsOf(c) \in Seq(Sig)
         /\ \A e : e \in Names(SignalsOf(c)) <=> \E k \in Keys : c[k] /\ e = SignalOf[k]
<1>1. ASSUME NEW k \in Keys, NEW n \in SignalNames, n = SignalOf[k], NEW w \in Nat
      PROVE  Says(F!Fire(c[k], n, w), c, {k})
  BY <1>1, FireSays, Zenon
<1> DEFINE K2 == {"platform"} \cup {"cores"} \cup {"webdriver"} \cup {"plugins"}
           K3 == K2 \cup {"pluginsFF"} \cup {"vendor"} \cup {"vendorFF"} \cup {"oscpu"}
           K4 == {"gpu"} \cup {"unmasked"} \cup {"extensions"}
           K5 == {"connect"} \cup {"chrome"}
           K6 == {"iframe"} \cup {"shadow"}
           K7 == {"console"} \cup {"proxy"} \cup {"stack"}
           K8 == K3 \cup K4 \cup {"canvas"} \cup {"audio"}
           K9 == K8 \cup {"codecs"} \cup {"fonts"} \cup {"height"} \cup K5
           K10 == K9 \cup {"midi"} \cup {"ips"} \cup K6 \cup K7
           K11 == K10 \cup {"voices"} \cup {"worker"} \cup {"hairline"}
<1> HIDE DEF K2, K3, K4, K5, K6, K7, K8, K9, K10, K11
<1>2. Says(NavigatorFirst(c), c, K2)
  <2>1. /\ Says(F!Fire(c.platform, "nav_platform_ua_mismatch", 50), c, {"platform"})
        /\ Says(F!Fire(c.cores, "nav_hardware_concurrency_trap", 30), c, {"cores"})
        /\ Says(F!Fire(c.webdriver, "nav_webdriver_set", 60), c, {"webdriver"})
        /\ Says(F!Fire(c.plugins, "nav_plugins_anomaly", 20), c, {"plugins"})
    BY <1>1, KeyTable, NameTable, WeightTable, SignalTable, Zenon
  <2> QED BY <2>1, SaysConcat, Zenon DEF NavigatorFirst, K2
<1>3. Says(NavigatorOf(c), c, K3)
  <2>1. /\ Says(F!Fire(c.pluginsFF, "nav_plugins_anomaly", 20), c, {"pluginsFF"})
        /\ Says(F!Fire(c.vendor, "nav_vendor_ua_mismatch", 25), c, {"vendor"})
        /\ Says(F!Fire(c.vendorFF, "nav_vendor_ua_mismatch", 25), c, {"vendorFF"})
        /\ Says(F!Fire(c.oscpu, "nav_oscpu_firefox_only", 15), c, {"oscpu"})
    BY <1>1, KeyTable, NameTable, WeightTable, SignalTable, Zenon
  <2> QED BY <2>1, <1>2, SaysConcat, Zenon DEF NavigatorOf, K3
<1>4. Says(WebGLOf(c), c, K4)
  <2>1. /\ Says(F!Fire(c.gpu, "webgl_vendor_renderer_impossible", 40), c, {"gpu"})
        /\ Says(F!Fire(c.unmasked, "webgl_unmasked_missing", 20), c, {"unmasked"})
        /\ Says(F!Fire(c.extensions, "webgl_extensions_anomaly", 15), c, {"extensions"})
    BY <1>1, KeyTable, NameTable, WeightTable, SignalTable, Zenon
  <2> QED BY <2>1, SaysConcat, Zenon DEF WebGLOf, K4
<1>5. Says(ChromeOf(c), c, K5)
  <2>1. /\ Says(F!Fire(c.connect, "chrome_runtime_connect_failure", 40), c, {"connect"})
        /\ Says(F!Fire(c.chrome, "chrome_present_for_firefox", 60), c, {"chrome"})
    BY <1>1, KeyTable, NameTable, WeightTable, SignalTable, Zenon
  <2> QED BY <2>1, SaysConcat, Zenon DEF ChromeOf, K5
<1>6. Says(DOMOf(c), c, K6)
  <2>1. /\ Says(F!Fire(c.iframe, "dom_iframe_contentwindow_anomaly", 40), c, {"iframe"})
        /\ Says(F!Fire(c.shadow, "dom_closed_shadow_root_accessible", 50), c, {"shadow"})
    BY <1>1, KeyTable, NameTable, WeightTable, SignalTable, Zenon
  <2> QED BY <2>1, SaysConcat, Zenon DEF DOMOf, K6
<1>7. Says(RuntimeOf(c), c, K7)
  <2>1. /\ Says(F!Fire(c.console, "runtime_console_debug_disabled", 60), c, {"console"})
        /\ Says(F!Fire(c.proxy, "runtime_to_string_proxy", 35), c, {"proxy"})
        /\ Says(F!Fire(c.stack, "runtime_error_stack_pw_signature", 70), c, {"stack"})
    BY <1>1, KeyTable, NameTable, WeightTable, SignalTable, Zenon
  <2> QED BY <2>1, SaysConcat, Zenon DEF RuntimeOf, K7
<1>8. Says(First(c), c, K8)
  <2>1. /\ Says(F!Fire(c.canvas, "canvas_seeded_noise", 50), c, {"canvas"})
        /\ Says(F!Fire(c.audio, "audio_seeded_noise", 40), c, {"audio"})
    BY <1>1, KeyTable, NameTable, WeightTable, SignalTable, Zenon
  <2> QED BY <2>1, <1>3, <1>4, SaysConcat, Zenon DEF First, K8
<1>9. Says(Second(c), c, K9)
  <2>1. /\ Says(F!Fire(c.codecs, "codec_rare_missing", 20), c, {"codecs"})
        /\ Says(F!Fire(c.fonts, "font_os_bundled_missing", 25), c, {"fonts"})
        /\ Says(F!Fire(c.height, "window_outer_height_85_trap", 50), c, {"height"})
    BY <1>1, KeyTable, NameTable, WeightTable, SignalTable, Zenon
  <2> QED BY <2>1, <1>8, <1>5, SaysConcat, Zenon DEF Second, K9
<1>10. Says(Third(c), c, K10)
  <2>1. /\ Says(F!Fire(c.midi, "permissions_midi_inconsistent", 35), c, {"midi"})
        /\ Says(F!Fire(c.ips, "webrtc_no_local_ips", 15), c, {"ips"})
    BY <1>1, KeyTable, NameTable, WeightTable, SignalTable, Zenon
  <2> QED BY <2>1, <1>9, <1>6, <1>7, SaysConcat, Zenon DEF Third, K10
<1>11. Says(SignalsOf(c), c, K11)
  <2>1. /\ Says(F!Fire(c.voices, "speech_voices_empty", 15), c, {"voices"})
        /\ Says(F!Fire(c.worker, "sw_register_noop", 45), c, {"worker"})
        /\ Says(F!Fire(c.hairline, "hairline_non_modernizr_anomaly", 20), c, {"hairline"})
    BY <1>1, KeyTable, NameTable, WeightTable, SignalTable, Zenon
  <2> QED BY <2>1, <1>10, SaysConcat, Zenon DEF SignalsOf, K11
<1>12. K11 = Keys
  BY DEF Keys, K2, K3, K4, K5, K6, K7, K8, K9, K10, K11
<1> QED BY <1>11, <1>12, Zenon DEF Says

\* The user agents as probes and collectors see them; "" is what a failed collector leaves.
LEMMA AgentFacts ==
  ASSUME NEW n \in F!Names
  PROVE  /\ F!IsFirefoxUA(F!UA(n)) <=> n = "firefox linux"
         /\ F!IsChromeUA(F!UA(n)) <=> n \in Chromes
         /\ F!IsSafariUA(F!UA(n)) <=> n \in Safaris
         /\ F!OsFromUA(F!UA(n)) = IF n \in {"chrome linux", "firefox linux"} THEN "linux"
                                  ELSE IF n = "edge windows" THEN "windows" ELSE "mac"
         /\ F!Platform(n) = IF n \in {"chrome linux", "firefox linux"} THEN "linux"
                            ELSE IF n = "edge windows" THEN "win"
                            ELSE IF n = "safari ios" THEN "iphone" ELSE "mac"
<1>1. CASE n = "chrome linux"
  BY <1>1, Zenon DEF F!UA, F!Platform, F!IsFirefoxUA, F!IsChromeUA, F!IsSafariUA, F!OsFromUA,
                     F!Has, Chromes, Safaris
<1>2. CASE n = "chrome mac"
  BY <1>2, Zenon DEF F!UA, F!Platform, F!IsFirefoxUA, F!IsChromeUA, F!IsSafariUA, F!OsFromUA,
                     F!Has, Chromes, Safaris
<1>3. CASE n = "edge windows"
  BY <1>3, Zenon DEF F!UA, F!Platform, F!IsFirefoxUA, F!IsChromeUA, F!IsSafariUA, F!OsFromUA,
                     F!Has, Chromes, Safaris
<1>4. CASE n = "firefox linux"
  BY <1>4, Zenon DEF F!UA, F!Platform, F!IsFirefoxUA, F!IsChromeUA, F!IsSafariUA, F!OsFromUA,
                     F!Has, Chromes, Safaris
<1>5. CASE n = "safari mac"
  BY <1>5, Zenon DEF F!UA, F!Platform, F!IsFirefoxUA, F!IsChromeUA, F!IsSafariUA, F!OsFromUA,
                     F!Has, Chromes, Safaris
<1>6. CASE n = "safari ios"
  BY <1>6, Zenon DEF F!UA, F!Platform, F!IsFirefoxUA, F!IsChromeUA, F!IsSafariUA, F!OsFromUA,
                     F!Has, Chromes, Safaris
<1> QED BY <1>1, <1>2, <1>3, <1>4, <1>5, <1>6, Zenon DEF F!Names

LEMMA NoAgent ==
  /\ ~F!IsFirefoxUA({}) /\ ~F!IsChromeUA({}) /\ ~F!IsSafariUA({}) /\ F!OsFromUA({}) = ""
BY Zenon DEF F!IsFirefoxUA, F!IsChromeUA, F!IsSafariUA, F!OsFromUA, F!Has

LEMMA Platforms ==
  /\ F!OsFromPlatform("win") = "windows" /\ F!OsFromPlatform("linux") = "linux"
  /\ F!OsFromPlatform("mac") = "mac" /\ F!OsFromPlatform("iphone") = "ios"
BY Zenon DEF F!OsFromPlatform

\* A family of the report is its collector's, or the fallback of one that threw.
Rep(n, T, s, P) == F!Report(F!Browser(n, T, s), P)
Reported(P, f, value) == IF f \in P THEN F!Fallback[f] ELSE value
LEMMA ReportParts ==
  ASSUME NEW b, NEW P, NEW r, r = F!Report(b, P)
  PROVE  /\ r.navigator = Reported(P, "navigator", F!CollectNavigator(b))
         /\ r.webgl = Reported(P, "webgl", F!CollectWebGL(b))
         /\ r.canvas = Reported(P, "canvas", F!CollectCanvas(b))
         /\ r.audio = Reported(P, "audio", F!CollectAudio(b))
         /\ r.codecs = Reported(P, "codecs", F!CollectCodecs(b))
         /\ r.fonts = Reported(P, "fonts", F!CollectFonts(b))
         /\ r.window = Reported(P, "window", F!CollectWindow(b))
         /\ r.chrome = Reported(P, "chrome", F!CollectChrome(b))
         /\ r.permissions = Reported(P, "permissions", F!CollectPermissions(b))
         /\ r.webrtc = Reported(P, "webrtc", F!CollectWebRTC(b))
         /\ r.dom = Reported(P, "dom", F!CollectDOM(b))
         /\ r.runtime = Reported(P, "runtime", F!CollectRuntime(b))
         /\ r.speech = Reported(P, "speech", F!CollectSpeech(b))
         /\ r.serviceWorker = Reported(P, "serviceWorker", F!CollectServiceWorker(b))
         /\ r.hairline = Reported(P, "hairline", F!CollectHairline(b))
BY Zenon DEF F!Report, F!Collected, F!Families, Reported

LEMMA FallbackParts ==
  /\ F!Fallback["navigator"] = [ua |-> {}, platform |-> "", vendor |-> "", cores |-> 0,
                                webdriver |-> FALSE, plugins |-> {}, oscpu |-> FALSE]
  /\ F!Fallback["webgl"] = F!EmptyWebGL /\ F!Fallback["canvas"] = 0 /\ F!Fallback["audio"] = 0
  /\ F!Fallback["codecs"] = [x \in {} |-> FALSE] /\ F!Fallback["fonts"] = {}
  /\ F!Fallback["window"] = [outer |-> 0, inner |-> 0]
  /\ F!Fallback["chrome"] = [present |-> FALSE, error |-> ""]
  /\ F!Fallback["permissions"] = [notifications |-> "unsupported", midi |-> "unsupported"]
  /\ F!Fallback["webrtc"] = {} /\ F!Fallback["dom"] = [iframe |-> FALSE, shadow |-> FALSE]
  /\ F!Fallback["runtime"] = [native |-> FALSE, arity |-> 0, signature |-> FALSE]
  /\ F!Fallback["speech"] = {} /\ F!Fallback["hairline"] = 0
  /\ F!Fallback["serviceWorker"] = [registered |-> FALSE, controller |-> FALSE,
                                    error |-> "unsupported"]
BY Zenon DEF F!Fallback, F!EmptyServiceWorker

\* Chromium's plugins are the canonical ones, or those of a browser that fakes them.
LEMMA Canonical ==
  ASSUME NEW n, NEW T
  PROVE  (F!Chromium(n) # ("plugins" \in T)) <=> (F!Chromium(n) <=> "plugins" \notin T)
<1> DEFINE A == {"chrome linux", "chrome mac", "edge windows"}
<1> HIDE DEF A
<1>1. ((n \in A) # ("plugins" \in T)) <=> (n \in A <=> "plugins" \notin T)
  OBVIOUS
<1> QED BY <1>1, Zenon DEF F!Chromium, A

\* What the probes read of the user agent in report r.
AgentKnown(r, n, P) ==
  /\ F!IsFirefoxUA(r.navigator.ua) <=> "navigator" \notin P /\ n = "firefox linux"
  /\ F!IsChromeUA(r.navigator.ua) <=> "navigator" \notin P /\ n \in Chromes
  /\ F!IsSafariUA(r.navigator.ua) <=> "navigator" \notin P /\ n \in Safaris
LEMMA NavigatorProbe ==
  ASSUME NEW n \in F!Names, NEW T, NEW s \in BOOLEAN, NEW P
  PROVE  /\ F!Navigator(Rep(n, T, s, P)) = NavigatorOf(Cause(n, T, s, P))
         /\ AgentKnown(Rep(n, T, s, P), n, P)
<1> SUFFICES ASSUME NEW r, NEW c, r = Rep(n, T, s, P), c = Cause(n, T, s, P)
             PROVE  F!Navigator(r) = NavigatorOf(c) /\ AgentKnown(r, n, P)
  BY Zenon
<1> USE DEF Rep, AgentKnown
<1> DEFINE b == F!Browser(n, T, s)
           nav == r.navigator
           ff == F!IsFirefoxUA(nav.ua)
           ch == F!IsChromeUA(nav.ua)
           X1 == F!OsFromUA(nav.ua) # "" /\ F!OsFromPlatform(nav.platform) # ""
                 /\ F!OsFromUA(nav.ua) # F!OsFromPlatform(nav.platform)
           X2 == nav.cores = 4
           X3 == nav.webdriver
           X4 == ch /\ ~F!HasCanonicalChromePlugins(nav.plugins)
           X5 == ff /\ nav.plugins # {}
           X6 == ch /\ nav.vendor # "Google Inc."
           X7 == ff /\ nav.vendor # ""
           X8 == ~ff /\ nav.oscpu
<1>0. 0 # 4 /\ 8 # 4
  OBVIOUS
<1>1. nav = Reported(P, "navigator", F!CollectNavigator(b))
  BY ReportParts, Zenon
<1>2. /\ c.platform = ("navigator" \notin P /\ ("platform" \in T \/ n = "safari ios"))
      /\ c.cores = ("navigator" \notin P /\ "cores" \in T)
      /\ c.webdriver = ("navigator" \notin P /\ "webdriver" \in T)
      /\ c.plugins = ("navigator" \notin P /\ n \in Chromes /\ "plugins" \in T)
      /\ c.pluginsFF = ("navigator" \notin P /\ n = "firefox linux" /\ "plugins" \in T)
      /\ c.vendor = ("navigator" \notin P /\ n \in Chromes /\ "vendor" \in T)
      /\ c.vendorFF = ("navigator" \notin P /\ n = "firefox linux" /\ "vendor" \in T)
      /\ c.oscpu = ("navigator" \notin P /\ n # "firefox linux" /\ "oscpu" \in T)
  BY Zenon DEF Cause
<1> DEFINE Same == /\ (X1 <=> c.platform) /\ (X2 <=> c.cores) /\ (X3 <=> c.webdriver)
                   /\ (X4 <=> c.plugins) /\ (X5 <=> c.pluginsFF) /\ (X6 <=> c.vendor)
                   /\ (X7 <=> c.vendorFF) /\ (X8 <=> c.oscpu)
           Agent == /\ F!IsFirefoxUA(nav.ua) <=> "navigator" \notin P /\ n = "firefox linux"
                    /\ F!IsChromeUA(nav.ua) <=> "navigator" \notin P /\ n \in Chromes
                    /\ F!IsSafariUA(nav.ua) <=> "navigator" \notin P /\ n \in Safaris
<1>3. ASSUME "navigator" \in P PROVE Same /\ Agent
  <2>0. nav = [ua |-> {}, platform |-> "", vendor |-> "", cores |-> 0,
               webdriver |-> FALSE, plugins |-> {}, oscpu |-> FALSE]
    BY <1>1, <1>3, FallbackParts, Zenon DEF Reported
  <2> HIDE DEF nav
  <2>1. /\ nav.ua = {} /\ nav.vendor = "" /\ nav.cores = 0
        /\ nav.webdriver = FALSE /\ nav.plugins = {} /\ nav.oscpu = FALSE
    BY <2>0, Zenon
  <2>2. ~ff /\ ~ch /\ ~F!IsSafariUA(nav.ua) /\ F!OsFromUA(nav.ua) = ""
    BY <2>1, NoAgent, Zenon
  <2>3. X1 <=> c.platform
    BY <1>2, <1>3, <2>1, <2>2, Zenon
  <2>4. (X2 <=> c.cores) /\ (X3 <=> c.webdriver)
    BY <1>0, <1>2, <1>3, <2>1, Zenon
  <2>5. /\ (X4 <=> c.plugins) /\ (X5 <=> c.pluginsFF) /\ (X6 <=> c.vendor)
        /\ (X7 <=> c.vendorFF) /\ (X8 <=> c.oscpu)
    BY <1>2, <1>3, <2>1, <2>2, Zenon
  <2> QED BY <1>3, <2>2, <2>3, <2>4, <2>5, Zenon
<1>4. ASSUME "navigator" \notin P PROVE Same /\ Agent
  <2>0. nav = F!CollectNavigator(b)
    BY <1>1, <1>4, Zenon DEF Reported
  <2> HIDE DEF nav
  <2>1. /\ nav.ua = F!UA(n)
        /\ nav.platform = IF "platform" \notin T THEN F!Platform(n)
                          ELSE IF F!Platform(n) = "win" THEN "linux" ELSE "win"
        /\ nav.vendor = IF "vendor" \in T THEN "Spoof" ELSE IF F!Chromium(n) THEN "Google Inc."
                        ELSE IF F!Firefox(n) THEN "" ELSE "Apple Computer, Inc."
        /\ nav.cores = IF "cores" \in T THEN 4 ELSE 8
        /\ nav.webdriver = ("webdriver" \in T)
        /\ nav.plugins = IF F!Chromium(n) # ("plugins" \in T)
                         THEN {"PDF Viewer", "Chrome PDF Viewer", "Chromium PDF Viewer"} ELSE {}
        /\ nav.oscpu = (F!Firefox(n) \/ "oscpu" \in T)
    BY <2>0, Zenon DEF F!CollectNavigator, F!Browser
  <2>2. /\ ff <=> n = "firefox linux"
        /\ ch <=> n \in Chromes
        /\ F!IsSafariUA(nav.ua) <=> n \in Safaris
        /\ F!OsFromUA(nav.ua) = IF n \in {"chrome linux", "firefox linux"} THEN "linux"
                                ELSE IF n = "edge windows" THEN "windows" ELSE "mac"
    <3>1. nav.ua = F!UA(n)
      BY <2>1, Zenon
    <3> DEFINE u == F!UA(n)
               os == IF n \in {"chrome linux", "firefox linux"} THEN "linux"
                     ELSE IF n = "edge windows" THEN "windows" ELSE "mac"
    <3>2. /\ F!IsFirefoxUA(u) <=> n = "firefox linux"
          /\ F!IsChromeUA(u) <=> n \in Chromes
          /\ F!IsSafariUA(u) <=> n \in Safaris
          /\ F!OsFromUA(u) = os
      BY AgentFacts, Zenon
    <3>3. nav.ua = u
      BY <3>1
    <3> HIDE DEF u, os
    <3>4. F!OsFromUA(nav.ua) = os
      BY <3>2, <3>3, Zenon
    <3>5. ff <=> n = "firefox linux"
      BY <3>2, <3>3, Zenon
    <3>6. ch <=> n \in Chromes
      BY <3>2, <3>3, Zenon
    <3>7. F!IsSafariUA(nav.ua) <=> n \in Safaris
      BY <3>2, <3>3, Zenon
    <3> QED BY <3>4, <3>5, <3>6, <3>7, Zenon DEF os
  <2>3. X1 <=> "platform" \in T \/ n = "safari ios"
    <3>1. nav.platform = IF n \in {"chrome linux", "firefox linux"}
                         THEN IF "platform" \in T THEN "win" ELSE "linux"
                         ELSE IF n = "edge windows" THEN IF "platform" \in T THEN "linux" ELSE "win"
                         ELSE IF "platform" \in T THEN "win"
                         ELSE IF n = "safari ios" THEN "iphone" ELSE "mac"
      BY <2>1, AgentFacts, Zenon
    <3> QED BY <2>2, <3>1, Platforms, Zenon DEF F!Names
  <2>4. (X2 <=> "cores" \in T) /\ (X3 <=> "webdriver" \in T)
    BY <1>0, <2>1, Zenon
  <2>5. F!Chromium(n) <=> n \in Chromes \cup {"edge windows"}
    BY Zenon DEF F!Chromium, Chromes
  <2>6. F!HasCanonicalChromePlugins(nav.plugins) <=> (F!Chromium(n) # ("plugins" \in T))
    BY <2>1, Zenon DEF F!HasCanonicalChromePlugins, F!Has
  <2>7. (X4 <=> n \in Chromes /\ "plugins" \in T) /\ (X6 <=> n \in Chromes /\ "vendor" \in T)
    BY <2>1, <2>2, <2>5, <2>6, Zenon
  <2>8. /\ X5 <=> n = "firefox linux" /\ "plugins" \in T
        /\ X7 <=> n = "firefox linux" /\ "vendor" \in T
        /\ X8 <=> n # "firefox linux" /\ "oscpu" \in T
    <3>1. ff <=> n = "firefox linux"
      BY <2>2, Zenon
    <3>2. F!Firefox(n) <=> n = "firefox linux"
      BY Zenon DEF F!Firefox
    <3>3. ~(F!Chromium(n) /\ F!Firefox(n))
      BY <2>5, <3>2, Zenon DEF Chromes
    <3>4. X5 <=> n = "firefox linux" /\ "plugins" \in T
      <4>1. CASE n = "firefox linux"
        <5>1. (F!Chromium(n) # ("plugins" \in T)) <=> "plugins" \in T
          BY <3>2, <3>3, <4>1, Canonical, Zenon
        <5>2. nav.plugins = IF "plugins" \in T
                            THEN {"PDF Viewer", "Chrome PDF Viewer", "Chromium PDF Viewer"} ELSE {}
          BY <2>1, <5>1, Zenon
        <5> QED BY <3>1, <4>1, <5>2, Zenon
      <4> QED BY <3>1, <4>1, Zenon
    <3>5. X7 <=> n = "firefox linux" /\ "vendor" \in T
      <4>1. CASE n = "firefox linux"
        BY <2>1, <3>1, <3>2, <3>3, <4>1, Zenon
      <4> QED BY <3>1, <4>1, Zenon
    <3>6. X8 <=> n # "firefox linux" /\ "oscpu" \in T
      BY <2>1, <3>1, <3>2, Zenon
    <3> QED BY <3>4, <3>5, <3>6, Zenon
  <2> QED BY <1>2, <1>4, <2>2, <2>3, <2>4, <2>7, <2>8, Zenon
<1>5. /\ F!Fire(X1, "nav_platform_ua_mismatch", 50)
         = F!Fire(c.platform, "nav_platform_ua_mismatch", 50)
      /\ F!Fire(X2, "nav_hardware_concurrency_trap", 30)
         = F!Fire(c.cores, "nav_hardware_concurrency_trap", 30)
      /\ F!Fire(X3, "nav_webdriver_set", 60) = F!Fire(c.webdriver, "nav_webdriver_set", 60)
      /\ F!Fire(X4, "nav_plugins_anomaly", 20) = F!Fire(c.plugins, "nav_plugins_anomaly", 20)
      /\ F!Fire(X5, "nav_plugins_anomaly", 20) = F!Fire(c.pluginsFF, "nav_plugins_anomaly", 20)
      /\ F!Fire(X6, "nav_vendor_ua_mismatch", 25) = F!Fire(c.vendor, "nav_vendor_ua_mismatch", 25)
      /\ F!Fire(X7, "nav_vendor_ua_mismatch", 25) = F!Fire(c.vendorFF, "nav_vendor_ua_mismatch", 25)
      /\ F!Fire(X8, "nav_oscpu_firefox_only", 15) = F!Fire(c.oscpu, "nav_oscpu_firefox_only", 15)
  <2> HIDE DEF X1, X2, X3, X4, X5, X6, X7, X8
  <2> QED BY <1>3, <1>4, Zenon DEF F!Fire
<1> QED BY <1>3, <1>4, <1>5, Zenon DEF F!Navigator, NavigatorOf, NavigatorFirst

\* One render, two, or three; what the arithmetic of the probes is about.
LEMMA Renders ==
  /\ ~(F!UniqueCount(<<1, 1, 1>>) >= 2)
  /\ F!UniqueCount(<<1, 2, 1>>) >= 2 /\ F!UniqueCount(<<1, 2, 3>>) >= 2
<1>1. /\ F!Range(<<1, 1, 1>>) = {1} /\ F!Range(<<1, 2, 1>>) = {1} \cup {2}
      /\ F!Range(<<1, 2, 3>>) = ({1} \cup {2}) \cup {3}
  BY DEF F!Range
<1>2. IsFiniteSet({1}) /\ Cardinality({1}) = 1
  BY FS_Singleton
<1>3. IsFiniteSet({1} \cup {2}) /\ Cardinality({1} \cup {2}) = 2
  BY <1>2, FS_AddElement
<1>4. Cardinality(({1} \cup {2}) \cup {3}) = 3
  BY <1>3, FS_AddElement
<1>0. \A S : F!Cardinality(S) = Cardinality(S)
  BY Zenon DEF F!Cardinality, Cardinality
<1> DEFINE a == F!UniqueCount(<<1, 1, 1>>)
           b == F!UniqueCount(<<1, 2, 1>>)
           d == F!UniqueCount(<<1, 2, 3>>)
<1>5. a = 1 /\ b = 2 /\ d = 3
  BY <1>1, <1>2, <1>3, <1>4, <1>0, Zenon DEF F!UniqueCount
<1> HIDE DEF a, b, d
<1>6. ~(a >= 2) /\ b >= 2 /\ d >= 2
  BY <1>5
<1> QED BY <1>6, Zenon DEF a, b, d

LEMMA Numbers == 0 < 10 /\ ~(28 < 10) /\ ~(28 <= 12) /\ 11 <= 12
OBVIOUS

LEMMA WebGLProbe ==
  ASSUME NEW n, NEW T, NEW s, NEW P
  PROVE  F!WebGL(Rep(n, T, s, P)) = WebGLOf(Cause(n, T, s, P))
<1> SUFFICES ASSUME NEW r, NEW c, r = Rep(n, T, s, P), c = Cause(n, T, s, P)
             PROVE  F!WebGL(r) = WebGLOf(c)
  BY Zenon
<1> USE DEF Rep
<1> DEFINE b == F!Browser(n, T, s)
           gl == r.webgl
           X1 == "intel" \in gl.vendor /\ "apple gpu" \in gl.renderer
           X2 == gl.vendor = {} \/ gl.renderer = {}
           X3 == F!WebGLExtensionsAnomalous(gl.extensions)
<1>1. gl = Reported(P, "webgl", F!CollectWebGL(b))
  BY ReportParts, Zenon
<1>2. /\ c.gpu = ("webgl" \notin P /\ "gpu" \in T)
      /\ c.unmasked = ("webgl" \in P)
      /\ c.extensions = ("webgl" \in P \/ "extensions" \in T)
  BY Zenon DEF Cause
<1>3. /\ gl.vendor = IF "webgl" \in P THEN {} ELSE IF "gpu" \in T THEN {"intel"} ELSE {"google"}
      /\ gl.renderer = IF "webgl" \in P THEN {}
                       ELSE IF "gpu" \in T THEN {"apple gpu"} ELSE {"angle"}
      /\ gl.extensions.count = IF "webgl" \in P THEN 0 ELSE IF "extensions" \in T THEN 11 ELSE 28
      /\ "webgl" \notin P => gl.extensions.debugInfo
      /\ "webgl" \notin P => (gl.extensions.textureFloat <=> "extensions" \notin T)
  <2>1. CASE "webgl" \in P
    <3>1. gl = [vendor |-> {}, renderer |-> {},
                extensions |-> [count |-> 0, debugInfo |-> FALSE, textureFloat |-> FALSE]]
      BY <1>1, <2>1, FallbackParts, Zenon DEF Reported, F!EmptyWebGL
    <3> HIDE DEF gl
    <3>2. gl.vendor = {} /\ gl.renderer = {} /\ gl.extensions.count = 0
      BY <3>1, Zenon
    <3> QED BY <2>1, <3>2, Zenon
  <2>2. CASE "webgl" \notin P
    <3>1. gl = F!CollectWebGL(b)
      BY <1>1, <2>2, Zenon DEF Reported
    <3>2. /\ b.gl = TRUE /\ b.gpuVendor = IF "gpu" \in T THEN {"intel"} ELSE {"google"}
          /\ b.gpuRenderer = IF "gpu" \in T THEN {"apple gpu"} ELSE {"angle"}
          /\ b.extensions = [count |-> IF "extensions" \in T THEN 11 ELSE 28, debugInfo |-> TRUE,
                             textureFloat |-> "extensions" \notin T]
      BY Zenon DEF F!Browser
    <3> HIDE DEF gl, b
    <3>3. gl = [vendor |-> b.gpuVendor, renderer |-> b.gpuRenderer, extensions |-> b.extensions]
      BY <3>1, <3>2, Zenon DEF F!CollectWebGL
    <3>4. gl.vendor = b.gpuVendor /\ gl.renderer = b.gpuRenderer
      BY <3>3, Zenon
    <3>5. /\ gl.extensions.count = IF "extensions" \in T THEN 11 ELSE 28
          /\ gl.extensions.debugInfo = TRUE
          /\ gl.extensions.textureFloat <=> "extensions" \notin T
      <4>1. gl.extensions = [count |-> IF "extensions" \in T THEN 11 ELSE 28, debugInfo |-> TRUE,
                             textureFloat |-> "extensions" \notin T]
        BY <3>2, <3>3, Zenon
      <4> DEFINE e == gl.extensions
      <4> HIDE DEF e
      <4>2. e = [count |-> IF "extensions" \in T THEN 11 ELSE 28, debugInfo |-> TRUE,
                 textureFloat |-> "extensions" \notin T]
        BY <4>1, Zenon DEF e
      <4>3. e.count = (IF "extensions" \in T THEN 11 ELSE 28) /\ e.debugInfo = TRUE
        BY <4>2, Zenon
      <4>4. e.textureFloat <=> "extensions" \notin T
        BY <4>2, Zenon
      <4> QED BY <4>3, <4>4, Zenon DEF e
    <3> QED BY <2>2, <3>2, <3>4, <3>5, Zenon
  <2> QED BY <2>1, <2>2, Zenon
<1> HIDE DEF gl
<1>4. (X1 <=> c.gpu) /\ (X2 <=> c.unmasked)
  BY <1>2, <1>3, Zenon
<1>5. X3 <=> c.extensions
  <2>1. CASE "webgl" \in P
    <3>1. gl.extensions.count = 0
      BY <1>3, <2>1, Zenon
    <3>2. X3
      BY <3>1, Numbers, Zenon DEF F!WebGLExtensionsAnomalous
    <3> QED BY <1>2, <2>1, <3>2, Zenon
  <2>2. CASE "webgl" \notin P /\ "extensions" \in T
    <3>1. /\ gl.extensions.count = 11 /\ gl.extensions.debugInfo
          /\ ~gl.extensions.textureFloat
      BY <1>3, <2>2, Zenon
    <3>2. X3
      BY <3>1, Numbers, Zenon DEF F!WebGLExtensionsAnomalous
    <3> QED BY <1>2, <2>2, <3>2, Zenon
  <2>3. CASE "webgl" \notin P /\ "extensions" \notin T
    <3>1. gl.extensions.count = 28
      BY <1>3, <2>3, Zenon
    <3>2. ~X3
      BY <3>1, Numbers, Zenon DEF F!WebGLExtensionsAnomalous
    <3> QED BY <1>2, <2>3, <3>2, Zenon
  <2> QED BY <2>1, <2>2, <2>3, Zenon
<1> HIDE DEF X1, X2, X3
<1>6. /\ F!Fire(X1, "webgl_vendor_renderer_impossible", 40)
         = F!Fire(c.gpu, "webgl_vendor_renderer_impossible", 40)
      /\ F!Fire(X2, "webgl_unmasked_missing", 20) = F!Fire(c.unmasked, "webgl_unmasked_missing", 20)
      /\ F!Fire(X3, "webgl_extensions_anomaly", 15)
         = F!Fire(c.extensions, "webgl_extensions_anomaly", 15)
  BY <1>4, <1>5, Zenon DEF F!Fire
<1>7. F!WebGL(r) = F!Fire(X1, "webgl_vendor_renderer_impossible", 40)
                   \o F!Fire(X2, "webgl_unmasked_missing", 20)
                   \o F!Fire(X3, "webgl_extensions_anomaly", 15)
  BY Zenon DEF F!WebGL, X1, X2, X3, gl
<1> QED BY <1>6, <1>7, Zenon DEF WebGLOf

LEMMA RenderProbes ==
  ASSUME NEW n, NEW T, NEW s, NEW P
  PROVE  /\ F!Canvas(Rep(n, T, s, P)) = F!Fire(Cause(n, T, s, P).canvas, "canvas_seeded_noise", 50)
         /\ F!Audio(Rep(n, T, s, P)) = F!Fire(Cause(n, T, s, P).audio, "audio_seeded_noise", 40)
         /\ F!Hairline(Rep(n, T, s, P))
            = F!Fire(Cause(n, T, s, P).hairline, "hairline_non_modernizr_anomaly", 20)
<1> SUFFICES ASSUME NEW r, NEW c, r = Rep(n, T, s, P), c = Cause(n, T, s, P)
             PROVE  /\ F!Canvas(r) = F!Fire(c.canvas, "canvas_seeded_noise", 50)
                    /\ F!Audio(r) = F!Fire(c.audio, "audio_seeded_noise", 40)
                    /\ F!Hairline(r) = F!Fire(c.hairline, "hairline_non_modernizr_anomaly", 20)
  BY Zenon
<1> USE DEF Rep
<1> DEFINE b == F!Browser(n, T, s)
<1>1. /\ r.canvas = Reported(P, "canvas", F!CollectCanvas(b))
      /\ r.audio = Reported(P, "audio", F!CollectAudio(b))
      /\ r.hairline = Reported(P, "hairline", F!CollectHairline(b))
  BY ReportParts, Zenon
<1>2. /\ c.canvas = ("canvas" \notin P /\ ("canvas" \in T \/ "canvas3" \in T))
      /\ c.audio = ("audio" \notin P /\ "audio" \in T)
      /\ c.hairline = ("hairline" \notin P /\ "hairline" \in T)
  BY Zenon DEF Cause
<1>3. /\ b.canvas = IF "canvas3" \in T THEN <<1, 2, 3>>
                    ELSE IF "canvas" \in T THEN <<1, 2, 1>> ELSE <<1, 1, 1>>
      /\ b.audio = IF "audio" \in T THEN <<1, 2, 1>> ELSE <<1, 1, 1>>
      /\ b.hairline = IF "hairline" \in T THEN 1 ELSE 0
  BY Zenon DEF F!Browser
<1> HIDE DEF b
<1>4. /\ r.canvas = IF "canvas" \in P THEN 0 ELSE F!UniqueCount(b.canvas)
      /\ r.audio = IF "audio" \in P THEN 0 ELSE F!UniqueCount(b.audio)
      /\ r.hairline = IF "hairline" \in P THEN 0 ELSE b.hairline
  BY <1>1, FallbackParts, Zenon DEF Reported, F!CollectCanvas, F!CollectAudio, F!CollectHairline
<1>5. r.canvas >= 2 <=> c.canvas
  <2>1. \/ r.canvas = 0 /\ ~c.canvas
        \/ r.canvas = F!UniqueCount(<<1, 2, 3>>) /\ c.canvas
        \/ r.canvas = F!UniqueCount(<<1, 2, 1>>) /\ c.canvas
        \/ r.canvas = F!UniqueCount(<<1, 1, 1>>) /\ ~c.canvas
    BY <1>2, <1>3, <1>4, Zenon
  <2>2. 0 >= 2 <=> FALSE
    OBVIOUS
  <2> QED BY <2>1, <2>2, Renders, Zenon
<1>6. r.audio >= 2 <=> c.audio
  <2>1. \/ r.audio = 0 /\ ~c.audio
        \/ r.audio = F!UniqueCount(<<1, 2, 1>>) /\ c.audio
        \/ r.audio = F!UniqueCount(<<1, 1, 1>>) /\ ~c.audio
    BY <1>2, <1>3, <1>4, Zenon
  <2>2. 0 >= 2 <=> FALSE
    OBVIOUS
  <2> QED BY <2>1, <2>2, Renders, Zenon
<1>7. r.hairline > 0 <=> c.hairline
  <2>1. (r.hairline = 0 /\ ~c.hairline) \/ (r.hairline = 1 /\ c.hairline)
    BY <1>2, <1>3, <1>4, Zenon
  <2>2. ~(0 > 0) /\ 1 > 0
    OBVIOUS
  <2> QED BY <2>1, <2>2, Zenon
<1> QED BY <1>5, <1>6, <1>7, Zenon DEF F!Canvas, F!Audio, F!Hairline, F!Fire

LEMMA AgentProbes ==
  ASSUME NEW n \in F!Names, NEW T, NEW s \in BOOLEAN, NEW P
  PROVE  /\ F!Codecs(Rep(n, T, s, P)) = F!Fire(Cause(n, T, s, P).codecs, "codec_rare_missing", 20)
         /\ F!ChromeRuntime(Rep(n, T, s, P)) = ChromeOf(Cause(n, T, s, P))
         /\ F!Speech(Rep(n, T, s, P)) = F!Fire(Cause(n, T, s, P).voices, "speech_voices_empty", 15)
<1> SUFFICES ASSUME NEW r, NEW c, r = Rep(n, T, s, P), c = Cause(n, T, s, P)
             PROVE  /\ F!Codecs(r) = F!Fire(c.codecs, "codec_rare_missing", 20)
                    /\ F!ChromeRuntime(r) = ChromeOf(c)
                    /\ F!Speech(r) = F!Fire(c.voices, "speech_voices_empty", 15)
  BY Zenon
<1> USE DEF Rep
<1> DEFINE b == F!Browser(n, T, s)
           ff == F!IsFirefoxUA(r.navigator.ua)
           ch == F!IsChromeUA(r.navigator.ua)
           sa == F!IsSafariUA(r.navigator.ua)
<1>1. /\ r.codecs = Reported(P, "codecs", F!CollectCodecs(b))
      /\ r.chrome = Reported(P, "chrome", F!CollectChrome(b))
      /\ r.speech = Reported(P, "speech", F!CollectSpeech(b))
  BY ReportParts, Zenon
<1>2. /\ c.codecs = ("navigator" \notin P /\ n \in Chromes \cup Safaris)
      /\ c.connect = ("navigator" \notin P /\ "chrome" \notin P /\ n \in Chromes /\ "connect" \in T)
      /\ c.chrome = ("navigator" \notin P /\ "chrome" \notin P /\ n = "firefox linux"
                     /\ "chrome" \in T)
      /\ c.voices = ("navigator" \notin P /\ n # "edge windows"
                     /\ ("speech" \in P \/ "voices" \in T))
  BY Zenon DEF Cause
<1>3. /\ ff <=> "navigator" \notin P /\ n = "firefox linux"
      /\ ch <=> "navigator" \notin P /\ n \in Chromes
      /\ sa <=> "navigator" \notin P /\ n \in Safaris
  <2>1. AgentKnown(Rep(n, T, s, P), n, P)
    BY NavigatorProbe, Zenon
  <2> QED BY <2>1, Zenon DEF AgentKnown
<1>4. /\ b.chrome = (F!Chromium(n) \/ "chrome" \in T)
      /\ b.connect = IF "connect" \in T THEN "mock" ELSE IF F!Chromium(n) THEN "real" ELSE "none"
      /\ b.voicesLate = ("voices" \in T) /\ b.voices = {"default"}
  BY Zenon DEF F!Browser
<1> HIDE DEF b
<1>5. ~F!Supported(r, "av1_p1")
  <2>1. DOMAIN r.codecs = IF "codecs" \in P THEN {} ELSE {"hevc", "av1.0.04M.08", "dvhe.05.06"}
    BY <1>1, FallbackParts, Zenon DEF Reported, F!CollectCodecs
  <2>2. \/ DOMAIN r.codecs = {}
        \/ DOMAIN r.codecs = {"hevc", "av1.0.04M.08", "dvhe.05.06"}
    BY <2>1, Zenon
  <2>3. "av1_p1" \notin DOMAIN r.codecs
    BY <2>2, Zenon
  <2> QED BY <2>3, Zenon DEF F!Supported
<1>6. (ch \/ sa) /\ ~(F!Supported(r, "hevc") /\ F!Supported(r, "av1_p1")) <=> c.codecs
  BY <1>2, <1>3, <1>5, Zenon
<1>7. (ch /\ r.chrome.error = "mock" <=> c.connect) /\ (ff /\ r.chrome.present <=> c.chrome)
  <2> DEFINE x == r.chrome
  <2> HIDE DEF x
  <2>1. CASE "chrome" \in P
    <3>1. x = [present |-> FALSE, error |-> ""]
      BY <1>1, <2>1, FallbackParts, Zenon DEF Reported, x
    <3>2. x.present = FALSE /\ x.error = ""
      BY <3>1, Zenon
    <3>3. ~x.present /\ x.error # "mock"
      BY <3>2, Zenon
    <3> QED BY <1>2, <2>1, <3>3, Zenon DEF x
  <2>2. CASE "chrome" \notin P
    <3>1. x = F!CollectChrome(b)
      BY <1>1, <2>2, Zenon DEF Reported, x
    <3>2. /\ x.present = b.chrome
          /\ x.error = IF b.connect \in {"none", "ok"} THEN "" ELSE b.connect
      BY <3>1, Zenon DEF F!CollectChrome
    <3>3. x.error = "mock" <=> "connect" \in T
      <4>1. \/ "connect" \in T /\ b.connect = "mock"
            \/ "connect" \notin T /\ (b.connect = "real" \/ b.connect = "none")
        BY <1>4, Zenon
      <4> QED BY <3>2, <4>1, Zenon
    <3>4. n = "firefox linux" => (x.present <=> "chrome" \in T)
      <4>1. ASSUME n = "firefox linux" PROVE ~F!Chromium(n)
        BY <4>1, Zenon DEF F!Chromium
      <4>2. x.present <=> (F!Chromium(n) \/ "chrome" \in T)
        BY <1>4, <3>2, Zenon
      <4> QED BY <4>1, <4>2, Zenon
    <3> QED BY <1>2, <1>3, <2>2, <3>3, <3>4, Zenon DEF x
  <2> QED BY <2>1, <2>2, Zenon
<1>8. (ch \/ ff \/ sa) /\ r.speech = {} <=> c.voices
  <2>1. r.speech = IF "speech" \in P \/ "voices" \in T THEN {} ELSE {"default"}
    <3>1. F!CollectSpeech(b) = IF "voices" \in T THEN {} ELSE {"default"}
      BY <1>4, Zenon DEF F!CollectSpeech
    <3> QED BY <1>1, <3>1, FallbackParts, Zenon DEF Reported
  <2>2. ch \/ ff \/ sa <=> "navigator" \notin P /\ n # "edge windows"
    BY <1>3, Zenon DEF F!Names, Chromes, Safaris
  <2>3. r.speech = {} <=> "speech" \in P \/ "voices" \in T
    BY <2>1, Zenon
  <2> QED BY <1>2, <2>2, <2>3, Zenon
<1>9. F!Codecs(r) = F!Fire(c.codecs, "codec_rare_missing", 20)
  BY <1>6, Zenon DEF F!Codecs, F!Fire
<1>10. F!Speech(r) = F!Fire(c.voices, "speech_voices_empty", 15)
  BY <1>8, Zenon DEF F!Speech, F!Fire
<1>11. F!ChromeRuntime(r) = ChromeOf(c)
  <2>1. F!Fire(ch /\ r.chrome.error = "mock", "chrome_runtime_connect_failure", 40)
        = F!Fire(c.connect, "chrome_runtime_connect_failure", 40)
    BY <1>7, Zenon DEF F!Fire
  <2>2. F!Fire(ff /\ r.chrome.present, "chrome_present_for_firefox", 60)
        = F!Fire(c.chrome, "chrome_present_for_firefox", 60)
    BY <1>7, Zenon DEF F!Fire
  <2> QED BY <2>1, <2>2, Zenon DEF F!ChromeRuntime, ChromeOf
<1> QED BY <1>9, <1>10, <1>11, Zenon

LEMMA FamilyOf ==
  ASSUME NEW n \in F!Names, NEW b, b.ua = F!UA(n)
  PROVE  /\ n \in {"chrome mac", "safari mac", "safari ios"} => F!OsFamily(b) = "mac"
         /\ n = "edge windows" /\ b.platform \in {"win", "linux"} => F!OsFamily(b) = "windows"
         /\ n \in {"chrome linux", "firefox linux"} =>
              /\ b.platform = "linux" => F!OsFamily(b) = "linux"
              /\ b.platform = "win" => F!OsFamily(b) = "windows"
<1>1. CASE n \in {"chrome mac", "safari mac", "safari ios"}
  <2>1. "mac os x" \in b.ua
    BY <1>1, Zenon DEF F!UA
  <2> QED BY <1>1, <2>1, Zenon DEF F!OsFamily, F!Has
<1>2. CASE n = "edge windows"
  <2>1. b.ua = {"chrome/", "safari/", "edg/", "windows nt"}
    BY <1>2, Zenon DEF F!UA
  <2> QED BY <1>2, <2>1, Zenon DEF F!OsFamily, F!Has
<1>3. CASE n \in {"chrome linux", "firefox linux"}
  <2>1. \/ b.ua = {"chrome/", "safari/", "linux", "x11"}
        \/ b.ua = {"firefox/", "linux", "x11"}
    BY <1>3, Zenon DEF F!UA
  <2> QED BY <1>3, <2>1, Zenon DEF F!OsFamily, F!Has
<1> QED BY <1>1, <1>2, <1>3, Zenon DEF F!Names

LEMMA FontProbe ==
  ASSUME NEW n \in F!Names, NEW T, NEW s, NEW P
  PROVE  F!Fonts(Rep(n, T, s, P)) = F!Fire(Cause(n, T, s, P).fonts, "font_os_bundled_missing", 25)
<1> SUFFICES ASSUME NEW r, NEW c, r = Rep(n, T, s, P), c = Cause(n, T, s, P)
             PROVE  F!Fonts(r) = F!Fire(c.fonts, "font_os_bundled_missing", 25)
  BY Zenon
<1> USE DEF Rep
<1> DEFINE b == F!Browser(n, T, s)
           own == [ua |-> F!UA(n), platform |-> F!Platform(n)]
           linux == n \in {"chrome linux", "firefox linux"}
<1>1. r.fonts = Reported(P, "fonts", F!CollectFonts(b))
  BY ReportParts, Zenon
<1>2. c.fonts = ("fonts" \notin P /\ ("fonts" \in T \/ ("platform" \in T
                                       /\ n \in {"chrome linux", "firefox linux"})))
  BY Zenon DEF Cause
<1>3. /\ b.ua = F!UA(n) /\ b.fonts = (IF "fonts" \in T THEN {} ELSE {F!OsFamily(own)})
      /\ b.platform = IF "platform" \notin T THEN F!Platform(n)
                      ELSE IF F!Platform(n) = "win" THEN "linux" ELSE "win"
  BY Zenon DEF F!Browser
<1>4. own.ua = F!UA(n) /\ own.platform = F!Platform(n)
  BY Zenon
<1> HIDE DEF b, own
<1>5. F!OsFamily(b) # "" /\ (F!OsFamily(b) = F!OsFamily(own) <=> ~("platform" \in T /\ linux))
  <2>1. CASE n \in {"chrome mac", "safari mac", "safari ios"}
    <3>1. F!OsFamily(b) = "mac" /\ F!OsFamily(own) = "mac"
      BY <1>3, <1>4, <2>1, FamilyOf, Zenon
    <3> QED BY <2>1, <3>1, Zenon
  <2>2. CASE n = "edge windows"
    <3>1. F!Platform(n) = "win"
      BY <2>2, AgentFacts, Zenon
    <3>2. b.platform \in {"win", "linux"} /\ own.platform = "win"
      BY <1>3, <1>4, <3>1, Zenon
    <3>3. F!OsFamily(b) = "windows" /\ F!OsFamily(own) = "windows"
      BY <1>3, <1>4, <2>2, <3>2, FamilyOf, Zenon
    <3> QED BY <2>2, <3>3, Zenon
  <2>3. CASE linux
    <3>1. F!Platform(n) = "linux"
      BY <2>3, AgentFacts, Zenon
    <3>2. b.platform = (IF "platform" \in T THEN "win" ELSE "linux") /\ own.platform = "linux"
      BY <1>3, <1>4, <3>1, Zenon
    <3>3. F!OsFamily(own) = "linux"
      BY <1>4, <2>3, <3>2, FamilyOf, Zenon
    <3>4. CASE "platform" \in T
      <4>1. F!OsFamily(b) = "windows"
        BY <1>3, <2>3, <3>2, <3>4, FamilyOf, Zenon
      <4> QED BY <2>3, <3>3, <3>4, <4>1, Zenon
    <3>5. CASE "platform" \notin T
      <4>1. F!OsFamily(b) = "linux"
        BY <1>3, <2>3, <3>2, <3>5, FamilyOf, Zenon
      <4> QED BY <2>3, <3>3, <3>5, <4>1, Zenon
    <3> QED BY <3>4, <3>5, Zenon
  <2> QED BY <2>1, <2>2, <2>3, Zenon DEF F!Names
<1>6. F!CollectFonts(b) # {} <=> "fonts" \in T \/ ("platform" \in T /\ linux)
  <2>1. F!CollectFonts(b) = {F!OsFamily(b)} \ ({""} \cup b.fonts)
    BY Zenon DEF F!CollectFonts
  <2>2. F!CollectFonts(b) # {} <=> F!OsFamily(b) \notin b.fonts
    BY <1>5, <2>1, Zenon
  <2>3. F!OsFamily(b) \in b.fonts <=> "fonts" \notin T /\ F!OsFamily(b) = F!OsFamily(own)
    BY <1>3, Zenon
  <2> QED BY <1>5, <2>2, <2>3, Zenon
<1>7. r.fonts # {} <=> c.fonts
  <2>1. CASE "fonts" \in P
    BY <1>1, <1>2, <2>1, FallbackParts, Zenon DEF Reported
  <2>2. CASE "fonts" \notin P
    <3>1. r.fonts = F!CollectFonts(b)
      BY <1>1, <2>2, Zenon DEF Reported
    <3> QED BY <1>2, <1>6, <2>2, <3>1, Zenon
  <2> QED BY <2>1, <2>2, Zenon
<1> QED BY <1>7, Zenon DEF F!Fonts, F!Fire

PageSays(r, c) == /\ F!Window(r) = F!Fire(c.height, "window_outer_height_85_trap", 50)
                  /\ F!Permissions(r) = F!Fire(c.midi, "permissions_midi_inconsistent", 35)
                  /\ F!WebRTC(r) = F!Fire(c.ips, "webrtc_no_local_ips", 15)
                  /\ F!ServiceWorker(r) = F!Fire(c.worker, "sw_register_noop", 45)
LEMMA PageProbes ==
  ASSUME NEW n, NEW T, NEW s \in BOOLEAN, NEW P
  PROVE  PageSays(Rep(n, T, s, P), Cause(n, T, s, P))
<1> SUFFICES ASSUME NEW r, NEW c, r = Rep(n, T, s, P), c = Cause(n, T, s, P)
             PROVE  PageSays(r, c)
  BY Zenon
<1> USE DEF Rep, PageSays
<1> DEFINE b == F!Browser(n, T, s)
           w == r.window
           p == r.permissions
           v == r.serviceWorker
<1>1. /\ w = Reported(P, "window", F!CollectWindow(b))
      /\ p = Reported(P, "permissions", F!CollectPermissions(b))
      /\ r.webrtc = Reported(P, "webrtc", F!CollectWebRTC(b))
      /\ v = Reported(P, "serviceWorker", F!CollectServiceWorker(b))
  BY ReportParts, Zenon
<1>2. /\ c.height = ("window" \notin P /\ "height" \in T)
      /\ c.midi = ("permissions" \notin P /\ "midi" \in T)
      /\ c.ips = ("webrtc" \in P \/ "ips" \in T)
      /\ c.worker = ("serviceWorker" \notin P /\ s)
  BY Zenon DEF Cause
<1>3. /\ b.inner = 720 /\ b.outer = (IF "height" \in T THEN 805 ELSE 768)
      /\ b.notifications = (IF "midi" \in T THEN "granted" ELSE "default") /\ b.midi = "prompt"
      /\ b.rtc = TRUE /\ b.ips = (IF "ips" \in T THEN {} ELSE {"192.168.1.42"})
      /\ b.worker = (IF s THEN "registers" ELSE "insecure_context") /\ b.controlled = FALSE
  BY Zenon DEF F!Browser
<1> HIDE DEF b, w, p, v
<1>4. w.outer - w.inner = 85 <=> c.height
  <2>1. CASE "window" \in P
    <3>1. w = [outer |-> 0, inner |-> 0]
      BY <1>1, <2>1, FallbackParts, Zenon DEF Reported
    <3>2. w.outer = 0 /\ w.inner = 0
      BY <3>1, Zenon
    <3>3. w.outer - w.inner # 85
      BY <3>2
    <3> QED BY <1>2, <2>1, <3>3, Zenon
  <2>2. CASE "window" \notin P
    <3>1. w = F!CollectWindow(b)
      BY <1>1, <2>2, Zenon DEF Reported
    <3>2. w.outer = (IF "height" \in T THEN 805 ELSE 768) /\ w.inner = 720
      BY <1>3, <3>1, Zenon DEF F!CollectWindow
    <3>3. w.outer - w.inner = 85 <=> "height" \in T
      BY <3>2
    <3> QED BY <1>2, <2>2, <3>3, Zenon
  <2> QED BY <2>1, <2>2, Zenon
<1>5. p.notifications = "granted" /\ p.midi \in {"denied", "prompt"} <=> c.midi
  <2>1. CASE "permissions" \in P
    <3>1. p = [notifications |-> "unsupported", midi |-> "unsupported"]
      BY <1>1, <2>1, FallbackParts, Zenon DEF Reported
    <3>2. p.notifications = "unsupported"
      BY <3>1, Zenon
    <3> QED BY <1>2, <2>1, <3>2, Zenon
  <2>2. CASE "permissions" \notin P
    <3>1. p = F!CollectPermissions(b)
      BY <1>1, <2>2, Zenon DEF Reported
    <3>2. p.notifications = (IF "midi" \in T THEN "granted" ELSE "default") /\ p.midi = "prompt"
      BY <1>3, <3>1, Zenon DEF F!CollectPermissions
    <3> QED BY <1>2, <2>2, <3>2, Zenon
  <2> QED BY <2>1, <2>2, Zenon
<1>6. r.webrtc = {} <=> c.ips
  <2>1. F!CollectWebRTC(b) = IF "ips" \in T THEN {} ELSE {"192.168.1.42"}
    BY <1>3, Zenon DEF F!CollectWebRTC
  <2>2. r.webrtc = IF "webrtc" \in P \/ "ips" \in T THEN {} ELSE {"192.168.1.42"}
    BY <1>1, <2>1, FallbackParts, Zenon DEF Reported
  <2> QED BY <1>2, <2>2, Zenon
<1>7. (v.registered /\ ~v.controller) \/ v.error = "no-op" <=> c.worker
  <2>1. CASE "serviceWorker" \in P
    <3>1. v = [registered |-> FALSE, controller |-> FALSE, error |-> "unsupported"]
      BY <1>1, <2>1, FallbackParts, Zenon DEF Reported
    <3>2. v.registered = FALSE /\ v.error = "unsupported"
      BY <3>1, Zenon
    <3> QED BY <1>2, <2>1, <3>2, Zenon
  <2>2. CASE "serviceWorker" \notin P /\ s
    <3>1. v = F!CollectServiceWorker(b)
      BY <1>1, <2>2, Zenon DEF Reported
    <3>2. b.worker = "registers"
      BY <1>3, <2>2, Zenon
    <3>3. v = [registered |-> TRUE, controller |-> b.controlled, error |-> ""]
      BY <3>1, <3>2, Zenon DEF F!CollectServiceWorker
    <3>4. v.registered = TRUE /\ v.controller = FALSE
      BY <1>3, <3>3, Zenon
    <3> QED BY <1>2, <2>2, <3>4, Zenon
  <2>3. CASE "serviceWorker" \notin P /\ ~s
    <3>1. v = F!CollectServiceWorker(b)
      BY <1>1, <2>3, Zenon DEF Reported
    <3>2. b.worker = "insecure_context"
      BY <1>3, <2>3, Zenon
    <3>3. v.registered = FALSE /\ v.error = "insecure_context"
      BY <3>1, <3>2, Zenon DEF F!CollectServiceWorker
    <3> QED BY <1>2, <2>3, <3>3, Zenon
  <2> QED BY <2>1, <2>2, <2>3, Zenon
<1>8. F!Window(r) = F!Fire(c.height, "window_outer_height_85_trap", 50)
  BY <1>4, Zenon DEF F!Window, F!Fire, w
<1>9. F!Permissions(r) = F!Fire(c.midi, "permissions_midi_inconsistent", 35)
  BY <1>5, Zenon DEF F!Permissions, F!Fire, p
<1>10. F!WebRTC(r) = F!Fire(c.ips, "webrtc_no_local_ips", 15)
  BY <1>6, Zenon DEF F!WebRTC, F!Fire
<1>11. F!ServiceWorker(r) = F!Fire(c.worker, "sw_register_noop", 45)
  BY <1>7, Zenon DEF F!ServiceWorker, F!Fire, v
<1> QED BY <1>8, <1>9, <1>10, <1>11, Zenon

LEMMA ScriptProbes ==
  ASSUME NEW n, NEW T, NEW s, NEW P
  PROVE  /\ F!DOM(Rep(n, T, s, P)) = DOMOf(Cause(n, T, s, P))
         /\ F!Runtime(Rep(n, T, s, P)) = RuntimeOf(Cause(n, T, s, P))
<1> SUFFICES ASSUME NEW r, NEW c, r = Rep(n, T, s, P), c = Cause(n, T, s, P)
             PROVE  F!DOM(r) = DOMOf(c) /\ F!Runtime(r) = RuntimeOf(c)
  BY Zenon
<1> USE DEF Rep
<1> DEFINE b == F!Browser(n, T, s)
           d == r.dom
           u == r.runtime
           X1 == d.iframe
           X2 == d.shadow
           X3 == u.arity = 0
           X4 == ~u.native
           X5 == u.signature
<1>1. d = Reported(P, "dom", F!CollectDOM(b)) /\ u = Reported(P, "runtime", F!CollectRuntime(b))
  BY ReportParts, Zenon
<1>2. /\ c.iframe = ("dom" \notin P)
      /\ c.shadow = ("dom" \notin P /\ "shadow" \in T)
      /\ c.console = ("runtime" \in P \/ "console" \in T)
      /\ c.proxy = ("runtime" \in P \/ "proxy" \in T)
      /\ c.stack = ("runtime" \notin P /\ "stack" \in T)
  BY Zenon DEF Cause
<1>3. /\ b.contentWindow = "window" /\ b.shadow = ("shadow" \in T)
      /\ b.native = ("proxy" \notin T) /\ b.arity = (IF "console" \in T THEN 0 ELSE 1)
      /\ b.signature = ("stack" \in T)
  BY Zenon DEF F!Browser
<1> HIDE DEF b, d, u
<1>4. (X1 <=> c.iframe) /\ (X2 <=> c.shadow)
  <2>1. CASE "dom" \in P
    <3>1. d = [iframe |-> FALSE, shadow |-> FALSE]
      BY <1>1, <2>1, FallbackParts, Zenon DEF Reported
    <3>2. d.iframe = FALSE /\ d.shadow = FALSE
      BY <3>1, Zenon
    <3> QED BY <1>2, <2>1, <3>2, Zenon
  <2>2. CASE "dom" \notin P
    <3>1. d = F!CollectDOM(b)
      BY <1>1, <2>2, Zenon DEF Reported
    <3>2. d.iframe = (b.contentWindow = "window") /\ d.shadow = b.shadow
      BY <3>1, Zenon DEF F!CollectDOM
    <3> QED BY <1>2, <1>3, <2>2, <3>2, Zenon
  <2> QED BY <2>1, <2>2, Zenon
<1>5. (X3 <=> c.console) /\ (X4 <=> c.proxy) /\ (X5 <=> c.stack)
  <2>1. CASE "runtime" \in P
    <3>1. u = [native |-> FALSE, arity |-> 0, signature |-> FALSE]
      BY <1>1, <2>1, FallbackParts, Zenon DEF Reported
    <3>2. u.native = FALSE /\ u.arity = 0 /\ u.signature = FALSE
      BY <3>1, Zenon
    <3> QED BY <1>2, <2>1, <3>2, Zenon
  <2>2. CASE "runtime" \notin P
    <3>1. u = F!CollectRuntime(b)
      BY <1>1, <2>2, Zenon DEF Reported
    <3>2. u.native = b.native /\ u.arity = b.arity /\ u.signature = b.signature
      BY <3>1, Zenon DEF F!CollectRuntime
    <3>3. u.arity = (IF "console" \in T THEN 0 ELSE 1)
      BY <1>3, <3>2, Zenon
    <3>4. u.arity = 0 <=> "console" \in T
      BY <3>3
    <3> QED BY <1>2, <1>3, <2>2, <3>2, <3>4, Zenon
  <2> QED BY <2>1, <2>2, Zenon
<1> HIDE DEF X1, X2, X3, X4, X5
<1>6. /\ F!Fire(X1, "dom_iframe_contentwindow_anomaly", 40)
         = F!Fire(c.iframe, "dom_iframe_contentwindow_anomaly", 40)
      /\ F!Fire(X2, "dom_closed_shadow_root_accessible", 50)
         = F!Fire(c.shadow, "dom_closed_shadow_root_accessible", 50)
  BY <1>4, Zenon DEF F!Fire
<1>7. /\ F!Fire(X3, "runtime_console_debug_disabled", 60)
         = F!Fire(c.console, "runtime_console_debug_disabled", 60)
      /\ F!Fire(X4, "runtime_to_string_proxy", 35) = F!Fire(c.proxy, "runtime_to_string_proxy", 35)
      /\ F!Fire(X5, "runtime_error_stack_pw_signature", 70)
         = F!Fire(c.stack, "runtime_error_stack_pw_signature", 70)
  BY <1>5, Zenon DEF F!Fire
<1> QED BY <1>6, <1>7, Zenon DEF F!DOM, F!Runtime, DOMOf, RuntimeOf, X1, X2, X3, X4, X5, d, u

\* Collectors and probes end to end: the signals of a browser's report are those of its causes.
LEMMA ScoreOfCauses ==
  ASSUME NEW n \in F!Names, NEW T, NEW s \in BOOLEAN, NEW P
  PROVE  F!Score(Rep(n, T, s, P)) = SignalsOf(Cause(n, T, s, P))
<1> DEFINE r == Rep(n, T, s, P)
           c == Cause(n, T, s, P)
<1>1. F!Navigator(r) = NavigatorOf(c)
  BY NavigatorProbe, Zenon
<1>2. F!WebGL(r) = WebGLOf(c)
  BY WebGLProbe, Zenon
<1>3. /\ F!Canvas(r) = F!Fire(c.canvas, "canvas_seeded_noise", 50)
      /\ F!Audio(r) = F!Fire(c.audio, "audio_seeded_noise", 40)
      /\ F!Hairline(r) = F!Fire(c.hairline, "hairline_non_modernizr_anomaly", 20)
  BY RenderProbes, Zenon
<1>4. /\ F!Codecs(r) = F!Fire(c.codecs, "codec_rare_missing", 20)
      /\ F!ChromeRuntime(r) = ChromeOf(c)
      /\ F!Speech(r) = F!Fire(c.voices, "speech_voices_empty", 15)
  BY AgentProbes, Zenon
<1>5. F!Fonts(r) = F!Fire(c.fonts, "font_os_bundled_missing", 25)
  BY FontProbe, Zenon
<1>6. PageSays(r, c)
  BY PageProbes, Zenon
<1>7. F!DOM(r) = DOMOf(c) /\ F!Runtime(r) = RuntimeOf(c)
  BY ScriptProbes, Zenon
<1> HIDE DEF r, c
<1>8. F!Score(r) = SignalsOf(c)
  BY <1>1, <1>2, <1>3, <1>4, <1>5, <1>6, <1>7, Zenon
     DEF F!Score, SignalsOf, First, Second, Third, PageSays
<1> QED BY <1>8, Zenon DEF r, c

\* A trait adds causes and removes none.
LEMMA TraitsAddCauses ==
  ASSUME NEW n, NEW T, NEW U, T \subseteq U, NEW s, NEW P
  PROVE  \A k \in Keys : Cause(n, T, s, P)[k] => Cause(n, U, s, P)[k]
<1> DEFINE c == Cause(n, T, s, P)
           d == Cause(n, U, s, P)
<1>0. /\ ("platform" \in T => "platform" \in U) /\ ("cores" \in T => "cores" \in U)
      /\ ("webdriver" \in T => "webdriver" \in U) /\ ("plugins" \in T => "plugins" \in U)
      /\ ("vendor" \in T => "vendor" \in U) /\ ("oscpu" \in T => "oscpu" \in U)
      /\ ("gpu" \in T => "gpu" \in U) /\ ("extensions" \in T => "extensions" \in U)
      /\ ("canvas" \in T => "canvas" \in U) /\ ("canvas3" \in T => "canvas3" \in U)
      /\ ("audio" \in T => "audio" \in U) /\ ("fonts" \in T => "fonts" \in U)
      /\ ("height" \in T => "height" \in U) /\ ("connect" \in T => "connect" \in U)
      /\ ("chrome" \in T => "chrome" \in U) /\ ("midi" \in T => "midi" \in U)
      /\ ("ips" \in T => "ips" \in U) /\ ("shadow" \in T => "shadow" \in U)
      /\ ("console" \in T => "console" \in U) /\ ("proxy" \in T => "proxy" \in U)
      /\ ("stack" \in T => "stack" \in U) /\ ("voices" \in T => "voices" \in U)
      /\ ("hairline" \in T => "hairline" \in U)
  BY Zenon
<1>1. /\ (c.platform => d.platform) /\ (c.cores => d.cores) /\ (c.webdriver => d.webdriver)
      /\ (c.plugins => d.plugins)
  BY <1>0, Zenon DEF Cause
<1>2. /\ (c.pluginsFF => d.pluginsFF) /\ (c.vendor => d.vendor) /\ (c.vendorFF => d.vendorFF)
      /\ (c.oscpu => d.oscpu)
  BY <1>0, Zenon DEF Cause
<1>3. /\ (c.gpu => d.gpu) /\ (c.unmasked => d.unmasked) /\ (c.extensions => d.extensions)
      /\ (c.canvas => d.canvas)
  BY <1>0, Zenon DEF Cause
<1>4. /\ (c.audio => d.audio) /\ (c.codecs => d.codecs) /\ (c.fonts => d.fonts)
      /\ (c.height => d.height)
  BY <1>0, Zenon DEF Cause
<1>5. /\ (c.connect => d.connect) /\ (c.chrome => d.chrome) /\ (c.midi => d.midi)
      /\ (c.ips => d.ips)
  BY <1>0, Zenon DEF Cause
<1>6. /\ (c.iframe => d.iframe) /\ (c.shadow => d.shadow) /\ (c.console => d.console)
      /\ (c.proxy => d.proxy)
  BY <1>0, Zenon DEF Cause
<1>7. /\ (c.stack => d.stack) /\ (c.voices => d.voices) /\ (c.worker => d.worker)
      /\ (c.hairline => d.hairline)
  BY <1>0, Zenon DEF Cause
<1> HIDE DEF c, d
<1>8. \A k \in Keys : c[k] => d[k]
  BY <1>1, <1>2, <1>3, <1>4, <1>5, <1>6, <1>7, Zenon DEF Keys
<1> QED BY <1>8, Zenon DEF c, d

\* A collector that throws removes causes, except in the four families whose fallback is one.
Loud == {"runtime", "webgl", "webrtc", "speech"}
LEMMA FailuresRemoveCauses ==
  ASSUME NEW n, NEW T, NEW s, NEW P, NEW Q, P \subseteq Q, Q \cap Loud \subseteq P
  PROVE  \A k \in Keys : Cause(n, T, s, Q)[k] => Cause(n, T, s, P)[k]
<1> DEFINE c == Cause(n, T, s, Q)
           d == Cause(n, T, s, P)
<1>0. /\ ("navigator" \notin Q => "navigator" \notin P) /\ ("webgl" \notin Q => "webgl" \notin P)
      /\ ("canvas" \notin Q => "canvas" \notin P) /\ ("audio" \notin Q => "audio" \notin P)
      /\ ("fonts" \notin Q => "fonts" \notin P) /\ ("window" \notin Q => "window" \notin P)
      /\ ("chrome" \notin Q => "chrome" \notin P)
      /\ ("permissions" \notin Q => "permissions" \notin P)
      /\ ("webrtc" \notin Q => "webrtc" \notin P) /\ ("dom" \notin Q => "dom" \notin P)
      /\ ("runtime" \notin Q => "runtime" \notin P)
      /\ ("serviceWorker" \notin Q => "serviceWorker" \notin P)
      /\ ("hairline" \notin Q => "hairline" \notin P) /\ ("runtime" \in Q => "runtime" \in P)
      /\ ("webgl" \in Q => "webgl" \in P) /\ ("webrtc" \in Q => "webrtc" \in P)
      /\ ("speech" \in Q => "speech" \in P)
  BY Zenon DEF Loud
<1>1. /\ (c.platform => d.platform) /\ (c.cores => d.cores) /\ (c.webdriver => d.webdriver)
      /\ (c.plugins => d.plugins)
  BY <1>0, Zenon DEF Cause
<1>2. /\ (c.pluginsFF => d.pluginsFF) /\ (c.vendor => d.vendor) /\ (c.vendorFF => d.vendorFF)
      /\ (c.oscpu => d.oscpu)
  BY <1>0, Zenon DEF Cause
<1>3. /\ (c.gpu => d.gpu) /\ (c.unmasked => d.unmasked) /\ (c.extensions => d.extensions)
      /\ (c.canvas => d.canvas)
  BY <1>0, Zenon DEF Cause
<1>4. /\ (c.audio => d.audio) /\ (c.codecs => d.codecs) /\ (c.fonts => d.fonts)
      /\ (c.height => d.height)
  BY <1>0, Zenon DEF Cause
<1>5. /\ (c.connect => d.connect) /\ (c.chrome => d.chrome) /\ (c.midi => d.midi)
      /\ (c.ips => d.ips)
  BY <1>0, Zenon DEF Cause
<1>6. /\ (c.iframe => d.iframe) /\ (c.shadow => d.shadow) /\ (c.console => d.console)
      /\ (c.proxy => d.proxy)
  BY <1>0, Zenon DEF Cause
<1>7. /\ (c.stack => d.stack) /\ (c.voices => d.voices) /\ (c.worker => d.worker)
      /\ (c.hairline => d.hairline)
  BY <1>0, Zenon DEF Cause
<1> HIDE DEF c, d
<1>8. \A k \in Keys : c[k] => d[k]
  BY <1>1, <1>2, <1>3, <1>4, <1>5, <1>6, <1>7, Zenon DEF Keys
<1> QED BY <1>8, Zenon DEF c, d

\* The inductive invariant: the signals are those of the causes.
ReportInv == /\ name \in F!Names /\ secure \in BOOLEAN /\ traits \subseteq F!Traits
             /\ signals = SignalsOf(Cause(name, traits, secure, failed))

LEMMA ScoredIsCaused ==
  ASSUME name \in F!Names, secure \in BOOLEAN, NEW T, NEW P, NEW x \in F!Scored(T, P)
  PROVE  x = SignalsOf(Cause(name, T, secure, P))
<1>1. x = F!Score(Rep(name, T, secure, P))
  BY Zenon DEF F!Scored, Rep
<1> QED BY <1>1, ScoreOfCauses, Zenon

LEMMA ReportInit == F!Init => ReportInv
<1> SUFFICES ASSUME F!Init PROVE ReportInv
  OBVIOUS
<1>1. /\ name \in F!Names /\ secure \in BOOLEAN /\ traits = {} /\ failed = {}
      /\ signals \in F!Scored({}, {})
  BY Zenon DEF F!Init
<1>2. signals = SignalsOf(Cause(name, {}, secure, {}))
  BY <1>1, ScoredIsCaused, Zenon
<1> QED BY <1>1, <1>2, Zenon DEF ReportInv

LEMMA ReportStep == ReportInv /\ [F!Patch \/ F!Break]_F!vars => ReportInv'
<1> SUFFICES ASSUME ReportInv, [F!Patch \/ F!Break]_F!vars PROVE ReportInv'
  OBVIOUS
<1> USE DEF ReportInv
<1>1. CASE F!Patch
  <2>1. PICK t \in F!Traits \ traits : /\ traits' = traits \cup {t}
                                       /\ signals' \in F!Scored(traits \cup {t}, failed)
    BY <1>1, Zenon DEF F!Patch
  <2>2. name' = name /\ secure' = secure /\ failed' = failed
    BY <1>1, Zenon DEF F!Patch
  <2>3. signals' = SignalsOf(Cause(name, traits \cup {t}, secure, failed))
    BY <2>1, ScoredIsCaused, Zenon
  <2> QED BY <2>1, <2>2, <2>3, Zenon
<1>2. CASE F!Break
  <2>1. PICK f \in F!Families \ failed : /\ failed' = failed \cup {f}
                                         /\ signals' \in F!Scored(traits, failed \cup {f})
    BY <1>2, Zenon DEF F!Break
  <2>2. name' = name /\ secure' = secure /\ traits' = traits
    BY <1>2, Zenon DEF F!Break
  <2>3. signals' = SignalsOf(Cause(name, traits, secure, failed \cup {f}))
    BY <2>1, ScoredIsCaused, Zenon
  <2> QED BY <2>1, <2>2, <2>3, Zenon
<1>3. CASE UNCHANGED F!vars
  BY <1>3, Zenon DEF F!vars
<1> QED BY <1>1, <1>2, <1>3, Zenon

LEMMA ReportInvariant == F!Spec => []ReportInv
BY ReportInit, ReportStep, PTL DEF F!Spec

LEMMA TraitsGrow ==
  ASSUME ReportInv, ReportInv', F!Patch \/ F!Break, traits' # traits
  PROVE  F!Total(signals') >= F!Total(signals)
<1>1. name' = name /\ secure' = secure /\ failed' = failed /\ traits \subseteq traits'
  BY Zenon DEF F!Patch, F!Break
<1>2. \A k \in Keys : Cause(name, traits, secure, failed)[k]
                      => Cause(name, traits', secure, failed)[k]
  BY <1>1, TraitsAddCauses, Zenon
<1> DEFINE c == Cause(name, traits, secure, failed)
           d == Cause(name, traits', secure, failed)
<1>3. signals = SignalsOf(c) /\ signals' = SignalsOf(d)
  BY <1>1, Zenon DEF ReportInv
<1> HIDE DEF c, d
<1>4. Below(signals, signals')
  <2>1. \A k \in Keys : c[k] => d[k]
    BY <1>2, Zenon DEF c, d
  <2> QED BY <1>3, <2>1, MoreCauses, Zenon
<1> DEFINE a == F!Total(signals)
           b == F!Total(signals')
<1>5. a \in Nat /\ b \in Nat /\ a <= b
  BY <1>4, SigScores, TotalConcat, Zenon DEF Below
<1>6. b >= a
  <2> HIDE DEF a, b
  <2> QED BY <1>5
<1> QED BY <1>6, Zenon

LEMMA FailuresShrink ==
  ASSUME ReportInv, ReportInv', F!Patch \/ F!Break, failed' # failed,
         failed' \cap Loud \subseteq failed
  PROVE  F!Total(signals') <= F!Total(signals)
<1>1. name' = name /\ secure' = secure /\ traits' = traits /\ failed \subseteq failed'
  BY Zenon DEF F!Patch, F!Break
<1> DEFINE c == Cause(name, traits, secure, failed')
           d == Cause(name, traits, secure, failed)
<1>2. \A k \in Keys : c[k] => d[k]
  BY <1>1, FailuresRemoveCauses, Zenon
<1>3. signals = SignalsOf(d) /\ signals' = SignalsOf(c)
  BY <1>1, Zenon DEF ReportInv
<1> HIDE DEF c, d
<1> QED BY <1>2, <1>3, MoreCauses, Zenon DEF Below

\* TraitsNeverHelp, for every number of traits and of failures: the causes of a browser's
\* signals only grow with its traits, and more causes never lower the total HandleVerify sums.
THEOREM Traits == F!Spec => TraitsNeverHelp
<1>1. ReportInv /\ ReportInv' /\ [F!Patch \/ F!Break]_F!vars
      => [traits' # traits => F!Total(signals') >= F!Total(signals)]_F!vars
  BY TraitsGrow, Zenon
<1> QED BY <1>1, ReportInvariant, PTL DEF F!Spec, TraitsNeverHelp, F!TraitsNeverHelp

\* FallbacksAreNeutral, for every number of traits and of failures: what safe() reports for a
\* collector that throws is a cause only in the families of runtime, webgl, webrtc and speech.
THEOREM Fallbacks == F!Spec => FallbacksAreNeutral
<1>1. ReportInv /\ ReportInv' /\ [F!Patch \/ F!Break]_F!vars
      => [failed' # failed /\ failed' \cap {"runtime", "webgl", "webrtc", "speech"} \subseteq failed
          => F!Total(signals') <= F!Total(signals)]_F!vars
  BY FailuresShrink, Zenon DEF Loud
<1> QED BY <1>1, ReportInvariant, PTL DEF F!Spec, FallbacksAreNeutral, F!FallbacksAreNeutral

\* The traits, and the signal that names each one.
LEMMA TraitTable ==
  /\ F!Trait.platform = "nav_platform_ua_mismatch"
  /\ F!Trait.cores = "nav_hardware_concurrency_trap" /\ F!Trait.webdriver = "nav_webdriver_set"
  /\ F!Trait.plugins = "nav_plugins_anomaly" /\ F!Trait.vendor = "nav_vendor_ua_mismatch"
  /\ F!Trait.oscpu = "nav_oscpu_firefox_only" /\ F!Trait.gpu = "webgl_vendor_renderer_impossible"
  /\ F!Trait.extensions = "webgl_extensions_anomaly" /\ F!Trait.canvas = "canvas_seeded_noise"
  /\ F!Trait.canvas3 = "canvas_seeded_noise" /\ F!Trait.audio = "audio_seeded_noise"
  /\ F!Trait.fonts = "font_os_bundled_missing" /\ F!Trait.height = "window_outer_height_85_trap"
  /\ F!Trait.connect = "chrome_runtime_connect_failure"
  /\ F!Trait.chrome = "chrome_present_for_firefox"
  /\ F!Trait.midi = "permissions_midi_inconsistent" /\ F!Trait.ips = "webrtc_no_local_ips"
  /\ F!Trait.shadow = "dom_closed_shadow_root_accessible"
  /\ F!Trait.console = "runtime_console_debug_disabled"
  /\ F!Trait.proxy = "runtime_to_string_proxy"
  /\ F!Trait.stack = "runtime_error_stack_pw_signature" /\ F!Trait.voices = "speech_voices_empty"
  /\ F!Trait.hairline = "hairline_non_modernizr_anomaly"
BY Zenon DEF F!Trait

LEMMA TraitNames ==
  F!Traits = {"platform", "cores", "webdriver", "plugins", "vendor", "oscpu", "gpu",
              "extensions", "canvas", "canvas3", "audio", "fonts", "height", "connect",
              "chrome", "midi", "ips", "shadow", "console", "proxy", "stack", "voices",
              "hairline"}
BY Zenon DEF F!Traits, F!Trait

\* No trait is named by a signal that clean browsers raise, except the platform's.
LEMMA TraitsAreNotClean ==
  ASSUME NEW t \in F!Traits
  PROVE  /\ F!Trait[t] \notin {"dom_iframe_contentwindow_anomaly", "sw_register_noop",
                               "codec_rare_missing"}
         /\ F!Trait[t] = "nav_platform_ua_mismatch" => t = "platform"
<1>1. CASE t \in {"platform", "cores", "webdriver", "plugins", "vendor", "oscpu"}
  BY <1>1, TraitTable, Zenon
<1>2. CASE t \in {"gpu", "extensions", "canvas", "canvas3", "audio", "fonts"}
  BY <1>2, TraitTable, Zenon
<1>3. CASE t \in {"height", "connect", "chrome", "midi", "ips", "shadow"}
  BY <1>3, TraitTable, Zenon
<1>4. CASE t \in {"console", "proxy", "stack", "voices", "hairline"}
  BY <1>4, TraitTable, Zenon
<1> QED BY <1>1, <1>2, <1>3, <1>4, TraitNames, Zenon

\* Without failures, a cause is a trait, or what a clean browser shows.
Explained(k, n, T, s) ==
  \/ \E t \in T : SignalOf[k] = F!Trait[t]
  \/ k = "platform" /\ n = "safari ios" /\ "platform" \notin T
  \/ k = "fonts" /\ "platform" \in T
  \/ k = "codecs" /\ n \in Chromes \cup Safaris
  \/ k = "iframe"
  \/ k = "worker" /\ s
LEMMA CausesExplained ==
  ASSUME NEW n, NEW T, NEW s, NEW k \in Keys, Cause(n, T, s, {})[k]
  PROVE  Explained(k, n, T, s)
<1> DEFINE c == Cause(n, T, s, {})
<1>0. \A f : f \notin {}
  OBVIOUS
<1>1. /\ c.platform => ("platform" \in T \/ n = "safari ios")
      /\ c.canvas => ("canvas" \in T \/ "canvas3" \in T)
      /\ c.fonts => ("fonts" \in T \/ "platform" \in T)
      /\ c.codecs => n \in Chromes \cup Safaris
      /\ (c.worker => s) /\ ~c.unmasked
  BY Zenon DEF Cause
<1>2. /\ (c.cores => "cores" \in T) /\ (c.webdriver => "webdriver" \in T)
      /\ (c.plugins => "plugins" \in T) /\ (c.pluginsFF => "plugins" \in T)
      /\ (c.vendor => "vendor" \in T) /\ (c.vendorFF => "vendor" \in T)
  BY Zenon DEF Cause
<1>3. /\ (c.oscpu => "oscpu" \in T) /\ (c.gpu => "gpu" \in T)
      /\ (c.extensions => "extensions" \in T) /\ (c.audio => "audio" \in T)
      /\ (c.height => "height" \in T) /\ (c.connect => "connect" \in T)
  BY Zenon DEF Cause
<1>4. /\ (c.chrome => "chrome" \in T) /\ (c.midi => "midi" \in T) /\ (c.ips => "ips" \in T)
      /\ (c.shadow => "shadow" \in T) /\ (c.console => "console" \in T)
      /\ (c.proxy => "proxy" \in T)
  BY Zenon DEF Cause
<1>5. /\ (c.stack => "stack" \in T) /\ (c.voices => "voices" \in T)
      /\ (c.hairline => "hairline" \in T)
  BY Zenon DEF Cause
<1> HIDE DEF c
<1>6. c[k]
  BY Zenon DEF c
<1> DEFINE E(j) == \E t \in T : SignalOf[j] = F!Trait[t]
<1>7. /\ (c.cores => E("cores")) /\ (c.webdriver => E("webdriver")) /\ (c.plugins => E("plugins"))
      /\ (c.pluginsFF => E("pluginsFF")) /\ (c.vendor => E("vendor"))
      /\ (c.vendorFF => E("vendorFF"))
  <2>1. /\ SignalOf["cores"] = F!Trait["cores"] /\ SignalOf["webdriver"] = F!Trait["webdriver"]
        /\ SignalOf["plugins"] = F!Trait["plugins"] /\ SignalOf["pluginsFF"] = F!Trait["plugins"]
        /\ SignalOf["vendor"] = F!Trait["vendor"] /\ SignalOf["vendorFF"] = F!Trait["vendor"]
    BY Zenon DEF SignalOf, F!Trait
  <2> QED BY <1>2, <2>1, Zenon
<1>8. /\ (c.oscpu => E("oscpu")) /\ (c.gpu => E("gpu")) /\ (c.extensions => E("extensions"))
      /\ (c.audio => E("audio")) /\ (c.height => E("height")) /\ (c.connect => E("connect"))
  <2>1. /\ SignalOf["oscpu"] = F!Trait["oscpu"] /\ SignalOf["gpu"] = F!Trait["gpu"]
        /\ SignalOf["extensions"] = F!Trait["extensions"] /\ SignalOf["audio"] = F!Trait["audio"]
        /\ SignalOf["height"] = F!Trait["height"] /\ SignalOf["connect"] = F!Trait["connect"]
    BY Zenon DEF SignalOf, F!Trait
  <2> QED BY <1>3, <2>1, Zenon
<1>9. /\ (c.chrome => E("chrome")) /\ (c.midi => E("midi")) /\ (c.ips => E("ips"))
      /\ (c.shadow => E("shadow")) /\ (c.console => E("console")) /\ (c.proxy => E("proxy"))
  <2>1. /\ SignalOf["chrome"] = F!Trait["chrome"] /\ SignalOf["midi"] = F!Trait["midi"]
        /\ SignalOf["ips"] = F!Trait["ips"] /\ SignalOf["shadow"] = F!Trait["shadow"]
        /\ SignalOf["console"] = F!Trait["console"] /\ SignalOf["proxy"] = F!Trait["proxy"]
    BY Zenon DEF SignalOf, F!Trait
  <2> QED BY <1>4, <2>1, Zenon
<1>10. /\ (c.stack => E("stack")) /\ (c.voices => E("voices")) /\ (c.hairline => E("hairline"))
  <2>1. /\ SignalOf["stack"] = F!Trait["stack"] /\ SignalOf["voices"] = F!Trait["voices"]
        /\ SignalOf["hairline"] = F!Trait["hairline"]
    BY Zenon DEF SignalOf, F!Trait
  <2> QED BY <1>5, <2>1, Zenon
<1>11. /\ c.platform => E("platform") \/ (n = "safari ios" /\ "platform" \notin T)
       /\ c.canvas => E("canvas")
       /\ c.fonts => E("fonts") \/ "platform" \in T
  <2>1. SignalOf["platform"] = F!Trait["platform"] /\ SignalOf["fonts"] = F!Trait["fonts"]
    BY Zenon DEF SignalOf, F!Trait
  <2>2. SignalOf["canvas"] = F!Trait["canvas"] /\ SignalOf["canvas"] = F!Trait["canvas3"]
    BY Zenon DEF SignalOf, F!Trait
  <2> QED BY <1>1, <2>1, <2>2, Zenon
<1> HIDE DEF E
<1>12. E(k) => Explained(k, n, T, s)
  BY Zenon DEF E, Explained
<1>13. CASE k \in {"cores", "webdriver", "plugins", "pluginsFF", "vendor", "vendorFF"}
  BY <1>7, <1>6, <1>12, <1>13, Zenon
<1>14. CASE k \in {"oscpu", "gpu", "extensions", "audio", "height", "connect"}
  BY <1>8, <1>6, <1>12, <1>14, Zenon
<1>15. CASE k \in {"chrome", "midi", "ips", "shadow", "console", "proxy"}
  BY <1>9, <1>6, <1>12, <1>15, Zenon
<1>16. CASE k \in {"stack", "voices", "hairline"}
  BY <1>10, <1>6, <1>12, <1>16, Zenon
<1>17. CASE k = "platform"
  <2>1. E(k) \/ (n = "safari ios" /\ "platform" \notin T)
    BY <1>11, <1>6, <1>17, Zenon
  <2> QED BY <1>12, <1>17, <2>1, Zenon DEF Explained
<1>18. CASE k = "canvas"
  <2>1. E(k)
    BY <1>11, <1>6, <1>18, Zenon
  <2> QED BY <1>12, <1>18, <2>1, Zenon DEF Explained
<1>19. CASE k = "fonts"
  <2>1. E(k) \/ "platform" \in T
    BY <1>11, <1>6, <1>19, Zenon
  <2> QED BY <1>12, <1>19, <2>1, Zenon DEF Explained
<1>20. CASE k \in {"codecs", "iframe", "worker", "unmasked"}
  BY <1>1, <1>6, <1>20, Zenon DEF Explained
<1> QED BY <1>13, <1>14, <1>15, <1>16, <1>17, <1>18, <1>19, <1>20, Zenon DEF Keys

LEMMA CleanCauses ==
  ASSUME NEW n, NEW T, NEW s
  PROVE  LET c == Cause(n, T, s, {})
         IN  /\ c.iframe /\ (c.worker <=> s) /\ (c.codecs <=> n \in Chromes \cup Safaris)
             /\ n = "safari ios" => c.platform
BY Zenon DEF Cause

LEMMA SignalsCaused ==
  ASSUME ReportInv, failed = {}
  PROVE  F!SignalsNameTheirCause
<1> DEFINE c == Cause(name, traits, secure, {})
           A == {F!Trait[t] : t \in traits}
           B == IF "platform" \in traits THEN {"font_os_bundled_missing"} ELSE {}
           R1 == {"dom_iframe_contentwindow_anomaly"}
           R2 == IF secure THEN {"sw_register_noop"} ELSE {}
           R3 == IF name \in {"chrome linux", "chrome mac", "safari mac", "safari ios"}
                 THEN {"codec_rare_missing"} ELSE {}
           R4 == IF name = "safari ios" /\ "platform" \notin traits
                 THEN {"nav_platform_ua_mismatch"} ELSE {}
<1>1. name \in F!Names /\ secure \in BOOLEAN /\ traits \subseteq F!Traits /\ signals = SignalsOf(c)
  BY Zenon DEF ReportInv
<1>2. F!Fired = Names(signals)
  BY Zenon DEF F!Fired, Names
<1>3. \A e : e \in F!Fired <=> \E k \in Keys : c[k] /\ e = SignalOf[k]
  <2> HIDE DEF c
  <2>1. \A e : e \in Names(SignalsOf(c)) <=> \E k \in Keys : c[k] /\ e = SignalOf[k]
    BY CausesShow, Zenon
  <2>2. F!Fired = Names(SignalsOf(c))
    BY <1>1, <1>2, Zenon
  <2> QED BY <2>1, <2>2, Zenon
<1>4. Chromes \cup Safaris = {"chrome linux", "chrome mac", "safari mac", "safari ios"}
  BY Zenon DEF Chromes, Safaris
<1>5. ASSUME NEW e, e \in F!Fired, e \notin A \cup B
      PROVE  e \in ((R1 \cup R2) \cup R3) \cup R4
  <2>1. PICK k \in Keys : c[k] /\ e = SignalOf[k]
    BY <1>3, <1>5, Zenon
  <2>2. Explained(k, name, traits, secure)
    BY <2>1, CausesExplained, Zenon
  <2>3. ~ \E t \in traits : SignalOf[k] = F!Trait[t]
    BY <1>5, <2>1, Zenon
  <2>4. CASE k = "platform" /\ name = "safari ios" /\ "platform" \notin traits
    BY <2>1, <2>4, SignalTable, Zenon
  <2>5. CASE k = "fonts" /\ "platform" \in traits
    BY <1>5, <2>1, <2>5, SignalTable, Zenon
  <2>6. CASE k = "codecs" /\ name \in Chromes \cup Safaris
    BY <1>4, <2>1, <2>6, SignalTable, Zenon
  <2>7. CASE k = "iframe"
    BY <2>1, <2>7, SignalTable, Zenon
  <2>8. CASE k = "worker" /\ secure
    BY <2>1, <2>8, SignalTable, Zenon
  <2> QED BY <2>2, <2>3, <2>4, <2>5, <2>6, <2>7, <2>8, Zenon DEF Explained
<1>6. ASSUME NEW e, e \in ((R1 \cup R2) \cup R3) \cup R4
      PROVE  e \in F!Fired /\ e \notin A \cup B
  <2>0. /\ c.iframe /\ (c.worker <=> secure) /\ (c.codecs <=> name \in Chromes \cup Safaris)
        /\ name = "safari ios" => c.platform
    BY CleanCauses, Zenon
  <2> HIDE DEF c
  <2>1. \/ e = "dom_iframe_contentwindow_anomaly"
        \/ e = "sw_register_noop" /\ secure
        \/ e = "codec_rare_missing" /\ name \in Chromes \cup Safaris
        \/ e = "nav_platform_ua_mismatch" /\ name = "safari ios" /\ "platform" \notin traits
    BY <1>4, <1>6, Zenon
  <2>2. \E k \in Keys : c[k] /\ e = SignalOf[k]
    <3>1. CASE e = "dom_iframe_contentwindow_anomaly"
      BY <2>0, <3>1, KeyTable, SignalTable, Zenon
    <3>2. CASE e = "sw_register_noop" /\ secure
      BY <2>0, <3>2, KeyTable, SignalTable, Zenon
    <3>3. CASE e = "codec_rare_missing" /\ name \in Chromes \cup Safaris
      BY <2>0, <3>3, KeyTable, SignalTable, Zenon
    <3>4. CASE e = "nav_platform_ua_mismatch" /\ name = "safari ios"
      BY <2>0, <3>4, KeyTable, SignalTable, Zenon
    <3> QED BY <2>1, <3>1, <3>2, <3>3, <3>4, Zenon
  <2>3. e \notin A
    <3>1. SUFFICES ASSUME NEW t \in traits, e = F!Trait[t] PROVE FALSE
      BY Zenon
    <3>2. t \in F!Traits
      BY <1>1, Zenon
    <3> QED BY <2>1, <3>1, <3>2, TraitsAreNotClean, Zenon
  <2>4. e \notin B
    BY <2>1, Zenon
  <2> QED BY <1>3, <2>2, <2>3, <2>4, Zenon
<1>7. F!Fired \ (A \cup B) = ((R1 \cup R2) \cup R3) \cup R4
  <2> HIDE DEF A, B, R1, R2, R3, R4
  <2> QED BY <1>5, <1>6, Zenon
<1> QED BY <1>7, Zenon DEF F!SignalsNameTheirCause

\* SignalsNameTheirCause, for every number of traits: the signals of a browser whose collectors
\* all answer name the traits it has, and the four that clean browsers raise.
THEOREM Causes == F!Spec => []SignalsNameTheirCause
<1>1. ReportInv => SignalsNameTheirCause
  <2>1. failed # {} => F!SignalsNameTheirCause
    BY Zenon DEF F!SignalsNameTheirCause
  <2> QED BY <2>1, SignalsCaused, Zenon DEF SignalsNameTheirCause
<1> QED BY <1>1, ReportInvariant, PTL
=============================================================================
