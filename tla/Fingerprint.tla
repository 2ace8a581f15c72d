---------------------------- MODULE Fingerprint ----------------------------
(* The challenge page's fingerprint collectors and the server's probes,    *)
(* end to end: what a browser's APIs return (the record b), the report the *)
(* collectors make of it, and the signals the probes make of the report. A *)
(* user agent or a platform is the set of the substrings the code looks    *)
(* for in it; a list of names, the set of the names that matter.           *)
EXTENDS Integers, Sequences, FiniteSets, Functions

Has(s, markers) == s \cap markers # {}

\* The user agent's browser. Firefox is tested first, then the Chromium
\* browsers that are not Chrome; the mutant forgets the latter.
IsFirefoxUA(ua) == Has(ua, {"firefox/", "fxios/"})
IsChromeUAOrEdge(ua) == ~IsFirefoxUA(ua) /\ Has(ua, {"chrome/", "chromium/", "crios/"})
IsChromeUA(ua) == /\ ~IsFirefoxUA(ua) /\ ~Has(ua, {"edg/", "opr/"})
                  /\ Has(ua, {"chrome/", "chromium/", "crios/"})
IsSafariUA(ua) == {"safari/", "version/"} \subseteq ua /\ ~IsChromeUA(ua) /\ ~IsFirefoxUA(ua)

\* The operating system in a user agent and in a platform; "" is unknown.
OsFromUA(ua) == IF Has(ua, {"windows nt"}) THEN "windows"
                ELSE IF Has(ua, {"linux", "x11"}) THEN "linux"
                ELSE IF Has(ua, {"mac os x", "macintosh"}) THEN "mac"
                ELSE IF Has(ua, {"iphone", "ipad"}) THEN "ios" ELSE ""
OsFromPlatform(p) == CASE p = "win" -> "windows" [] p = "linux" -> "linux"
                       [] p = "mac" -> "mac" [] p = "iphone" -> "ios" [] OTHER -> ""
-----------------------------------------------------------------------------
(* The collectors of web/challenge/src/fingerprint.                        *)

CollectNavigator(b) == [ua |-> b.ua, platform |-> b.platform, vendor |-> b.vendor,
                        cores |-> b.cores, webdriver |-> b.webdriver,
                        plugins |-> b.plugins, oscpu |-> b.oscpu]

\* Three renders of the same picture or sound; noise makes them differ.
UniqueCount(hashes) == Cardinality(Range(hashes))
CollectCanvas(b) == UniqueCount(b.canvas)
CollectAudio(b) == UniqueCount(b.audio)

\* osFamily, and the bundled fonts of that family that were not detected.
OsFamily(b) == IF b.platform = "mac" \/ Has(b.ua, {"mac os x"}) THEN "mac"
               ELSE IF b.platform = "win" \/ Has(b.ua, {"windows nt"}) THEN "windows"
               ELSE IF b.platform = "linux" \/ Has(b.ua, {"linux", "x11"}) THEN "linux" ELSE ""
CollectFonts(b) == {OsFamily(b)} \ ({""} \cup b.fonts)

EmptyWebGL == [vendor |-> {}, renderer |-> {},
               extensions |-> [count |-> 0, debugInfo |-> FALSE, textureFloat |-> FALSE]]
CollectWebGL(b) ==
  IF ~b.gl THEN EmptyWebGL
  ELSE [vendor |-> b.gpuVendor, renderer |-> b.gpuRenderer, extensions |-> b.extensions]

\* A connection that fails leaves its error message; no runtime leaves none.
CollectChrome(b) == [present |-> b.chrome,
                     error |-> IF b.connect \in {"none", "ok"} THEN "" ELSE b.connect]

CollectCodecs(b) == [c \in {"hevc", "av1.0.04M.08", "dvhe.05.06"} |-> c \in b.plays]

\* iframeIdentityProbe: two reads of contentWindow give the same window, which is
\* its own self. closedShadowRootProbe: the closed root shows.
CollectDOM(b) == [iframe |-> b.contentWindow = "window", shadow |-> b.shadow]

CollectServiceWorker(b) ==
  IF b.worker = "registers" THEN [registered |-> TRUE, controller |-> b.controlled, error |-> ""]
  ELSE [registered |-> FALSE, error |-> b.worker,
        controller |-> b.worker \notin {"unsupported", "insecure_context"} /\ b.controlled]

\* The host candidates seen, and the voices listed, before the time-out.
CollectWebRTC(b) == IF b.rtc THEN b.ips ELSE {}
CollectSpeech(b) == IF b.voicesLate THEN {} ELSE b.voices

CollectWindow(b) == [outer |-> b.outer, inner |-> b.inner]
CollectPermissions(b) == [notifications |-> b.notifications, midi |-> b.midi]
CollectRuntime(b) == [native |-> b.native, arity |-> b.arity, signature |-> b.signature]
CollectHairline(b) == b.hairline

Families == {"navigator", "webgl", "canvas", "audio", "codecs", "fonts", "window", "chrome",
             "permissions", "webrtc", "dom", "runtime", "speech", "serviceWorker", "hairline"}

Collected(b) ==
  [navigator |-> CollectNavigator(b), webgl |-> CollectWebGL(b), canvas |-> CollectCanvas(b),
   audio |-> CollectAudio(b), codecs |-> CollectCodecs(b), fonts |-> CollectFonts(b),
   window |-> CollectWindow(b), chrome |-> CollectChrome(b),
   permissions |-> CollectPermissions(b), webrtc |-> CollectWebRTC(b), dom |-> CollectDOM(b),
   runtime |-> CollectRuntime(b), speech |-> CollectSpeech(b),
   serviceWorker |-> CollectServiceWorker(b), hairline |-> CollectHairline(b)]

\* What "safe" reports for a collector that throws. The mutant takes a worker
\* that could not be tried for one that was registered.
EmptyServiceWorkerDone == [registered |-> TRUE, controller |-> FALSE, error |-> "unsupported"]
EmptyServiceWorker == [registered |-> FALSE, controller |-> FALSE, error |-> "unsupported"]
Fallback ==
  [navigator |-> [ua |-> {}, platform |-> "", vendor |-> "", cores |-> 0,
                  webdriver |-> FALSE, plugins |-> {}, oscpu |-> FALSE],
   webgl |-> EmptyWebGL, canvas |-> 0, audio |-> 0,
   codecs |-> [c \in {} |-> FALSE], fonts |-> {}, window |-> [outer |-> 0, inner |-> 0],
   chrome |-> [present |-> FALSE, error |-> ""],
   permissions |-> [notifications |-> "unsupported", midi |-> "unsupported"],
   webrtc |-> {}, dom |-> [iframe |-> FALSE, shadow |-> FALSE],
   runtime |-> [native |-> FALSE, arity |-> 0, signature |-> FALSE], speech |-> {},
   serviceWorker |-> EmptyServiceWorker, hairline |-> 0]

\* collectFingerprintReport, with the collectors in failed throwing.
Report(b, failed) ==
  LET collected == Collected(b)
  IN  [f \in Families |-> IF f \in failed THEN Fallback[f] ELSE collected[f]]
-----------------------------------------------------------------------------
(* The probes of internal/signal/fingerprint/probes.                       *)

Fire(condition, name, score) == IF condition THEN <<[name |-> name, score |-> score]>> ELSE <<>>

HasCanonicalChromePlugins(p) ==
  /\ "PDF Viewer" \in p
  /\ Has(p, {"Chrome PDF Viewer", "Chromium PDF Viewer"})
  /\ "Native Client" \in p \/ {"Chrome PDF Viewer", "Chromium PDF Viewer"} \subseteq p

Navigator(r) ==
  LET nav == r.navigator
      uaOS == OsFromUA(nav.ua)
      platformOS == OsFromPlatform(nav.platform)
  IN  Fire(uaOS # "" /\ platformOS # "" /\ uaOS # platformOS, "nav_platform_ua_mismatch", 50)
      \o Fire(nav.cores = 4, "nav_hardware_concurrency_trap", 30)
      \o Fire(nav.webdriver, "nav_webdriver_set", 60)
      \o Fire(IsChromeUA(nav.ua) /\ ~HasCanonicalChromePlugins(nav.plugins),
              "nav_plugins_anomaly", 20)
      \o Fire(IsFirefoxUA(nav.ua) /\ nav.plugins # {}, "nav_plugins_anomaly", 20)
      \o Fire(IsChromeUA(nav.ua) /\ nav.vendor # "Google Inc.", "nav_vendor_ua_mismatch", 25)
      \o Fire(IsFirefoxUA(nav.ua) /\ nav.vendor # "", "nav_vendor_ua_mismatch", 25)
      \o Fire(~IsFirefoxUA(nav.ua) /\ nav.oscpu, "nav_oscpu_firefox_only", 15)

\* The extension list is too short, or a known fake one.
WebGLExtensionsAnomalous(e) == e.count < 10 \/ (e.count <= 12 /\ e.debugInfo /\ ~e.textureFloat)
WebGL(r) ==
  LET gl == r.webgl
  IN  Fire("intel" \in gl.vendor /\ "apple gpu" \in gl.renderer,
           "webgl_vendor_renderer_impossible", 40)
      \o Fire(gl.vendor = {} \/ gl.renderer = {}, "webgl_unmasked_missing", 20)
      \o Fire(WebGLExtensionsAnomalous(gl.extensions), "webgl_extensions_anomaly", 15)

\* Two distinct renders are enough; the mutant wants exactly two.
CanvasExactly(r) == Fire(r.canvas = 2, "canvas_seeded_noise", 50)
Canvas(r) == Fire(r.canvas >= 2, "canvas_seeded_noise", 50)
Audio(r) == Fire(r.audio >= 2, "audio_seeded_noise", 40)

\* Rare["hevc"] and Rare["av1_p1"]; a name that is not in the map reads as "".
Supported(r, codec) == codec \in DOMAIN r.codecs /\ r.codecs[codec]
Codecs(r) == Fire((IsChromeUA(r.navigator.ua) \/ IsSafariUA(r.navigator.ua))
                  /\ ~(Supported(r, "hevc") /\ Supported(r, "av1_p1")),
                  "codec_rare_missing", 20)
Fonts(r) == Fire(r.fonts # {}, "font_os_bundled_missing", 25)
Window(r) == Fire(r.window.outer - r.window.inner = 85, "window_outer_height_85_trap", 50)
ChromeRuntime(r) ==
  Fire(IsChromeUA(r.navigator.ua) /\ r.chrome.error = "mock", "chrome_runtime_connect_failure", 40)
  \o Fire(IsFirefoxUA(r.navigator.ua) /\ r.chrome.present, "chrome_present_for_firefox", 60)
Permissions(r) == Fire(r.permissions.notifications = "granted"
                       /\ r.permissions.midi \in {"denied", "prompt"},
                       "permissions_midi_inconsistent", 35)
WebRTC(r) == Fire(r.webrtc = {}, "webrtc_no_local_ips", 15)
DOM(r) == Fire(r.dom.iframe, "dom_iframe_contentwindow_anomaly", 40)
          \o Fire(r.dom.shadow, "dom_closed_shadow_root_accessible", 50)
Runtime(r) == Fire(r.runtime.arity = 0, "runtime_console_debug_disabled", 60)
              \o Fire(~r.runtime.native, "runtime_to_string_proxy", 35)
              \o Fire(r.runtime.signature, "runtime_error_stack_pw_signature", 70)
Speech(r) == Fire((IsChromeUA(r.navigator.ua) \/ IsFirefoxUA(r.navigator.ua)
                   \/ IsSafariUA(r.navigator.ua)) /\ r.speech = {}, "speech_voices_empty", 15)
ServiceWorker(r) == Fire(\/ r.serviceWorker.registered /\ ~r.serviceWorker.controller
                         \/ r.serviceWorker.error = "no-op", "sw_register_noop", 45)
Hairline(r) == Fire(r.hairline > 0, "hairline_non_modernizr_anomaly", 20)

\* fingerprint.Score, and the total HandleVerify makes of it.
Score(r) == Navigator(r) \o WebGL(r) \o Canvas(r) \o Audio(r) \o Codecs(r) \o Fonts(r)
            \o Window(r) \o ChromeRuntime(r) \o Permissions(r) \o WebRTC(r) \o DOM(r)
            \o Runtime(r) \o Speech(r) \o ServiceWorker(r) \o Hairline(r)
Total(signals) ==
  LET sum[i \in 0..Len(signals)] == IF i = 0 THEN 0 ELSE sum[i - 1] + signals[i].score
  IN  sum[Len(signals)]
=============================================================================
