--------------------------- MODULE MCFingerprint ---------------------------
(* Browsers as the clean profiles of testdata/fingerprint describe them,   *)
(* and an iPhone, that take on traits of automation tools one at a time,   *)
(* while some of the page's collectors throw. The scores of every such     *)
(* browser are those of collectors and probes end to end.                  *)
EXTENDS Fingerprint

CONSTANTS MaxTraits, MaxFailed

Names == {"chrome linux", "chrome mac", "edge windows", "firefox linux", "safari mac", "safari ios"}
UA(n) == CASE n = "chrome linux"  -> {"chrome/", "safari/", "linux", "x11"}
           [] n = "chrome mac"    -> {"chrome/", "safari/", "mac os x", "macintosh"}
           [] n = "edge windows"  -> {"chrome/", "safari/", "edg/", "windows nt"}
           [] n = "firefox linux" -> {"firefox/", "linux", "x11"}
           [] n = "safari mac"    -> {"safari/", "version/", "mac os x", "macintosh"}
           [] n = "safari ios"    -> {"safari/", "version/", "iphone", "mac os x"}
Platform(n) == CASE n \in {"chrome linux", "firefox linux"} -> "linux"
                 [] n \in {"chrome mac", "safari mac"} -> "mac"
                 [] n = "edge windows" -> "win" [] n = "safari ios" -> "iphone"
Chromium(n) == n \in {"chrome linux", "chrome mac", "edge windows"}
Firefox(n) == n = "firefox linux"

\* Each trait of a tool, and the signal that names it.
Trait == [platform |-> "nav_platform_ua_mismatch", cores |-> "nav_hardware_concurrency_trap",
          webdriver |-> "nav_webdriver_set", plugins |-> "nav_plugins_anomaly",
          vendor |-> "nav_vendor_ua_mismatch", oscpu |-> "nav_oscpu_firefox_only",
          gpu |-> "webgl_vendor_renderer_impossible", extensions |-> "webgl_extensions_anomaly",
          canvas |-> "canvas_seeded_noise", canvas3 |-> "canvas_seeded_noise",
          audio |-> "audio_seeded_noise", fonts |-> "font_os_bundled_missing",
          height |-> "window_outer_height_85_trap", connect |-> "chrome_runtime_connect_failure",
          chrome |-> "chrome_present_for_firefox", midi |-> "permissions_midi_inconsistent",
          ips |-> "webrtc_no_local_ips", shadow |-> "dom_closed_shadow_root_accessible",
          console |-> "runtime_console_debug_disabled", proxy |-> "runtime_to_string_proxy",
          stack |-> "runtime_error_stack_pw_signature", voices |-> "speech_voices_empty",
          hairline |-> "hairline_non_modernizr_anomaly"]
Traits == DOMAIN Trait

\* What the APIs of browser n return once it has the traits T. No page has a
\* controller: HandleSW's worker claims no clients, and the collector
\* unregisters it before the next page is loaded.
Browser(n, T, secure) ==
  LET canonical == {"PDF Viewer", "Chrome PDF Viewer", "Chromium PDF Viewer"}
  IN  [ua |-> UA(n), platform |-> IF "platform" \notin T THEN Platform(n)
                                  ELSE IF Platform(n) = "win" THEN "linux" ELSE "win",
       vendor |-> IF "vendor" \in T THEN "Spoof" ELSE IF Chromium(n) THEN "Google Inc."
                  ELSE IF Firefox(n) THEN "" ELSE "Apple Computer, Inc.",
       cores |-> IF "cores" \in T THEN 4 ELSE 8, webdriver |-> "webdriver" \in T,
       plugins |-> IF Chromium(n) # ("plugins" \in T) THEN canonical ELSE {},
       oscpu |-> Firefox(n) \/ "oscpu" \in T,
       gl |-> TRUE, gpuVendor |-> IF "gpu" \in T THEN {"intel"} ELSE {"google"},
       gpuRenderer |-> IF "gpu" \in T THEN {"apple gpu"} ELSE {"angle"},
       extensions |-> [count |-> IF "extensions" \in T THEN 11 ELSE 28, debugInfo |-> TRUE,
                       textureFloat |-> "extensions" \notin T],
       canvas |-> IF "canvas3" \in T THEN <<1, 2, 3>> ELSE IF "canvas" \in T THEN <<1, 2, 1>>
                  ELSE <<1, 1, 1>>,
       audio |-> IF "audio" \in T THEN <<1, 2, 1>> ELSE <<1, 1, 1>>,
       plays |-> IF Firefox(n) THEN {"av1.0.04M.08"} ELSE {"hevc", "av1.0.04M.08"},
       fonts |-> IF "fonts" \in T THEN {} ELSE {OsFamily([ua |-> UA(n), platform |-> Platform(n)])},
       inner |-> 720, outer |-> IF "height" \in T THEN 805 ELSE 768,
       chrome |-> Chromium(n) \/ "chrome" \in T,
       connect |-> IF "connect" \in T THEN "mock" ELSE IF Chromium(n) THEN "real" ELSE "none",
       notifications |-> IF "midi" \in T THEN "granted" ELSE "default", midi |-> "prompt",
       rtc |-> TRUE, ips |-> IF "ips" \in T THEN {} ELSE {"192.168.1.42"},
       contentWindow |-> "window", shadow |-> "shadow" \in T,
       native |-> "proxy" \notin T, arity |-> IF "console" \in T THEN 0 ELSE 1,
       signature |-> "stack" \in T,
       voicesLate |-> "voices" \in T, voices |-> {"default"},
       worker |-> IF secure THEN "registers" ELSE "insecure_context", controlled |-> FALSE,
       hairline |-> IF "hairline" \in T THEN 1 ELSE 0]

VARIABLES name, secure, traits, failed, signals
vars == <<name, secure, traits, failed, signals>>

\* The signals of the report that a browser with traits T posts when the
\* collectors in F throw.
Scored(T, F) == {Score(r) : r \in {Report(Browser(name, T, secure), F)}}

Init == /\ name \in Names /\ secure \in BOOLEAN /\ traits = {} /\ failed = {}
        /\ signals \in Scored({}, {})
Patch == /\ Cardinality(traits) < MaxTraits
         /\ \E t \in Traits \ traits : /\ traits' = traits \cup {t}
                                       /\ signals' \in Scored(traits \cup {t}, failed)
         /\ UNCHANGED <<name, secure, failed>>
Break == /\ Cardinality(failed) < MaxFailed
         /\ \E f \in Families \ failed : /\ failed' = failed \cup {f}
                                         /\ signals' \in Scored(traits, failed \cup {f})
         /\ UNCHANGED <<name, secure, traits>>
Spec == Init /\ [][Patch \/ Break]_vars

Fired == {signals[i].name : i \in DOMAIN signals}
-----------------------------------------------------------------------------
\* Without failures, every signal names a trait the browser has (a spoofed
\* platform may also change the family whose fonts are missed), except four that
\* the collectors and probes raise on clean browsers: the identity of an iframe's
\* window, the rare codecs of Chrome and Safari, the controller of a worker that
\* was just registered, and an iPhone's platform.
SignalsNameTheirCause ==
  failed = {} =>
    Fired \ ({Trait[t] : t \in traits} \cup
             (IF "platform" \in traits THEN {"font_os_bundled_missing"} ELSE {}))
      = {"dom_iframe_contentwindow_anomaly"}
        \cup (IF secure THEN {"sw_register_noop"} ELSE {})
        \cup (IF name \in {"chrome linux", "chrome mac", "safari mac", "safari ios"}
              THEN {"codec_rare_missing"} ELSE {})
        \cup (IF name = "safari ios" /\ "platform" \notin traits
              THEN {"nav_platform_ua_mismatch"} ELSE {})

\* One more trait of a tool never lowers the total of a browser, whatever other
\* traits it has and whichever collectors throw.
TraitsNeverHelp ==
  [][traits' # traits => Total(signals') >= Total(signals)]_vars

\* A collector that throws makes a browser look worse only in the four families
\* whose fallback is itself a signal: runtime, webgl, webrtc and speech.
FallbacksAreNeutral ==
  [][failed' # failed /\ failed' \cap {"runtime", "webgl", "webrtc", "speech"} \subseteq failed
     => Total(signals') <= Total(signals)]_vars

\* testdata/README.md: a clean browser's report scores below 20.
CleanBrowsersScoreLow == traits = {} /\ failed = {} => Total(signals) < 20
=============================================================================
