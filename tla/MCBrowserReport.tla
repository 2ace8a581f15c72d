-------------------------- MODULE MCBrowserReport --------------------------
(* The fingerprint reports of MCFingerprint beside other components.       *)
CONSTANTS MaxTraits, MaxFailed
VARIABLES name, secure, traits, failed, signals
F == INSTANCE MCFingerprint

\* Every signal names a trait the browser has, four false positives of clean
\* browsers apart (the probes of signal/fingerprint on what the page's collectors
\* send; see MCFingerprint).
SignalsNameTheirCause == F!SignalsNameTheirCause

\* One more automation trait never lowers a report's total (HandleVerify's sum).
TraitsNeverHelp == F!TraitsNeverHelp

\* A collector that throws makes a browser look worse in four families only (the
\* fallbacks of fingerprint/index.ts).
FallbacksAreNeutral == F!FallbacksAreNeutral
=============================================================================
