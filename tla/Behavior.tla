------------------------------ MODULE Behavior ------------------------------
(* The challenge page's behaviour collector and the scoring of what it     *)
(* reports. Event handlers keep running totals; every interval, and when   *)
(* the page is hidden, a snapshot of them is posted to the beacon store    *)
(* (see BeaconStore) and scored with the next request from the address.    *)
(* Scroll totals, path length and mean velocity are reported but never     *)
(* scored, and are left out.                                               *)
EXTENDS Integers, Sequences

CONSTANTS ClickLow, ClickHigh, \* turnstileMin, turnstileMax
          KeptIntervals,       \* click intervals in a snapshot (32)
          MinMoveCount,        \* minMoveCountBot
          HiddenFactor,        \* hidden time over visible time (5)
          MaxTime, MaxClicks, MaxMoves    \* bounds
ASSUME BehaviorAssumption ==
  /\ ClickLow \in Nat \ {0} /\ ClickHigh \in Nat /\ KeptIntervals \in Nat \ {0}
  /\ MinMoveCount \in Nat /\ HiddenFactor \in Nat \ {0}

VARIABLES now,
          document,                    \* document.visibilityState
          visibilityState, changedAt, hiddenMs, visibleMs,
          lastClickAt, clickIntervals,
          moveCount, steady,           \* moves; no two velocities differ
          queued, counted,             \* css, image or font entries: to report, reported
          posted,                      \* the last beacon posted
          wasHidden, clickTimes        \* history: what really happened
timers == <<document, visibilityState, changedAt, hiddenMs, visibleMs>>
mouse == <<lastClickAt, clickIntervals, moveCount, steady>>
vars == <<now, timers, mouse, queued, counted, posted, wasHidden, clickTimes>>

LastOf(s, n) == IF Len(s) > n THEN SubSeq(s, Len(s) - n + 1, Len(s)) ELSE s
NoBeacon == <<>>
Since(t) == now - t

\* The constructor and start, which counts the entries there are and asks the
\* observer for them once more.
Init == /\ now = 1
        /\ document \in {"visible", "hidden"} /\ visibilityState = document
        /\ changedAt = 1 /\ hiddenMs = 0 /\ visibleMs = 0
        /\ lastClickAt = 0 /\ clickIntervals = <<>>
        /\ moveCount = 0 /\ steady = TRUE
        /\ counted \in BOOLEAN /\ queued = counted
        /\ posted = NoBeacon
        /\ wasHidden = 0 /\ clickTimes = <<>>

\* onClick; the mutant never moves the reference click.
OnClickFirst ==
  /\ lastClickAt' = IF lastClickAt = 0 THEN now ELSE lastClickAt
  /\ clickIntervals' = IF lastClickAt > 0 THEN Append(clickIntervals, Since(lastClickAt))
                       ELSE clickIntervals
OnClick == /\ lastClickAt' = now
           /\ clickIntervals' = IF lastClickAt > 0
                                THEN Append(clickIntervals, Since(lastClickAt))
                                ELSE clickIntervals
Click == /\ Len(clickTimes) < MaxClicks
         /\ OnClick
         /\ clickTimes' = Append(clickTimes, now)
         /\ UNCHANGED <<now, timers, moveCount, steady, queued, counted,
                        posted, wasHidden>>

\* onMouseMove: another velocity, different from the others or not; a move in the
\* same instant as the last one, like the first one, has none. Velocities that
\* differ are taken to have a deviation of at least jitterThreshold.
OnMouseMove == /\ moveCount < MaxMoves /\ moveCount' = moveCount + 1
               /\ steady' \in IF moveCount > 1 THEN {steady, FALSE} ELSE {steady}
               /\ UNCHANGED <<now, timers, lastClickAt, clickIntervals, queued, counted,
                              posted, wasHidden, clickTimes>>

\* updateVisibilityTimers: the time since the last change was spent in the old
\* state. The mutant books it to the new one.
UpdateTimersNew(doc) ==
  /\ hiddenMs' = hiddenMs + (IF doc = "hidden" THEN Since(changedAt) ELSE 0)
  /\ visibleMs' = visibleMs + (IF doc = "hidden" THEN 0 ELSE Since(changedAt))
  /\ visibilityState' = doc /\ changedAt' = now
UpdateTimers(doc) ==
  /\ hiddenMs' = hiddenMs + (IF visibilityState = "hidden" THEN Since(changedAt) ELSE 0)
  /\ visibleMs' = visibleMs + (IF visibilityState = "hidden" THEN 0 ELSE Since(changedAt))
  /\ visibilityState' = doc /\ changedAt' = now
OnVisibilityChange ==
  /\ document' = IF document = "hidden" THEN "visible" ELSE "hidden"
  /\ UpdateTimers(document')
  /\ UNCHANGED <<now, mouse, queued, counted, posted, wasHidden, clickTimes>>

InBand(gap) == gap >= ClickLow /\ gap <= ClickHigh
AllInBand(gaps) == gaps # <<>> /\ \A i \in DOMAIN gaps : InBand(gaps[i])

\* The beacon of totals h and v: snapshot, with what really happened beside it.
Gaps(times) == [i \in 1..(Len(times) - 1) |-> times[i + 1] - times[i]]
Truth == [hiddenLonger |-> wasHidden > 0 /\ wasHidden > HiddenFactor * (Since(1) - wasHidden),
          clicksInBand |-> AllInBand(LastOf(Gaps(clickTimes), KeptIntervals))]
Snapshot(h, v) ==
  [hidden |-> h, visible |-> v, moves |-> moveCount, steady |-> steady,
   intervals |-> LastOf(clickIntervals, KeptIntervals), resources |-> counted,
   truth |-> Truth]
CurrentHidden == hiddenMs + (IF visibilityState = "hidden" THEN Since(changedAt) ELSE 0)
CurrentVisible == visibleMs + (IF visibilityState = "hidden" THEN 0 ELSE Since(changedAt))

Send == /\ posted' = <<Snapshot(CurrentHidden, CurrentVisible)>>
        /\ UNCHANGED <<now, timers, mouse, queued, counted, wasHidden, clickTimes>>
OnPageHide == /\ UpdateTimers(document)
              /\ posted' = <<Snapshot(hiddenMs', visibleMs')>>
              /\ UNCHANGED <<now, document, mouse, queued, counted, wasHidden, clickTimes>>

\* The page fetches a stylesheet, an image or a font; the observer hears later.
Fetch == /\ ~queued /\ ~counted /\ queued' = TRUE
         /\ UNCHANGED <<now, timers, mouse, counted, posted, wasHidden, clickTimes>>
CountResources == /\ queued /\ counted' = TRUE /\ queued' = FALSE
                  /\ UNCHANGED <<now, timers, mouse, posted, wasHidden, clickTimes>>

Tick == /\ now < MaxTime /\ now' = now + 1
        /\ wasHidden' = wasHidden + (IF document = "hidden" THEN 1 ELSE 0)
        /\ UNCHANGED <<timers, mouse, queued, counted, posted, clickTimes>>

Next == \/ Click \/ OnMouseMove \/ OnVisibilityChange \/ Send \/ OnPageHide
        \/ Fetch \/ CountResources \/ Tick
Spec == Init /\ [][Next]_vars
-----------------------------------------------------------------------------
\* behavior.Score on a beacon.
CheckVisibility(b) == b.hidden # 0 /\ b.hidden > b.visible * HiddenFactor
CheckClickTiming(b) == AllInBand(b.intervals)
CheckMouseJitter(b) == b.steady /\ b.moves > MinMoveCount
CheckResourceBlock(b) == ~b.resources
Score(b) ==
  (IF CheckResourceBlock(b) THEN <<"behavior_resource_block">> ELSE <<>>)
  \o (IF CheckMouseJitter(b) THEN <<"behavior_smooth_path">> ELSE <<>>)
  \o (IF CheckClickTiming(b) THEN <<"behavior_turnstile_clicker">> ELSE <<>>)
  \o (IF CheckVisibility(b) THEN <<"behavior_hidden_dominant">> ELSE <<>>)
-----------------------------------------------------------------------------
\* Every moment since the collector started is in exactly one of the two totals,
\* the right one, however visibilitychange and pagehide follow each other: both
\* handlers settle the running interval and neither settles it twice.
TimeIsAccounted == CurrentHidden = wasHidden /\ CurrentVisible = Since(1) - wasHidden

Has(s, e) == \E i \in DOMAIN s : s[i] = e

\* What a beacon is scored for really happened before it was sent, and does not go
\* unnoticed: hidden_dominant exactly when the page was hidden for more than
\* HiddenFactor times as long as it was visible, turnstile_clicker exactly when the
\* last KeptIntervals gaps between clicks were all in the band.
BeaconIsTrue ==
  posted # NoBeacon =>
    LET scored(signal) == Has(Score(posted[1]), signal)
        truth == posted[1].truth
    IN  /\ scored("behavior_hidden_dominant") <=> truth.hiddenLonger
        /\ scored("behavior_turnstile_clicker") <=> truth.clicksInBand
=============================================================================
