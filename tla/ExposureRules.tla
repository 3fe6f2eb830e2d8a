--------------------------- MODULE ExposureRules ---------------------------
(***************************************************************************)
(* The exposure rules of backend/src/domain/exposure.js and the alert      *)
(* edges of telemetryPipeline.js: what one temperature reading of a ULD,   *)
(* judged against the exposure state read before it, adds to the time the  *)
(* ULD has spent too warm, and what becomes of its status.  Times are      *)
(* milliseconds, as in a Date; a stored exposure is a number of minutes    *)
(* with two decimals, here in hundredths.  Phases, weather and positions   *)
(* do not enter the status and are left out.                               *)
(***************************************************************************)
EXTENDS Integers

CONSTANTS
    Ulds,               \* unit load devices
    Allowable,          \* rule.allowableExposureMinutes of each ULD
    MaxGapMinutes,      \* config.exposure.maxGapMinutes
    WarningPercent,     \* config.exposure.warningPercent
    TiesUp              \* sums half-way between two hundredths that toFixed
                        \* rounds up, as pairs of their terms: the stored
                        \* hundredths and the milliseconds added.  It depends
                        \* on the binary fraction next to the sum.

ASSUME RuleAssumption ==
    /\ Allowable \in [Ulds -> Nat]
    /\ MaxGapMinutes \in Nat \ {0}
    /\ WarningPercent \in 1 .. 100
    /\ TiesUp \subseteq Nat \X Nat

Statuses == {"OK", "AT_RISK", "BREACH"}

Minutes(n) == 60000 * n

\* A hundredth of a minute, and what rounding to hundredths may add or lose.
Hundredth == 600
Half == 300

NoTime == -1        \* previousState.lastReadingAt of a ULD without a state

Reading ==
    [uld : Ulds, at : Nat,
     hot : BOOLEAN,                     \* temperature_celsius > rule.maxTempC
     channel : {"mqtt", "http"}]

ExposureState == [used : Nat, at : Nat, status : Statuses, breached : BOOLEAN]

\* A ULD without a state: getState returns null.
NoExposure == [used |-> 0, at |-> NoTime, status |-> "OK", breached |-> FALSE]

-----------------------------------------------------------------------------
\* The time between two readings.  Without an earlier one, 5 minutes; going
\* back in time, none.
elapsedTime(prior, now) ==
    IF prior = NoTime THEN Minutes(5) ELSE IF now < prior THEN 0 ELSE now - prior

Capped(time) == IF time > Minutes(MaxGapMinutes) THEN Minutes(MaxGapMinutes) ELSE time

\* Mutant of increment: every hot reading counts one sampling interval.
incrementPerReading(prior, reading) == IF reading.hot THEN Minutes(5) ELSE 0

\* A hot reading counts the time since the reading before it, up to the cap,
\* or 5 minutes when there is none to count; a cold one counts the cap when
\* data was missing for longer than that.
increment(prior, reading) ==
    LET elapsed == elapsedTime(prior, reading.at) IN
    IF reading.hot
    THEN IF elapsed = 0 THEN Minutes(5) ELSE Capped(elapsed)
    ELSE IF elapsed > Minutes(MaxGapMinutes) THEN Minutes(MaxGapMinutes) ELSE 0

\* Number((used + increment).toFixed(2)): the nearest hundredth.
toFixed(used, time) ==
    LET sum == Hundredth * used + time IN
    IF sum % Hundredth = Half /\ <<used, time>> \notin TiesUp
    THEN sum \div Hundredth
    ELSE (sum + Half) \div Hundredth

\* Mutant of statusOf: under a rule that allows no minute only heat counts.
statusOfHeat(used, hot, allowable) ==
    IF (allowable = 0 /\ hot) \/ (allowable > 0 /\ used > 100 * allowable) THEN "BREACH"
    ELSE IF used >= allowable * WarningPercent /\ allowable > 0 THEN "AT_RISK"
    ELSE "OK"

\* The status of a used exposure, in hundredths, under an allowance in minutes.
\* A rule that allows no minute is broken by any heat.
statusOf(used, hot, allowable) ==
    IF (allowable = 0 /\ hot) \/ used > 100 * allowable THEN "BREACH"
    ELSE IF used >= allowable * WarningPercent /\ allowable > 0 THEN "AT_RISK"
    ELSE "OK"

\* Mutant of computeExposureState: a cold reading starts the count again.
computeExposureStateReset(previous, reading) ==
    LET used == IF reading.hot
                THEN toFixed(previous.used, increment(previous.at, reading)) ELSE 0
        status == statusOf(used, reading.hot, Allowable[reading.uld])
    IN  [used |-> used, at |-> reading.at, status |-> status,
         breached |-> previous.breached \/ status = "BREACH"]

computeExposureState(previous, reading) ==
    LET used == toFixed(previous.used, increment(previous.at, reading))
        status == statusOf(used, reading.hot, Allowable[reading.uld])
    IN  [used |-> used, at |-> reading.at, status |-> status,
         breached |-> previous.breached \/ status = "BREACH"]

\* Mutant of shouldEmitAlert: a breach is announced only out of AT_RISK.
shouldEmitAlertInOrder(before, after) ==
    \/ before = "OK" /\ after = "AT_RISK"
    \/ before = "AT_RISK" /\ after \in {"BREACH", "OK"}

\* Alerts mark the edges of the status, not its level.
shouldEmitAlert(before, after) ==
    \/ before # after /\ after \in {"AT_RISK", "BREACH"}
    \/ before \in {"AT_RISK", "BREACH"} /\ after = "OK"

AlertKinds == {"BREACH", "WARNING", "RECOVERY"}

\* buildAlert: the kind of the alert for the new status.
buildAlert(after) ==
    CASE after = "BREACH" -> "BREACH"
      [] after = "AT_RISK" -> "WARNING"
      [] after = "OK" -> "RECOVERY"
=============================================================================
