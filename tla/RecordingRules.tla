---------------------------- MODULE RecordingRules ----------------------------
(***************************************************************************)
(* compliance/src: whether a call may be recorded, and from when.  A phone *)
(* number is told apart by its area code only, and a state by whether it is*)
(* listed; the lists themselves are parameters.                            *)
(***************************************************************************)

CONSTANTS
  AREA_CODE_STATE,          \* the state each listed area code was issued in
  ALL_PARTY_CONSENT_STATES,
  DPA_VERSION,              \* the addendum in force
  Absent                    \* a withheld number, or a column nobody filled in

\* "Every state named in AREA_CODE_STATE that is not all-party."
KNOWN_ONE_PARTY ==
  {AREA_CODE_STATE[npa] : npa \in DOMAIN AREA_CODE_STATE} \ ALL_PARTY_CONSENT_STATES

\* Where the caller's number was issued, if it is a listed US number.
StateForNumber(npa) == IF npa \in DOMAIN AREA_CODE_STATE THEN AREA_CODE_STATE[npa] ELSE Absent

RegimeForState(state) ==
  CASE state \in ALL_PARTY_CONSENT_STATES -> "ALL_PARTY"
    [] state \in KNOWN_ONE_PARTY -> "ONE_PARTY"
    [] OTHER -> "UNKNOWN"

\* The stricter law of the two ends.
AssessConsent(npa, stateCode) ==
  LET ends == {RegimeForState(StateForNumber(npa)), RegimeForState(stateCode)}
  IN CASE "ALL_PARTY" \in ends -> "ALL_PARTY"
       [] ends = {"ONE_PARTY"} -> "ONE_PARTY"
       [] OTHER -> "UNKNOWN"

RequiresNoticeBeforeRecording(regime) == regime # "ONE_PARTY"

\* "current", "stale" or "none": a lapsed acceptance is no acceptance.
DpaStatus(accepted) ==
  CASE accepted = DPA_VERSION -> "current" [] accepted = Absent -> "none" [] OTHER -> "stale"

\* The parties of a call: the caller's area code and the contractor's profile.
RecordingDecision(p) ==
  IF ~p.recordingEnabled \/ DpaStatus(p.dpaVersion) # "current" THEN "DO_NOT_RECORD"
  ELSE IF RequiresNoticeBeforeRecording(AssessConsent(p.caller, p.stateCode))
       THEN "RECORD_AFTER_NOTICE"
  ELSE "RECORD_FROM_ANSWER"

=============================================================================
