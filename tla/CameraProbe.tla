---------------------------- MODULE CameraProbe ----------------------------
(***************************************************************************)
(* What the program makes of a camera's answers: the ONVIF client of       *)
(* src/onvif.rs and the RTSP validator of src/rtsp.rs.                     *)
(*                                                                         *)
(* Both send requests one after the other and stop at the first answer     *)
(* they cannot use, so each operation is a function of the answers.  An    *)
(* answer is "ok" or the way it fails; XML, headers and addresses are      *)
(* reduced to what the code looks for in them.                             *)
(***************************************************************************)
EXTENDS Naturals, Sequences, FiniteSetsExt

\* soap_post() and soap_post_with_ptz(): how a request can fail, and its code.
SoapFailures == [
  timeout      |-> "DiscoveryTimeout",
  refused      |-> "DeviceUnreachable",
  unauthorized |-> "AuthenticationFailed",
  rejected     |-> "ProtocolError",
  garbled      |-> "MalformedSoap"]
SoapAnswers == {"ok"} \cup DOMAIN SoapFailures

Failed(code) == [ok |-> FALSE, code |-> code]

\* The first answer of a sequence that is not "ok"; "ok" if there is none.
FirstBad(answers) ==
  LET bad == {i \in DOMAIN answers : answers[i] # "ok"} IN
  IF bad = {} THEN "ok" ELSE answers[Min(bad)]
Expect(found) == IF found THEN "ok" ELSE "garbled"

(***************************************************************************)
(* HttpOnvifBackend::inspect().  A camera's answers are                    *)
(*   info, capabilities, profiles   to the three requests it must answer,  *)
(*   named                          it tells a manufacturer or a model,    *)
(*   features                       of "ptz", "presets" and "continuous",  *)
(*                                  those the capabilities name,           *)
(*   list                           its profiles, each [token, stream,     *)
(*                                  score]: it has a token, the answer to  *)
(*                                  GetStreamUri, and profile_score().     *)
(***************************************************************************)

\* normalize_capabilities(): without PTZ no feature of it counts.
Features(r) == IF "ptz" \in r.features THEN r.features ELSE {}

\* GetStreamUri is asked for profiles with a token only; a failure leaves the
\* profile without a URI.
Usable(r) == {i \in DOMAIN r.list : r.list[i].token /\ r.list[i].stream = "ok"}

Inspect(camera, r) ==
  LET bad == FirstBad(<<r.info, Expect(r.named), r.capabilities, r.profiles, Expect(r.list # <<>>)>>)
  IN IF bad # "ok" THEN Failed(SoapFailures[bad])
     ELSE [ok       |-> TRUE,
           camera   |-> camera,
           features |-> Features(r),
           list     |-> r.list,
           usable   |-> Usable(r)]

\* The first profile with a URI: the one whose stream is handed over and whose
\* token PTZ commands carry.
FirstProfile(i) == IF i.usable = {} THEN 0 ELSE Min(i.usable)
HasSession(i) == "ptz" \in i.features /\ i.usable # {}

\* max_by_key(profile_score): the last of the best ones.
BestProfile(i) ==
  LET score(p) == i.list[p].score
      best == {p \in i.usable : \A q \in i.usable : score(q) <= score(p)}
  IN IF best = {} THEN 0 ELSE Max(best)

(***************************************************************************)
(* HttpOnvifBackend::discover() and OnvifClient::discover().  A datagram   *)
(* is [text, camera]: it is UTF-8, and the camera whose address it names,  *)
(* or 0.                                                                   *)
(***************************************************************************)

\* Datagrams that name a camera; the others are passed over.
Heard(datagrams) == {i \in DOMAIN datagrams : datagrams[i].camera # 0}

\* Mutant: whatever is heard is a device.
DiscoverAny(datagrams, answers) ==
  LET asked(i) == Inspect(datagrams[i].camera, answers[datagrams[i].camera])
      bad == {i \in Heard(datagrams) : ~asked(i).ok}
  IN IF \E i \in DOMAIN datagrams : ~datagrams[i].text THEN Failed("MalformedSoap")
     ELSE IF bad # {} THEN asked(Min(bad))
     ELSE [ok |-> TRUE, devices |-> {datagrams[i].camera : i \in DOMAIN datagrams}]

\* One datagram that is not text fails the whole search.  Every camera is
\* inspected once, with the same credentials and in the order they were first
\* heard; the first failure is that of the search.
Discover(datagrams, answers) ==
  LET asked(i) == Inspect(datagrams[i].camera, answers[datagrams[i].camera])
      bad == {i \in Heard(datagrams) : ~asked(i).ok}
  IN IF \E i \in DOMAIN datagrams : ~datagrams[i].text THEN Failed("MalformedSoap")
     ELSE IF bad # {} THEN asked(Min(bad))
     ELSE [ok |-> TRUE, devices |-> {datagrams[i].camera : i \in Heard(datagrams)}]

(***************************************************************************)
(* RtspValidator::validate().  The answers are                             *)
(*   address             "ok", or it is not a plain rtsp:// address,       *)
(*   connect             "ok", "timeout", "refused" or another I/O error,  *)
(*   options, describe   the same, or "closed" for an answer that is none  *)
(*                       (cut off, too long, not RTSP), or a status class. *)
(***************************************************************************)

RtspFailures == [
  malformed   |-> "InvalidSource",
  timeout     |-> "ConnectionTimeout",
  refused     |-> "SourceUnreachable",
  broken      |-> "Unknown",
  closed      |-> "ProtocolError",
  denied      |-> "AuthenticationFailed",  \* 401, 403
  missing     |-> "StreamNotFound",        \* 404, 454
  unexpected  |-> "ProtocolError"]         \* any other, but 2xx

Validate(r) ==
  LET bad == FirstBad(<<r.address, r.connect, r.options, r.describe>>) IN
  IF bad = "ok" THEN [valid |-> TRUE, reachable |-> TRUE, code |-> "none"]
  ELSE [valid     |-> FALSE,
        reachable |-> RtspFailures[bad] \in {"AuthenticationFailed", "StreamNotFound", "ProtocolError"},
        code      |-> RtspFailures[bad]]
=============================================================================
