----------------------------- MODULE Negotiation -----------------------------
(***************************************************************************)
(* Offer and answer of package sdp (offer.go) over the codec sets of       *)
(* codecs.go and the codecs that package all registers.  An offerer and an *)
(* answerer run the code; offers may also come from another program.       *)
(*                                                                         *)
(* A media description on the wire is its formats, each with its rtpmap    *)
(* and fmtp, and its crypto lines.  The formats are a function from places *)
(* to formats, in the order of the places.  Rates are in kHz.  Keys stand  *)
(* for key and salt; addresses, directions and the text format are left    *)
(* out.  The code writes no MKI and no lifetime, so neither is there.      *)
(***************************************************************************)
EXTENDS Integers, Sequences, FiniteSets, FiniteSetsExt, SequencesExt

CONSTANTS ProfileLists,  \* the lists of protection profiles a party may have
          Unknown,       \* names of codecs and of profiles that this code does not know
          PeerOffers,    \* the descriptions that another program may offer
          Toggled,       \* the codecs whose SetEnabled is called
          MaxSets        \* bound on the calls of SetEnabled

VARIABLES sets,     \* CodecSet.enabled of the global set and of the parties' sets
          calls,    \* how many SetEnabled were called
          enc,      \* the Encryption each party asks for
          profiles, \* opt.Srtp.Profiles of each party, <<>> for the default ones
          offer,    \* the offer on the wire, or None
          answer,   \* the answer on the wire, None, or Failed
          conf      \* the MediaConfig of each party, None, or Failed

vars == <<sets, calls, enc, profiles, offer, answer, conf>>

Parties == {"offerer", "answerer"}
None == [result |-> "none"]
Failed == [result |-> "failed"]

----------------------------------------------------------------------------
(* Codecs.                                                                 *)

\* The registered codecs by falling priority.
Codecs == <<"opus", "AMR-WB", "G722", "PCMU", "PCMA", "telephone-event">>
Event == "telephone-event"

priority == [c \in Range(Codecs) |-> -SelectInSeq(Codecs, LAMBDA d : d = c)]

staticType == [PCMU |-> 0, PCMA |-> 8, G722 |-> 9]
isStatic(c) == c \in DOMAIN staticType

NoParams == [octetAlign |-> FALSE, modes |-> {}]
Best == 8

\* CodecInfo, as Supports returns it.
info(c, rate, clock, channels, params) ==
  [result |-> "ok", codec |-> c, rate |-> rate, clock |-> clock,
   channels |-> channels, params |-> params]

\* The modes that AMR-WB accepts: the peer's as they are, or the best one.
acceptedModes(modes) == IF modes # {} THEN modes ELSE {Best}

\* CodecType.Supports of the codecs, with Defaults; 0 stands for what is not given.
supportsG711(c, rate, channels) ==
  IF channels <= 1 /\ rate \in {0, 8}
  THEN info(c, 8, 8, channels, NoParams) ELSE Failed

supportsG722(rate, channels) ==
  IF channels <= 1 /\ rate \in {0, 8, 16}
  THEN info("G722", 16, 8, channels, NoParams) ELSE Failed

supportsOpus(rate, channels) ==
  IF channels <= 2 /\ rate \in {0, 48}
  THEN info("opus", 48, 48, IF channels = 0 THEN 2 ELSE channels, NoParams) ELSE Failed

supportsAMRWB(rate, channels, params) ==
  IF channels <= 1 /\ rate \in {0, 16} /\ ~params.octetAlign
  THEN info("AMR-WB", 16, 16, channels,
            [octetAlign |-> FALSE, modes |-> acceptedModes(params.modes)])
  ELSE Failed

supportsEvents(rate, channels) ==
  IF rate # 0 /\ rate % 8 = 0 THEN info(Event, rate, rate, channels, NoParams) ELSE Failed

supports(c, rate, channels, params) ==
  CASE c \in {"PCMU", "PCMA"} -> supportsG711(c, rate, channels)
    [] c = "G722"   -> supportsG722(rate, channels)
    [] c = "opus"   -> supportsOpus(rate, channels)
    [] c = "AMR-WB" -> supportsAMRWB(rate, channels, params)
    [] c = Event    -> supportsEvents(rate, channels)

\* IsEnabledByName: a party's set overlays the global set.
isEnabled(p, c) == IF sets[p][c] = "unset" THEN sets["global"][c] = "on"
                   ELSE sets[p][c] = "on"

\* ListEnabled.
enabledCodecs(p) == {c \in Range(Codecs) : isEnabled(p, c)}

\* Mutant of codecByName: the global set is asked whatever set is given.
MutByNameGlobal(p, c) ==
  c \in Range(Codecs) /\ sets["global"][c] = "on"

\* CodecByNameWith, and CodecByPayloadType with IsEnabled.
codecByName(p, c) == c \in Range(Codecs) /\ isEnabled(p, c)

----------------------------------------------------------------------------
(* The offer.                                                              *)

\* The clock rates that DTMF offers: the old one and those of the other codecs.
eventRates(p) ==
  {8} \cup {supports(c, 0, 0, NoParams).clock : c \in enabledCodecs(p) \ {Event}}

\* What CodecType.Offer can return of the codecs, by falling priority; DTMF comes
\* last, once for every clock rate.
Offers ==
  [i \in 1..8 |-> IF i < 6 THEN supports(Codecs[i], 0, 0, NoParams)
                  ELSE supports(Event, <<8, 16, 48>>[i - 5], 0, NoParams)]

\* The places of Offers that a party offers.
offeredPlaces(p) ==
  {i \in 1..8 : /\ Offers[i].codec \in enabledCodecs(p)
                /\ Offers[i].codec = Event => Offers[i].rate \in eventRates(p)}

\* OfferCodecsWith: static payload types, and numbers from 101 for the others.
offerCodecs(p) ==
  LET dynamic(i) ==
        Cardinality({j \in offeredPlaces(p) : j < i /\ ~isStatic(Offers[j].codec)})
  IN  [i \in offeredPlaces(p) |->
         [type |-> IF isStatic(Offers[i].codec) THEN staticType[Offers[i].codec]
                   ELSE 101 + dynamic(i),
          info |-> Offers[i]]]

\* rtpmap and fmtp: the name goes with the clock rate, not with the sample rate.
format(ci) == [type |-> ci.type, name |-> ci.info.codec, rate |-> ci.info.clock,
               channels |-> ci.info.channels, params |-> ci.info.params]

\* ProtectionProfile.Parse knows these.
Supported == {"AES128_80", "AES128_32", "AES256_80", "AES256_32"}
DefaultProfiles == <<"AES128_80", "AES128_32", "AES256_80", "AES256_32">>

\* LocalProfiles: what a party advertises, each with a key of its own.
localProfiles(p) ==
  LET ps == IF profiles[p] = <<>> THEN DefaultProfiles ELSE profiles[p]
  IN  [i \in DOMAIN ps |-> [index |-> i, profile |-> ps[i], key |-> <<p, i>>]]

----------------------------------------------------------------------------
(* Parsing and selection.                                                  *)

\* A format without an rtpmap (name = "") is looked up by its static type.
nameOf(f) == IF f.name # "" THEN f.name
             ELSE IF \E c \in DOMAIN staticType : staticType[c] = f.type
             THEN CHOOSE c \in DOMAIN staticType : staticType[c] = f.type
             ELSE ""

parsed(p, f) ==
  [type |-> f.type,
   info |-> IF codecByName(p, nameOf(f))
            THEN supports(nameOf(f), f.rate, f.channels, f.params) ELSE Failed]

\* ParseMediaWith: MediaDesc.Audio and MediaDesc.Data by their places in the formats.
\* Formats with an rtpmap (mapped) come before the others; DTMF has no static type.
parseMedia(p, d) ==
  LET ci == [i \in DOMAIN d.formats |-> parsed(p, d.formats[i])]
      known == {i \in DOMAIN ci : ci[i].info # Failed}
  IN  [audio  |-> [i \in {j \in known : ci[j].info.codec # Event} |-> ci[i]],
       data   |-> [i \in {j \in known : ci[j].info.codec = Event} |-> ci[i]],
       mapped |-> {i \in DOMAIN ci : d.formats[i].name # ""}]

\* The first of some places.
firstOf(m, places) ==
  Min(IF places \cap m.mapped # {} THEN places \cap m.mapped ELSE places)

NoEvents == [type |-> -1, info |-> None]

\* SelectAudio's DTMF: the codec's clock rate, or the highest one below it.
selectEvents(data, clock) ==
  LET fit  == {i \in DOMAIN data : data[i].info.clock <= clock}
      best == {i \in fit : \A j \in fit : data[i].info.clock >= data[j].info.clock}
  IN  IF fit = {} THEN NoEvents ELSE data[Min(best)]

\* SelectAudio: of an answer the first codec, of an offer the preferred one.
selectAudio(m, isAnswer) ==
  LET wanted == {i \in DOMAIN m.audio :
                   \A j \in DOMAIN m.audio :
                     priority[m.audio[i].info.codec] >= priority[m.audio[j].info.codec]}
      a == m.audio[firstOf(m, IF isAnswer THEN DOMAIN m.audio ELSE wanted)]
  IN  IF DOMAIN m.audio = {} THEN Failed
      ELSE [result |-> "ok", audio |-> a,
            dtmf |-> selectEvents(m.data, a.info.clock)]

\* Mutant of ends: the answerer takes the offerer's view.
MutEndsUnswapped(off, ans, swap) == [local |-> off.key, remote |-> ans.key]

\* The keys as seen by the offerer, or by the answerer (swap).
ends(off, ans, swap) == IF swap THEN [local |-> ans.key, remote |-> off.key]
                        ELSE [local |-> off.key, remote |-> ans.key]

\* Mutant of tagged: the answer keeps the tag of the answerer's own list.
MutTagged(off, ans) == ans

\* The profile to answer with has the tag of the offer.
tagged(off, ans) == [ans EXCEPT !.index = off.index]

\* SelectCrypto: the first supported profile of the answer that is offered.
selectCrypto(offered, answered, swap) ==
  LET common == {i \in DOMAIN answered :
                   /\ answered[i].profile \in Supported
                   /\ \E o \in Range(offered) : o.profile = answered[i].profile}
      ans == answered[Min(common)]
      off == offered[SelectInSeq(offered, LAMBDA o : o.profile = ans.profile)]
  IN  IF common = {} THEN None
      ELSE [result |-> "ok", profile |-> ans.profile, keys |-> ends(off, ans, swap),
            line |-> IF swap THEN tagged(off, ans) ELSE off]

\* What crypto a party selects, if it is willing and the peer has any.
crypto(p, offered, answered, swap) ==
  IF (IF swap THEN offered ELSE answered) # <<>> /\ enc[p] # "none"
  THEN selectCrypto(offered, answered, swap) ELSE None

refused(p, c) == c = None /\ enc[p] = "require"

----------------------------------------------------------------------------
(* The operations.                                                         *)

\* What another program may write: any rtpmap or none (""), a mode-set with AMR-WB
\* only, and crypto lines with any tag and suite.
Params == [octetAlign : BOOLEAN, modes : SUBSET Nat]
Format == [type : Nat, name : Range(Codecs) \cup Unknown \cup {""}, rate : Nat,
           channels : Nat, params : Params]
Suites == Supported \cup Unknown
Line   == [index : Nat, profile : Suites, key : (Parties \cup {"peer"}) \X Nat]

ASSUME NegotiationAssumption ==
  /\ ProfileLists \subseteq Seq(Suites) /\ MaxSets \in Nat
  /\ \A d \in PeerOffers :
       /\ d.formats \in Seq(Format) /\ d.crypto \in Seq(Line)
       /\ \A i \in DOMAIN d.formats :
            d.formats[i].params.modes # {} => d.formats[i].name = "AMR-WB"

Init ==
  /\ sets = [s \in Parties \cup {"global"} |->
               [c \in Range(Codecs) |-> IF s = "global" THEN "on" ELSE "unset"]]
  /\ calls = 0
  /\ enc \in [Parties -> {"none", "allow", "require"}]
  /\ profiles \in [Parties -> ProfileLists]
  /\ offer = None /\ answer = None /\ conf = [p \in Parties |-> None]

\* SetEnabled of a codec set, at any time.
SetEnabled(s, c, value) ==
  /\ calls < MaxSets /\ sets[s][c] # value
  /\ sets' = [sets EXCEPT ![s][c] = value]
  /\ calls' = calls + 1
  /\ UNCHANGED <<enc, profiles, offer, answer, conf>>

\* NewOfferWith.
NewOffer ==
  LET p == "offerer"
      cs == offerCodecs(p)
  IN  /\ offer = None
      /\ offer' = [result |-> "ok", ours |-> TRUE,
                   formats |-> [i \in DOMAIN cs |-> format(cs[i])],
                   crypto |-> IF enc[p] # "none" THEN localProfiles(p) ELSE <<>>,
                   enabled |-> enabledCodecs(p)]
      /\ UNCHANGED <<sets, calls, enc, profiles, answer, conf>>

\* An offer that another program made.
PeerOffer(d) ==
  /\ offer = None
  /\ offer' = [result |-> "ok", ours |-> FALSE, formats |-> d.formats,
               crypto |-> d.crypto, enabled |-> {}]
  /\ UNCHANGED <<sets, calls, enc, profiles, answer, conf>>

\* MediaConfig.
config(a, c) == [result |-> "ok", audio |-> a.audio, dtmf |-> a.dtmf,
                 crypto |-> IF c = None THEN None
                            ELSE [profile |-> c.profile, keys |-> c.keys]]

\* AnswerMedia.
answerMedia(a, c) ==
  [result |-> "ok",
   formats |-> IF a.dtmf = NoEvents THEN <<format(a.audio)>>
               ELSE <<format(a.audio), format(a.dtmf)>>,
   crypto |-> IF c = None THEN <<>> ELSE <<c.line>>]

\* ParseOfferWith and Offer.Answer.
Answer ==
  LET p == "answerer"
      a == selectAudio(parseMedia(p, offer), FALSE)
      c == crypto(p, offer.crypto, localProfiles(p), TRUE)
  IN  /\ offer # None /\ answer = None
      /\ IF a = Failed \/ refused(p, c)
         THEN answer' = Failed /\ conf' = [conf EXCEPT ![p] = Failed]
         ELSE answer' = answerMedia(a, c) /\ conf' = [conf EXCEPT ![p] = config(a, c)]
      /\ UNCHANGED <<sets, calls, enc, profiles, offer>>

\* ParseAnswerWith and Answer.Apply.
Apply ==
  LET p == "offerer"
      a == selectAudio(parseMedia(p, answer), TRUE)
      c == crypto(p, offer.crypto, answer.crypto, FALSE)
  IN  /\ offer # None /\ offer.ours /\ answer \notin {None, Failed} /\ conf[p] = None
      /\ conf' = [conf EXCEPT ![p] = IF a = Failed \/ refused(p, c) THEN Failed
                                     ELSE config(a, c)]
      /\ UNCHANGED <<sets, calls, enc, profiles, offer, answer>>

Next ==
  \/ \E s \in DOMAIN sets, c \in Toggled, v \in {"on", "off"} : SetEnabled(s, c, v)
  \/ NewOffer \/ (\E d \in PeerOffers : PeerOffer(d)) \/ Answer \/ Apply

Spec == Init /\ [][Next]_vars

----------------------------------------------------------------------------
(* Properties.                                                             *)

settled(p) == conf[p] \notin {None, Failed}

\* When Apply has succeeded, both sides have the same codec with the same payload
\* type and parameters, the same protection profile, and each other's keys; and the
\* same telephone events, or the offerer none.  On either side required encryption
\* never ends in a session without keys, nor encryption that is off in one with keys.
ConfigsAgree ==
  /\ settled("offerer") =>
       LET o == conf["offerer"]
           a == conf["answerer"]
       IN  /\ o.audio = a.audio
           /\ o.dtmf \in {a.dtmf, NoEvents}
           /\ (o.crypto = None) = (a.crypto = None)
           /\ o.crypto # None => /\ o.crypto.profile = a.crypto.profile
                                 /\ o.crypto.keys.local = a.crypto.keys.remote
                                 /\ o.crypto.keys.remote = a.crypto.keys.local
  /\ \A p \in Parties : settled(p) => /\ enc[p] = "require" => conf[p].crypto # None
                                      /\ enc[p] = "none" => conf[p].crypto = None

offeredAs(f) == {g \in Range(offer.formats) : g.type = f.type}

\* An answer keeps to the offer, ours or another program's: payload types mean what
\* they mean there, a mode-set comes back unmodified, events are not clocked faster
\* than the audio, and a crypto line has the tag and the suite of an offered one.
AnswerWithinOffer ==
  answer \notin {None, Failed} =>
    /\ \A f \in Range(answer.formats) :
         \E g \in offeredAs(f) : /\ nameOf(g) = f.name
                                 /\ f.rate <= answer.formats[1].rate
                                 /\ g.params.modes # {} => f.params.modes = g.params.modes
    /\ \A k \in Range(answer.crypto) :
         \E o \in Range(offer.crypto) : o.index = k.index /\ o.profile = k.profile

\* What this code answers to its own offer can be applied, and gives the offerer the
\* answerer's telephone events too: unless a codec of the offer has been disabled
\* since, Apply fails only if encryption is required and the answer has none.
AnswersApply ==
  [][Apply /\ (\A c \in offer.enabled : isEnabled("offerer", c))
       => IF conf'["offerer"] = Failed
          THEN enc["offerer"] = "require" /\ answer.crypto = <<>>
          ELSE conf'["offerer"].dtmf = conf["answerer"].dtmf]_vars
=============================================================================
