-------------------------- MODULE NegotiationProofs --------------------------
(***************************************************************************)
(* Proofs about offer and answer, for all lists of protection profiles,    *)
(* all offers of other programs and any calls of SetEnabled.               *)
(***************************************************************************)
EXTENDS Negotiation, ListLemmas, FiniteSetTheorems

----------------------------------------------------------------------------
(* Codecs.                                                                 *)

Names == {"opus", "AMR-WB", "G722", "PCMU", "PCMA", Event}

\* CodecInfo, and what is selected: with its payload type.
Info == [result : {"ok"}, codec : Names, rate : Nat, clock : Nat, channels : Nat,
         params : Params]
Codec == [type : Nat, info : Info]

LEMMA NamesAre == Range(Codecs) = Names /\ Failed \notin Info
<1>1. Range(Codecs) = {Codecs[i] : i \in 1..6}
  BY DEF Range, Codecs
<1>2. 1..6 = {1, 2, 3, 4, 5, 6}
  OBVIOUS
<1>3. Range(Codecs) = Names
  BY <1>1, <1>2 DEF Codecs, Names, Event
<1>4. Failed \notin Info
  BY DEF Failed, Info
<1> QED BY <1>3, <1>4

\* What a codec has accepted: Supports of what is written about it (name, clock
\* rate, channels and fmtp) gives it again.
Stable(i) == supports(i.codec, i.clock, i.channels, i.params) = i

\* Supports fails, or returns a stable CodecInfo of the codec that keeps the modes
\* it was given.
LEMMA SupportsIs ==
  ASSUME NEW c \in Names, NEW rate \in Nat, NEW channels \in Nat, NEW params \in Params,
         params.modes # {} => c = "AMR-WB",
         supports(c, rate, channels, params) # Failed
  PROVE  LET i == supports(c, rate, channels, params)
         IN  /\ i \in Info /\ i.codec = c /\ Stable(i)
             /\ params.modes # {} => i.params.modes = params.modes
             /\ i.params.modes # {} => i.codec = "AMR-WB"
<1> DEFINE i == supports(c, rate, channels, params)
<1>0. NoParams \in Params /\ NoParams.modes = {}
  BY DEF NoParams, Params
<1>1. CASE c \in {"PCMU", "PCMA"}
  <2>1. i = info(c, 8, 8, channels, NoParams) /\ channels <= 1
    BY <1>1 DEF supports, supportsG711, Event
  <2>2. supports(c, 8, channels, NoParams) = info(c, 8, 8, channels, NoParams)
    BY <1>1, <2>1 DEF supports, supportsG711, Event
  <2> HIDE DEF i
  <2>3. i \in Info /\ i.codec = c /\ i.clock = 8 /\ i.channels = channels /\ i.params = NoParams
    BY <2>1, <1>0 DEF info, Info
  <2> QED BY <1>1, <2>1, <2>2, <2>3, <1>0 DEF Stable, i
<1>2. CASE c = "G722"
  <2>1. i = info(c, 16, 8, channels, NoParams) /\ channels <= 1
    BY <1>2 DEF supports, supportsG722, Event
  <2>2. supports(c, 8, channels, NoParams) = info(c, 16, 8, channels, NoParams)
    BY <1>2, <2>1 DEF supports, supportsG722, Event
  <2> HIDE DEF i
  <2>3. i \in Info /\ i.codec = c /\ i.clock = 8 /\ i.channels = channels /\ i.params = NoParams
    BY <2>1, <1>0 DEF info, Info
  <2> QED BY <1>2, <2>1, <2>2, <2>3, <1>0 DEF Stable, i
<1>3. CASE c = "opus"
  <2> DEFINE n == IF channels = 0 THEN 2 ELSE channels
  <2>1. i = info(c, 48, 48, n, NoParams) /\ n <= 2 /\ n # 0 /\ n \in Nat
    BY <1>3 DEF supports, supportsOpus, Event
  <2> HIDE DEF n
  <2>2. supports(c, 48, n, NoParams) = info(c, 48, 48, n, NoParams)
    BY <1>3, <2>1 DEF supports, supportsOpus, Event
  <2> HIDE DEF i
  <2>3. i \in Info /\ i.codec = c /\ i.clock = 48 /\ i.channels = n /\ i.params = NoParams
    BY <2>1, <1>0 DEF info, Info
  <2> QED BY <1>3, <2>1, <2>2, <2>3, <1>0 DEF Stable, i
<1>4. CASE c = "AMR-WB"
  <2> DEFINE q == [octetAlign |-> FALSE, modes |-> acceptedModes(params.modes)]
  <2>1. i = info(c, 16, 16, channels, q) /\ channels <= 1
    BY <1>4 DEF supports, supportsAMRWB, Event
  <2>2. /\ q \in Params /\ q.octetAlign = FALSE /\ acceptedModes(q.modes) = q.modes
        /\ params.modes # {} => q.modes = params.modes
    BY DEF acceptedModes, Params, Best
  <2>3. [octetAlign |-> FALSE, modes |-> acceptedModes(q.modes)] = q
    BY <2>2
  <2> HIDE DEF q
  <2>4. supports(c, 16, channels, q) = info(c, 16, 16, channels, q)
    BY <1>4, <2>1, <2>2, <2>3 DEF supports, supportsAMRWB, Event
  <2> HIDE DEF i
  <2>5. i \in Info /\ i.codec = c /\ i.clock = 16 /\ i.channels = channels /\ i.params = q
    BY <2>1, <2>2 DEF info, Info
  <2> QED BY <1>4, <2>1, <2>2, <2>4, <2>5 DEF Stable, i
<1>5. CASE c = Event
  <2>1. i = info(c, rate, rate, channels, NoParams) /\ rate # 0 /\ rate % 8 = 0
    BY <1>5 DEF supports, supportsEvents, Event
  <2>2. supports(c, rate, channels, NoParams) = info(c, rate, rate, channels, NoParams)
    BY <1>5, <2>1 DEF supports, supportsEvents, Event
  <2> HIDE DEF i
  <2>3. i \in Info /\ i.codec = c /\ i.clock = rate /\ i.channels = channels /\ i.params = NoParams
    BY <2>1, <1>0 DEF info, Info
  <2> QED BY <1>5, <2>1, <2>2, <2>3, <1>0 DEF Stable, i, Event
<1> QED BY <1>1, <1>2, <1>3, <1>4, <1>5 DEF Names

----------------------------------------------------------------------------
(* Selection.                                                              *)

\* A description that can be parsed: formats at places, with a mode-set only for AMR-WB.
Readable(fs) ==
  /\ DOMAIN fs \subseteq Nat
  /\ \A i \in DOMAIN fs : fs[i] \in Format /\ (fs[i].params.modes # {} => fs[i].name = "AMR-WB")

\* What the party p reads format f as.
ReadAs(p, f, ci) ==
  /\ ci \in Codec /\ Stable(ci.info) /\ (ci.info.params.modes # {} => ci.info.codec = "AMR-WB")
  /\ ci.type = f.type /\ ci.info.codec = nameOf(f) /\ isEnabled(p, nameOf(f))
  /\ f.params.modes # {} => ci.info.params.modes = f.params.modes
  /\ ci = parsed(p, f)

LEMMA ParsedIs ==
  ASSUME NEW p, NEW f \in Format, f.params.modes # {} => f.name = "AMR-WB",
         parsed(p, f).info # Failed
  PROVE  ReadAs(p, f, parsed(p, f))
<1> DEFINE i == supports(nameOf(f), f.rate, f.channels, f.params)
<1>1. codecByName(p, nameOf(f)) /\ parsed(p, f).info = i /\ parsed(p, f).type = f.type
  BY DEF parsed
<1>2. nameOf(f) \in Names /\ isEnabled(p, nameOf(f))
  BY <1>1, NamesAre DEF codecByName
<1>3. f.rate \in Nat /\ f.channels \in Nat /\ f.params \in Params /\ f.type \in Nat
  BY DEF Format
<1>4. f.params.modes # {} => nameOf(f) = "AMR-WB"
  BY DEF nameOf
<1>5. /\ i \in Info /\ i.codec = nameOf(f) /\ Stable(i)
      /\ f.params.modes # {} => i.params.modes = f.params.modes
      /\ i.params.modes # {} => i.codec = "AMR-WB"
  BY <1>1, <1>2, <1>3, <1>4, SupportsIs
<1> HIDE DEF i
<1>6. parsed(p, f) = [type |-> f.type, info |-> i]
  BY <1>1 DEF parsed, i
<1>7. parsed(p, f) \in Codec
  BY <1>3, <1>5, <1>6 DEF Codec
<1> QED BY <1>1, <1>2, <1>5, <1>7 DEF ReadAs

LEMMA FirstOfIs ==
  ASSUME NEW m, NEW places \in SUBSET Nat, places # {}
  PROVE  firstOf(m, places) \in places
<1>1. CASE places \cap m.mapped # {}
  <2>1. Min(places \cap m.mapped) \in places \cap m.mapped
    BY <1>1, MinIsLeast
  <2> QED BY <1>1, <2>1 DEF firstOf
<1>2. CASE places \cap m.mapped = {}
  BY <1>2, MinIsLeast DEF firstOf
<1> QED BY <1>1, <1>2

\* Priorities are the numbers of the codecs, counted down.
LEMMA PriorityIs == \A c \in Names : -priority[c] \in Nat /\ priority[c] \in Int
<1> SUFFICES ASSUME NEW c \in Names PROVE -priority[c] \in Nat /\ priority[c] \in Int
  OBVIOUS
<1> DEFINE I == {i \in 1..Len(Codecs) : Codecs[i] = c}
<1>1. priority[c] = -SelectInSeq(Codecs, LAMBDA d : d = c)
  BY NamesAre DEF priority
<1>2. SelectInSeq(Codecs, LAMBDA d : d = c) = IF I # {} THEN Min(I) ELSE 0
  BY DEF SelectInSeq
<1>3. I \in SUBSET Nat
  BY DEF Codecs
<1> HIDE DEF I
<1>4. (IF I # {} THEN Min(I) ELSE 0) \in Nat
  BY <1>3, MinIsLeast
<1> QED BY <1>1, <1>2, <1>4

\* The parsed formats that are known, and those of them that are events or not.
knownIn(p, fs) == {i \in DOMAIN fs : parsed(p, fs[i]).info # Failed}
eventsIn(p, fs) == {i \in knownIn(p, fs) : parsed(p, fs[i]).info.codec = Event}
audioIn(p, fs) == {i \in knownIn(p, fs) : parsed(p, fs[i]).info.codec # Event}

LEMMA ParseMediaIs ==
  ASSUME NEW p, NEW d
  PROVE  /\ parseMedia(p, d).audio = [i \in audioIn(p, d.formats) |-> parsed(p, d.formats[i])]
         /\ parseMedia(p, d).data = [i \in eventsIn(p, d.formats) |-> parsed(p, d.formats[i])]
<1> DEFINE ci == [i \in DOMAIN d.formats |-> parsed(p, d.formats[i])]
           known == {i \in DOMAIN ci : ci[i].info # Failed}
           audio == {j \in known : ci[j].info.codec # Event}
           data == {j \in known : ci[j].info.codec = Event}
<1>1. \A i \in DOMAIN d.formats : ci[i] = parsed(p, d.formats[i])
  OBVIOUS
<1>2. known = knownIn(p, d.formats)
  BY <1>1 DEF knownIn
<1>3. known \subseteq DOMAIN d.formats
  OBVIOUS
<1>4. parseMedia(p, d).audio = [i \in audio |-> ci[i]] /\ parseMedia(p, d).data = [i \in data |-> ci[i]]
  BY DEF parseMedia
<1> HIDE DEF known, ci
<1>5. audio = audioIn(p, d.formats) /\ data = eventsIn(p, d.formats)
  BY <1>1, <1>2, <1>3 DEF audioIn, eventsIn
<1>6. /\ \A i \in audio : ci[i] = parsed(p, d.formats[i])
      /\ \A i \in data : ci[i] = parsed(p, d.formats[i])
  BY <1>1, <1>3
<1> HIDE DEF audio, data
<1> QED BY <1>4, <1>5, <1>6

\* Of the events none is chosen only if all are clocked faster than the audio.
LEMMA SelectEventsIs ==
  ASSUME NEW data, NEW clock \in Nat, DOMAIN data \subseteq Nat,
         \A i \in DOMAIN data : data[i].info.clock \in Nat
  PROVE  \/ /\ selectEvents(data, clock) = NoEvents
            /\ \A i \in DOMAIN data : data[i].info.clock > clock
         \/ \E i \in DOMAIN data : /\ selectEvents(data, clock) = data[i]
                                   /\ data[i].info.clock <= clock
<1> DEFINE fit == {i \in DOMAIN data : data[i].info.clock <= clock}
           best == {i \in fit : \A j \in fit : data[i].info.clock >= data[j].info.clock}
           short == {clock - data[i].info.clock : i \in fit}
<1>1. selectEvents(data, clock) = IF fit = {} THEN NoEvents ELSE data[Min(best)]
  BY DEF selectEvents
<1>2. CASE fit = {}
  BY <1>1, <1>2
<1>3. CASE fit # {}
  <2>1. short \in SUBSET Nat /\ short # {}
    BY <1>3
  <2>2. Min(short) \in short /\ \A y \in short : Min(short) <= y
    BY <2>1, MinIsLeast
  <2>3. PICK i \in fit : Min(short) = clock - data[i].info.clock
    BY <2>2
  <2>4. \A j \in fit : data[i].info.clock >= data[j].info.clock
    <3> SUFFICES ASSUME NEW j \in fit PROVE data[i].info.clock >= data[j].info.clock
      OBVIOUS
    <3>1. clock - data[i].info.clock <= clock - data[j].info.clock
      BY <2>2, <2>3
    <3>2. data[i].info.clock \in Nat /\ data[j].info.clock \in Nat
      OBVIOUS
    <3> QED BY <3>1, <3>2
  <2>5. best # {} /\ best \in SUBSET Nat
    BY <2>4
  <2>6. Min(best) \in best
    BY <2>5, MinIsLeast
  <2> QED BY <1>1, <1>3, <2>6
<1> QED BY <1>2, <1>3

\* What SelectAudio chooses, of an offer or of an answer.
LEMMA SelectAudioIs ==
  ASSUME NEW p, NEW d, Readable(d.formats), NEW isAnswer \in BOOLEAN
  PROVE  LET a == selectAudio(parseMedia(p, d), isAnswer)
             fs == d.formats
         IN  \/ a = Failed /\ audioIn(p, fs) = {}
             \/ /\ a = [result |-> "ok", audio |-> a.audio, dtmf |-> a.dtmf]
                /\ \E i \in audioIn(p, fs) : ReadAs(p, fs[i], a.audio)
                /\ \/ /\ a.dtmf = NoEvents
                      /\ \A j \in eventsIn(p, fs) :
                           parsed(p, fs[j]).info.clock > a.audio.info.clock
                   \/ \E j \in eventsIn(p, fs) :
                        ReadAs(p, fs[j], a.dtmf) /\ a.dtmf.info.clock <= a.audio.info.clock
<1> DEFINE m == parseMedia(p, d)
           fs == d.formats
           read(i) == parsed(p, fs[i])
<1>1. /\ m.audio = [i \in audioIn(p, fs) |-> read(i)]
      /\ m.data = [i \in eventsIn(p, fs) |-> read(i)]
  BY ParseMediaIs
<1>2. /\ audioIn(p, fs) \subseteq Nat /\ eventsIn(p, fs) \subseteq Nat
      /\ \A i \in audioIn(p, fs) : ReadAs(p, fs[i], read(i))
      /\ \A i \in eventsIn(p, fs) : ReadAs(p, fs[i], read(i))
  BY ParsedIs DEF Readable, audioIn, eventsIn, knownIn
<1> HIDE DEF m, read
<1>3. CASE audioIn(p, fs) = {}
  BY <1>1, <1>3 DEF selectAudio, m
<1>4. CASE audioIn(p, fs) # {}
  <2> DEFINE S == audioIn(p, fs)
             pr(i) == priority[m.audio[i].info.codec]
             wanted == {i \in S : \A j \in S : pr(i) >= pr(j)}
             lows == {-pr(i) : i \in S}
             at == firstOf(m, IF isAnswer THEN S ELSE wanted)
             a == m.audio[at]
  <2>1. \A i \in S : -pr(i) \in Nat /\ pr(i) \in Int
    <3>1. \A i \in S : m.audio[i].info.codec \in Names
      BY <1>1, <1>2 DEF ReadAs, Codec, Info
    <3> QED BY <3>1, PriorityIs
  <2>2. S \in SUBSET Nat /\ S # {}
    BY <1>2, <1>4
  <2>3. DOMAIN m.audio = S
    BY <1>1
  <2>4. selectAudio(m, isAnswer) = [result |-> "ok", audio |-> a,
                                    dtmf |-> selectEvents(m.data, a.info.clock)]
    BY <2>2, <2>3 DEF selectAudio
  <2> HIDE DEF S, pr
  <2>5. wanted # {} /\ wanted \in SUBSET Nat
    <3>1. lows \in SUBSET Nat /\ lows # {}
      BY <2>1, <2>2
    <3>2. Min(lows) \in lows /\ \A y \in lows : Min(lows) <= y
      BY <3>1, MinIsLeast
    <3>3. PICK i \in S : Min(lows) = -pr(i)
      BY <3>2
    <3>4. \A j \in S : -pr(i) <= -pr(j)
      BY <3>2, <3>3
    <3>5. \A j \in S : pr(i) >= pr(j)
      BY <2>1, <3>4
    <3> QED BY <2>2, <3>5
  <2>6. at \in S
    <3>1. CASE isAnswer
      BY <2>2, <3>1, FirstOfIs
    <3>2. CASE ~isAnswer
      BY <2>5, <3>2, FirstOfIs
    <3> QED BY <3>1, <3>2
  <2> HIDE DEF at, wanted
  <2>7. a = read(at) /\ ReadAs(p, fs[at], a)
    BY <1>1, <1>2, <2>6 DEF S
  <2>8. a.info.clock \in Nat
    BY <2>7 DEF ReadAs, Codec, Info
  <2>9. DOMAIN m.data \subseteq Nat /\ \A i \in DOMAIN m.data : m.data[i].info.clock \in Nat
    BY <1>1, <1>2 DEF ReadAs, Codec, Info
  <2> HIDE DEF a
  <2> DEFINE dtmf == selectEvents(m.data, a.info.clock)
  <2>10. \/ /\ dtmf = NoEvents
            /\ \A i \in DOMAIN m.data : m.data[i].info.clock > a.info.clock
         \/ \E i \in DOMAIN m.data : dtmf = m.data[i] /\ m.data[i].info.clock <= a.info.clock
    BY <2>8, <2>9, SelectEventsIs
  <2> HIDE DEF dtmf
  <2>11. \/ /\ dtmf = NoEvents
            /\ \A j \in eventsIn(p, fs) : read(j).info.clock > a.info.clock
         \/ \E j \in eventsIn(p, fs) : ReadAs(p, fs[j], dtmf) /\ dtmf.info.clock <= a.info.clock
    BY <1>1, <1>2, <2>10
  <2>12. selectAudio(m, isAnswer) = [result |-> "ok", audio |-> a, dtmf |-> dtmf]
    BY <2>4 DEF dtmf
  <2> QED BY <2>6, <2>7, <2>11, <2>12 DEF S, m, read
<1> QED BY <1>3, <1>4

\* The first line with a profile.
firstWith(lines, profile) == SelectInSeq(lines, LAMBDA o : o.profile = profile)

LEMMA FirstWithIs ==
  ASSUME NEW lines \in Seq(Line), NEW profile, \E o \in Range(lines) : o.profile = profile
  PROVE  /\ firstWith(lines, profile) \in DOMAIN lines
         /\ lines[firstWith(lines, profile)].profile = profile
<1> DEFINE I == {i \in 1..Len(lines) : lines[i].profile = profile}
<1>1. firstWith(lines, profile) = IF I # {} THEN Min(I) ELSE 0
  BY DEF firstWith, SelectInSeq
<1>2. DOMAIN lines = 1..Len(lines)
  OBVIOUS
<1>3. I \in SUBSET Nat /\ I # {}
  BY <1>2 DEF Range
<1>4. Min(I) \in I
  BY <1>3, MinIsLeast
<1> QED BY <1>1, <1>2, <1>3, <1>4

\* A profile of the answer that SelectCrypto can take.
common(offered, l) == l.profile \in Supported /\ \E o \in Range(offered) : o.profile = l.profile

\* What it returns for line l of the answer and line o of the offer.
chosen(o, l, swap) ==
  [result |-> "ok", profile |-> l.profile, keys |-> ends(o, l, swap),
   line |-> IF swap THEN tagged(o, l) ELSE o]

LEMMA SelectCryptoIs ==
  ASSUME NEW offered \in Seq(Line), NEW answered \in Seq(Line), NEW swap \in BOOLEAN
  PROVE  LET c == selectCrypto(offered, answered, swap)
         IN  \/ c = None /\ \A i \in DOMAIN answered : ~common(offered, answered[i])
             \/ \E i \in DOMAIN answered :
                  /\ common(offered, answered[i])
                  /\ c = chosen(offered[firstWith(offered, answered[i].profile)],
                                answered[i], swap)
<1> DEFINE I == {i \in DOMAIN answered : common(offered, answered[i])}
           J == {i \in DOMAIN answered :
                   /\ answered[i].profile \in Supported
                   /\ \E o \in Range(offered) : o.profile = answered[i].profile}
           l == answered[Min(J)]
           off == offered[SelectInSeq(offered, LAMBDA o : o.profile = l.profile)]
<1>1. selectCrypto(offered, answered, swap) =
        IF J = {} THEN None
        ELSE [result |-> "ok", profile |-> l.profile, keys |-> ends(off, l, swap),
              line |-> IF swap THEN tagged(off, l) ELSE off]
  BY DEF selectCrypto
<1>2. I = J
  BY DEF common
<1>3. off = offered[firstWith(offered, l.profile)]
  BY DEF firstWith
<1> HIDE DEF J, off
<1>4. CASE I = {}
  BY <1>1, <1>2, <1>4
<1>5. CASE I # {}
  <2>1. I \in SUBSET Nat
    OBVIOUS
  <2>2. Min(I) \in I
    BY <1>5, <2>1, MinIsLeast
  <2> QED BY <1>1, <1>2, <1>3, <1>5, <2>2 DEF chosen
<1> QED BY <1>4, <1>5

----------------------------------------------------------------------------
(* The invariant.                                                          *)

\* What is on the wire can be parsed; our own offer has only codecs that were
\* enabled, and crypto lines only if encryption is on.
OfferInv ==
  \/ offer = None
  \/ /\ offer.result = "ok" /\ offer.ours \in BOOLEAN
     /\ Readable(offer.formats) /\ offer.crypto \in Seq(Line)
     /\ offer.ours =>
          /\ \A i \in DOMAIN offer.formats :
               offer.formats[i].name # "" /\ offer.formats[i].name \in offer.enabled
          /\ offer.crypto # <<>> => enc["offerer"] # "none"

\* A codec that was selected, from format f of the offer.
Selected(f, ci) ==
  /\ ci \in Codec /\ Stable(ci.info) /\ (ci.info.params.modes # {} => ci.info.codec = "AMR-WB")
  /\ ci.type = f.type /\ ci.info.codec = nameOf(f)
  /\ f.params.modes # {} => ci.info.params.modes = f.params.modes

\* What the answerer has selected is in the offer, and the answer says it.
AudioInv ==
  LET a == conf["answerer"]
  IN  /\ \E i \in DOMAIN offer.formats : Selected(offer.formats[i], a.audio)
      /\ a.audio.info.codec # Event
      /\ a.dtmf # NoEvents =>
           /\ \E i \in DOMAIN offer.formats : Selected(offer.formats[i], a.dtmf)
           /\ a.dtmf.info.codec = Event /\ a.dtmf.info.clock <= a.audio.info.clock
      /\ answer.formats = IF a.dtmf = NoEvents THEN <<format(a.audio)>>
                          ELSE <<format(a.audio), format(a.dtmf)>>

\* The same of the keys.
CryptoInv ==
  LET a == conf["answerer"]
  IN  \/ a.crypto = None /\ answer.crypto = <<>>
      \/ LET l == answer.crypto[1]
             o == offer.crypto[firstWith(offer.crypto, l.profile)]
         IN  /\ answer.crypto = <<l>> /\ l \in Line
             /\ common(offer.crypto, l) /\ l.index = o.index
             /\ a.crypto = [profile |-> l.profile,
                            keys |-> [local |-> l.key, remote |-> o.key]]

AnswerInv ==
  /\ DOMAIN conf = Parties
  /\ answer = None => \A p \in Parties : conf[p] = None
  /\ answer = Failed => conf = [p \in Parties |-> IF p = "answerer" THEN Failed ELSE None]
  /\ answer \notin {None, Failed} =>
       offer # None /\ settled("answerer") /\ AudioInv /\ CryptoInv

NegotiationInv ==
  /\ enc \in [Parties -> {"none", "allow", "require"}]
  /\ profiles \in [Parties -> Seq(Suites)]
  /\ OfferInv /\ AnswerInv /\ ConfigsAgree

----------------------------------------------------------------------------
(* The offer.                                                              *)

LEMMA OffersAre ==
  \A i \in 1..8 : Offers[i] \in Info /\ (Offers[i].params.modes # {} => Offers[i].codec = "AMR-WB")
<1>0. NoParams \in Params /\ NoParams.modes = {} /\ NoParams.octetAlign = FALSE
  BY DEF NoParams, Params
<1>1. \A i \in 1..5 : Codecs[i] \in Names \ {Event}
  BY DEF Codecs, Names, Event
<1>2. \A i \in 6..8 : <<8, 16, 48>>[i - 5] \in {8, 16, 48}
  <2>1. \A i \in 6..8 : i = 6 \/ i = 7 \/ i = 8
    OBVIOUS
  <2> QED BY <2>1
<1>3. ASSUME NEW c \in Names \ {Event} PROVE supports(c, 0, 0, NoParams) # Failed
  <2>1. \A r, k, n, q : info(c, r, k, n, q) # Failed
    BY DEF info, Failed
  <2>2. CASE c \in {"PCMU", "PCMA"}
    BY <2>1, <2>2 DEF supports, supportsG711, Event
  <2>3. CASE c = "G722"
    BY <2>1, <2>3 DEF supports, supportsG722, Event
  <2>4. CASE c = "opus"
    BY <2>1, <2>4 DEF supports, supportsOpus, Event
  <2>5. CASE c = "AMR-WB"
    BY <2>1, <2>5, <1>0 DEF supports, supportsAMRWB, Event
  <2> QED BY <2>2, <2>3, <2>4, <2>5 DEF Names
<1>4. ASSUME NEW r \in {8, 16, 48} PROVE supports(Event, r, 0, NoParams) # Failed
  <2>1. info(Event, r, r, 0, NoParams) # Failed
    BY DEF info, Failed
  <2>2. r # 0 /\ r % 8 = 0
    OBVIOUS
  <2> QED BY <2>1, <2>2 DEF supports, supportsEvents, Event
<1> SUFFICES ASSUME NEW i \in 1..8
             PROVE  Offers[i] \in Info
                    /\ (Offers[i].params.modes # {} => Offers[i].codec = "AMR-WB")
  OBVIOUS
<1>5. CASE i < 6
  <2>1. i \in 1..5 /\ Offers[i] = supports(Codecs[i], 0, 0, NoParams)
    BY <1>5 DEF Offers
  <2>2. Codecs[i] \in Names /\ supports(Codecs[i], 0, 0, NoParams) # Failed
    BY <1>1, <1>3, <2>1
  <2> QED BY <1>0, <2>1, <2>2, SupportsIs
<1>6. CASE ~(i < 6)
  <2> DEFINE r == <<8, 16, 48>>[i - 5]
  <2>1. i \in 6..8 /\ Offers[i] = supports(Event, r, 0, NoParams)
    BY <1>6 DEF Offers
  <2>2. r \in {8, 16, 48}
    BY <1>2, <2>1
  <2> HIDE DEF r
  <2>3. Event \in Names /\ r \in Nat /\ supports(Event, r, 0, NoParams) # Failed
    BY <1>4, <2>2 DEF Names
  <2> QED BY <1>0, <2>1, <2>3, SupportsIs
<1> QED BY <1>5, <1>6

LEMMA FormatIs ==
  ASSUME NEW t \in Nat, NEW c \in Range(Codecs), NEW r \in Nat, NEW n \in Nat, NEW q \in Params
  PROVE  [type |-> t, name |-> c, rate |-> r, channels |-> n, params |-> q] \in Format
<1> DEFINE N == Range(Codecs) \cup Unknown \cup {""}
<1>1. c \in N
  OBVIOUS
<1>2. Format = [type : Nat, name : N, rate : Nat, channels : Nat, params : Params]
  BY DEF Format
<1> HIDE DEF N
<1> QED BY <1>1, <1>2

\* Our own list of profiles can be read by the other side.
LEMMA LocalProfilesAre ==
  ASSUME NEW p \in Parties, profiles \in [Parties -> Seq(Suites)]
  PROVE  localProfiles(p) \in Seq(Line)
<1> DEFINE ps == IF profiles[p] = <<>> THEN DefaultProfiles ELSE profiles[p]
<1>1. ps \in Seq(Suites)
  <2>1. Supported \subseteq Suites
    BY DEF Suites
  <2>2. DefaultProfiles \in Seq(Supported)
    BY DEF DefaultProfiles, Supported
  <2>3. DefaultProfiles \in Seq(Suites)
    BY <2>1, <2>2
  <2> QED BY <2>3
<1> HIDE DEF ps
<1>2. \A i \in 1..Len(ps) : [index |-> i, profile |-> ps[i], key |-> <<p, i>>] \in Line
  BY <1>1 DEF Line, Parties
<1>3. localProfiles(p) = [i \in 1..Len(ps) |-> [index |-> i, profile |-> ps[i], key |-> <<p, i>>]]
  BY <1>1 DEF localProfiles, ps
<1> QED BY <1>1, <1>2, <1>3

LEMMA OfferMade ==
  ASSUME NegotiationInv, NewOffer
  PROVE  OfferInv'
<1> DEFINE p == "offerer"
           cs == offerCodecs(p)
           S == offeredPlaces(p)
           fs == [i \in DOMAIN cs |-> format(cs[i])]
<1>1. /\ offer' = [result |-> "ok", ours |-> TRUE, formats |-> fs,
                   crypto |-> IF enc[p] # "none" THEN localProfiles(p) ELSE <<>>,
                   enabled |-> enabledCodecs(p)]
      /\ enc' = enc
  BY DEF NewOffer
<1>2. /\ DOMAIN cs = S /\ \A i \in S : cs[i].info = Offers[i]
      /\ \A i \in S : cs[i].type = IF isStatic(Offers[i].codec) THEN staticType[Offers[i].codec]
                      ELSE 101 + Cardinality({j \in S : j < i /\ ~isStatic(Offers[j].codec)})
  BY DEF offerCodecs
<1>3. S \subseteq 1..8 /\ \A i \in S : Offers[i].codec \in enabledCodecs(p)
  BY DEF offeredPlaces
<1> HIDE DEF cs, S
<1>4. \A i \in S : cs[i].type \in Nat
  <2> SUFFICES ASSUME NEW i \in S PROVE cs[i].type \in Nat
    OBVIOUS
  <2>1. CASE isStatic(Offers[i].codec)
    <3>1. staticType \in [{"PCMU", "PCMA", "G722"} -> Nat]
      BY DEF staticType
    <3>2. cs[i].type = staticType[Offers[i].codec]
      BY <1>2, <2>1
    <3>3. Offers[i].codec \in {"PCMU", "PCMA", "G722"}
      BY <2>1, <3>1 DEF isStatic
    <3> QED BY <3>1, <3>2, <3>3
  <2>2. CASE ~isStatic(Offers[i].codec)
    <3> DEFINE D == {j \in S : j < i /\ ~isStatic(Offers[j].codec)}
    <3>1. D \subseteq 1..8
      BY <1>3
    <3>0. IsFiniteSet(1..8)
      <4>1. 1 \in Int /\ 8 \in Int
        OBVIOUS
      <4> HIDE DEF D
      <4> QED BY <4>1, FS_Interval
    <3> HIDE DEF D
    <3>2. Cardinality(D) \in Nat
      BY <3>0, <3>1, FS_Subset, FS_CardinalityType
    <3> QED BY <1>2, <2>2, <3>2 DEF D
  <2> QED BY <2>1, <2>2
<1>5. ASSUME NEW i \in S
      PROVE  /\ fs[i] \in Format /\ fs[i].name = Offers[i].codec
             /\ fs[i].params.modes # {} => fs[i].name = "AMR-WB"
  <2>1. /\ Offers[i] \in Info
        /\ Offers[i].params.modes # {} => Offers[i].codec = "AMR-WB"
    BY <1>3, OffersAre
  <2>2. fs[i] = [type |-> cs[i].type, name |-> Offers[i].codec, rate |-> Offers[i].clock,
                 channels |-> Offers[i].channels, params |-> Offers[i].params]
    BY <1>2 DEF format
  <2>3. Offers[i].codec \in Range(Codecs)
    BY <2>1, NamesAre DEF Info
  <2>4. /\ cs[i].type \in Nat /\ Offers[i].clock \in Nat /\ Offers[i].channels \in Nat
        /\ Offers[i].params \in Params
    BY <1>4, <2>1 DEF Info
  <2> HIDE DEF fs
  <2>5. fs[i] \in Format
    BY <2>2, <2>3, <2>4, FormatIs
  <2> QED BY <2>1, <2>2, <2>5
<1>6. Readable(fs)
  <2>1. DOMAIN fs = S
    BY <1>2
  <2> HIDE DEF fs
  <2>2. S \subseteq Nat
    BY <1>3
  <2> QED BY <1>5, <2>1, <2>2 DEF Readable
<1>7. \A i \in DOMAIN fs : fs[i].name # "" /\ fs[i].name \in enabledCodecs(p)
  <2>1. \A i \in S : Offers[i].codec # ""
    BY <1>3, OffersAre DEF Info, Names, Event
  <2> QED BY <1>2, <1>3, <1>5, <2>1
<1>8. (IF enc[p] # "none" THEN localProfiles(p) ELSE <<>>) \in Seq(Line)
  BY LocalProfilesAre DEF NegotiationInv, Parties
<1> HIDE DEF fs
<1> DEFINE lines == IF enc[p] # "none" THEN localProfiles(p) ELSE <<>>
<1>9. lines # <<>> => enc[p] # "none"
  OBVIOUS
<1> HIDE DEF lines
<1>10. /\ offer'.result = "ok" /\ offer'.ours = TRUE /\ offer'.formats = fs
       /\ offer'.crypto = lines /\ offer'.enabled = enabledCodecs(p)
  BY <1>1 DEF lines
<1>11. lines \in Seq(Line)
  BY <1>8 DEF lines
<1> QED BY <1>1, <1>6, <1>7, <1>9, <1>10, <1>11 DEF OfferInv

LEMMA PeerOfferMade ==
  ASSUME NEW d \in PeerOffers, PeerOffer(d)
  PROVE  OfferInv'
<1>1. /\ d.formats \in Seq(Format) /\ d.crypto \in Seq(Line)
      /\ \A i \in DOMAIN d.formats :
           d.formats[i].params.modes # {} => d.formats[i].name = "AMR-WB"
  BY NegotiationAssumption
<1>2. Readable(d.formats)
  BY <1>1 DEF Readable
<1>3. /\ offer'.result = "ok" /\ offer'.ours = FALSE /\ offer'.formats = d.formats
      /\ offer'.crypto = d.crypto
  BY DEF PeerOffer
<1> QED BY <1>1, <1>2, <1>3 DEF OfferInv

----------------------------------------------------------------------------
(* The answer.                                                             *)

LEMMA Distinct ==
  /\ None # Failed
  /\ \A x, y : [profile |-> x, keys |-> y] # None
  /\ \A x, y, z, w : [result |-> "ok", profile |-> x, keys |-> y, line |-> z] # None
  /\ \A x, y, z : [result |-> "ok", audio |-> x, dtmf |-> y] # Failed
  /\ \A x, y, z : [result |-> "ok", audio |-> x, dtmf |-> y, crypto |-> z] \notin {None, Failed}
  /\ \A x, y : [result |-> "ok", formats |-> x, crypto |-> y] \notin {None, Failed}
  /\ NoEvents \notin Codec
  BY DEF None, Failed, NoEvents, Codec

\* A line of the answerer's own with the tag of the line of the offer that it matches.
Matches(offered, c) ==
  LET o == offered[firstWith(offered, c.line.profile)]
  IN  /\ c.line \in Line /\ common(offered, c.line) /\ c.line.index = o.index
      /\ c.profile = c.line.profile
      /\ c.keys = [local |-> c.line.key, remote |-> o.key]

\* What SelectCrypto gives the answerer: nothing, or such a line.
LEMMA AnswererCrypto ==
  ASSUME NEW offered \in Seq(Line), NEW own \in Seq(Line), NEW p \in Parties,
         crypto(p, offered, own, TRUE) # None
  PROVE  Matches(offered, crypto(p, offered, own, TRUE)) /\ enc[p] # "none"
<1> DEFINE c == crypto(p, offered, own, TRUE)
<1>1. c = selectCrypto(offered, own, TRUE) /\ enc[p] # "none"
  BY DEF crypto
<1>2. PICK i \in DOMAIN own :
        /\ common(offered, own[i])
        /\ c = chosen(offered[firstWith(offered, own[i].profile)], own[i], TRUE)
  BY <1>1, SelectCryptoIs
<1> HIDE DEF c
<1> DEFINE l == own[i]
           o == offered[firstWith(offered, l.profile)]
<1>3. l \in Line /\ \E q \in Range(offered) : q.profile = l.profile
  BY <1>2 DEF common
<1>4. firstWith(offered, l.profile) \in DOMAIN offered
  BY <1>3, FirstWithIs
<1>5. o \in Line
  BY <1>4
<1> HIDE DEF l, o
<1>6. o.index \in Nat
  BY <1>5 DEF Line
<1>7. /\ tagged(o, l) \in Line /\ tagged(o, l).index = o.index
      /\ tagged(o, l).profile = l.profile /\ tagged(o, l).key = l.key
  BY <1>3, <1>6 DEF tagged, Line
<1>8. /\ c.line = tagged(o, l) /\ c.profile = l.profile
      /\ c.keys = [local |-> l.key, remote |-> o.key]
  <2>1. c = chosen(o, l, TRUE)
    BY <1>2 DEF l, o
  <2>2. c = [result |-> "ok", profile |-> l.profile,
             keys |-> [local |-> l.key, remote |-> o.key], line |-> tagged(o, l)]
    BY <2>1 DEF chosen, ends
  <2>3. c.line = tagged(o, l)
    BY <2>2
  <2>4. c.profile = l.profile
    BY <2>2
  <2>5. c.keys = [local |-> l.key, remote |-> o.key]
    BY <2>2
  <2> QED BY <2>3, <2>4, <2>5
<1>9. common(offered, c.line)
  BY <1>2, <1>7, <1>8 DEF common, l
<1>10. o = offered[firstWith(offered, c.line.profile)]
  BY <1>7, <1>8 DEF o
<1>11. Matches(offered, c)
  BY <1>7, <1>8, <1>9, <1>10 DEF Matches
<1> QED BY <1>1, <1>11 DEF c

LEMMA Answered ==
  ASSUME NegotiationInv, Answer
  PROVE  AnswerInv' /\ ConfigsAgree'
<1> DEFINE p == "answerer"
           a == selectAudio(parseMedia(p, offer), FALSE)
           own == localProfiles(p)
           c == crypto(p, offer.crypto, own, TRUE)
<1>1. /\ offer # None /\ answer = None /\ offer' = offer /\ enc' = enc
      /\ IF a = Failed \/ refused(p, c)
         THEN answer' = Failed /\ conf' = [conf EXCEPT ![p] = Failed]
         ELSE answer' = answerMedia(a, c) /\ conf' = [conf EXCEPT ![p] = config(a, c)]
  BY DEF Answer
<1>2. DOMAIN conf = Parties /\ \A q \in Parties : conf[q] = None
  BY <1>1 DEF NegotiationInv, AnswerInv
<1>3. Readable(offer.formats) /\ offer.crypto \in Seq(Line)
  BY <1>1 DEF NegotiationInv, OfferInv
<1>4. p \in Parties /\ "offerer" \in Parties /\ p # "offerer"
  BY DEF Parties
<1>5. own \in Seq(Line)
  BY <1>4, LocalProfilesAre DEF NegotiationInv
<1>6. DOMAIN conf' = Parties /\ conf'["offerer"] = None
  BY <1>1, <1>2, <1>4
<1>7. \/ a = Failed
      \/ /\ a = [result |-> "ok", audio |-> a.audio, dtmf |-> a.dtmf]
         /\ \E i \in audioIn(p, offer.formats) : ReadAs(p, offer.formats[i], a.audio)
         /\ \/ a.dtmf = NoEvents
            \/ \E j \in eventsIn(p, offer.formats) :
                 ReadAs(p, offer.formats[j], a.dtmf) /\ a.dtmf.info.clock <= a.audio.info.clock
  BY <1>3, SelectAudioIs
<1> HIDE DEF a, own
<1>8. CASE a = Failed \/ refused(p, c)
  <2>1. answer' = Failed /\ conf'[p] = Failed
    BY <1>1, <1>2, <1>4, <1>8
  <2>2. conf' = [q \in Parties |-> IF q = "answerer" THEN Failed ELSE None]
    <3>1. conf' = [q \in Parties |-> conf'[q]]
      BY <1>1, <1>2, <1>8
    <3>2. \A q \in Parties : conf'[q] = IF q = "answerer" THEN Failed ELSE None
      BY <1>6, <2>1 DEF Parties
    <3> QED BY <3>1, <3>2
  <2>3. AnswerInv'
    BY <1>6, <2>1, <2>2, Distinct DEF AnswerInv
  <2>4. \A q \in Parties : ~settled(q)'
    BY <1>6, <2>1 DEF settled, Parties
  <2>5. ConfigsAgree'
    BY <1>4, <2>4 DEF ConfigsAgree
  <2> QED BY <2>3, <2>5
<1>9. CASE ~(a = Failed \/ refused(p, c))
  <2>1. answer' = answerMedia(a, c) /\ conf'[p] = config(a, c)
    BY <1>1, <1>2, <1>4, <1>9
  <2> DEFINE cf == config(a, c)
  <2>2. /\ cf = [result |-> "ok", audio |-> a.audio, dtmf |-> a.dtmf, crypto |-> cf.crypto]
        /\ cf.audio = a.audio /\ cf.dtmf = a.dtmf
        /\ cf.crypto = IF c = None THEN None ELSE [profile |-> c.profile, keys |-> c.keys]
    BY DEF config
  <2>3. /\ answer' = [result |-> "ok", formats |-> answer'.formats, crypto |-> answer'.crypto]
        /\ answer'.formats = IF a.dtmf = NoEvents THEN <<format(a.audio)>>
                             ELSE <<format(a.audio), format(a.dtmf)>>
        /\ answer'.crypto = IF c = None THEN <<>> ELSE <<c.line>>
    BY <2>1 DEF answerMedia
  <2> HIDE DEF cf
  <2>4. conf'[p] = cf
    BY <2>1 DEF cf
  <2>5. cf \notin {None, Failed} /\ answer' \notin {None, Failed}
    BY <2>2, <2>3, Distinct
  <2>6. AudioInv'
    <3>1. PICK i \in audioIn(p, offer.formats) : ReadAs(p, offer.formats[i], a.audio)
      BY <1>7, <1>9
    <3>2. /\ i \in DOMAIN offer.formats /\ Selected(offer.formats[i], a.audio)
          /\ a.audio.info.codec # Event
      BY <3>1 DEF ReadAs, Selected, audioIn, knownIn
    <3>3. ASSUME a.dtmf # NoEvents
          PROVE  /\ \E j \in DOMAIN offer.formats : Selected(offer.formats[j], a.dtmf)
                 /\ a.dtmf.info.codec = Event /\ a.dtmf.info.clock <= a.audio.info.clock
      <4>1. PICK j \in eventsIn(p, offer.formats) :
              ReadAs(p, offer.formats[j], a.dtmf) /\ a.dtmf.info.clock <= a.audio.info.clock
        BY <1>7, <1>9, <3>3
      <4> QED BY <4>1 DEF ReadAs, Selected, eventsIn, knownIn
    <3> QED BY <1>1, <2>2, <2>3, <2>4, <3>2, <3>3 DEF AudioInv
  <2>7. CASE c = None
    <3>1. CryptoInv'
      BY <2>2, <2>3, <2>4, <2>7 DEF CryptoInv
    <3>2. enc[p] # "require" /\ cf.crypto = None
      BY <1>9, <2>2, <2>7 DEF refused
    <3>3. AnswerInv'
      BY <1>1, <1>6, <2>4, <2>5, <2>6, <3>1 DEF AnswerInv, settled
    <3>4. ConfigsAgree'
      BY <1>1, <1>6, <2>4, <3>2 DEF ConfigsAgree, settled, Parties
    <3> QED BY <3>3, <3>4
  <2>8. CASE c # None
    <3> DEFINE l == c.line
               o == offer.crypto[firstWith(offer.crypto, l.profile)]
    <3>1. /\ l \in Line /\ common(offer.crypto, l) /\ l.index = o.index
          /\ c.profile = l.profile /\ c.keys = [local |-> l.key, remote |-> o.key]
          /\ enc[p] # "none"
      <4>1. Matches(offer.crypto, c) /\ enc[p] # "none"
        BY <1>3, <1>4, <1>5, <2>8, AnswererCrypto
      <4> QED BY <4>1 DEF Matches
    <3> HIDE DEF c
    <3>2. answer'.crypto = <<l>> /\ answer'.crypto[1] = l
      BY <2>3, <2>8
    <3>3. cf.crypto = [profile |-> l.profile, keys |-> [local |-> l.key, remote |-> o.key]]
      BY <2>2, <2>8, <3>1
    <3> HIDE DEF l
    <3>4. CryptoInv'
      BY <1>1, <2>4, <3>1, <3>2, <3>3 DEF CryptoInv
    <3>5. cf.crypto # None
      BY <3>3, Distinct
    <3>6. AnswerInv'
      BY <1>1, <1>6, <2>4, <2>5, <2>6, <3>4 DEF AnswerInv, settled
    <3>7. ConfigsAgree'
      BY <1>1, <1>6, <2>4, <3>1, <3>5 DEF ConfigsAgree, settled, Parties
    <3> QED BY <3>6, <3>7
  <2> QED BY <2>7, <2>8
<1> QED BY <1>8, <1>9

----------------------------------------------------------------------------
(* Applying the answer.                                                    *)

\* A codec that was selected, as the answer says it, is read by the offerer as the
\* same codec, or not at all.
LEMMA RoundTrip ==
  ASSUME NEW p, NEW f, NEW ci, Selected(f, ci)
  PROVE  /\ format(ci) \in Format
         /\ format(ci).params.modes # {} => format(ci).name = "AMR-WB"
         /\ isEnabled(p, ci.info.codec) => parsed(p, format(ci)) = ci
         /\ ~isEnabled(p, ci.info.codec) => parsed(p, format(ci)).info = Failed
<1> DEFINE t == ci.type
           i == ci.info
           g == format(ci)
<1>1. ci \in Codec /\ Stable(i) /\ (i.params.modes # {} => i.codec = "AMR-WB")
  BY DEF Selected
<1>2. t \in Nat /\ i \in Info /\ ci = [type |-> t, info |-> i]
  BY <1>1 DEF Codec
<1>3. /\ i.codec \in Range(Codecs) /\ i.clock \in Nat /\ i.channels \in Nat /\ i.params \in Params
      /\ i.codec # ""
  BY <1>2, NamesAre DEF Info, Names, Event
<1>4. g = [type |-> t, name |-> i.codec, rate |-> i.clock, channels |-> i.channels,
           params |-> i.params]
  BY DEF format
<1> HIDE DEF t, i, g
<1>5. g \in Format
  BY <1>2, <1>3, <1>4, FormatIs
<1>6. /\ g.type = t /\ g.name = i.codec /\ g.rate = i.clock /\ g.channels = i.channels
      /\ g.params = i.params
  BY <1>4
<1>7. nameOf(g) = i.codec
  BY <1>3, <1>6 DEF nameOf
<1>8. codecByName(p, nameOf(g)) <=> isEnabled(p, i.codec)
  BY <1>3, <1>7 DEF codecByName
<1>9. parsed(p, g) = [type |-> t, info |-> IF isEnabled(p, i.codec) THEN i ELSE Failed]
  <2>1. supports(nameOf(g), g.rate, g.channels, g.params) = i
    BY <1>1, <1>6, <1>7 DEF Stable
  <2> QED BY <1>6, <1>8, <2>1 DEF parsed
<1>10. isEnabled(p, i.codec) => parsed(p, g) = ci
  BY <1>2, <1>9
<1>11. ~isEnabled(p, i.codec) => parsed(p, g).info = Failed
  BY <1>9
<1> QED BY <1>1, <1>5, <1>6, <1>10, <1>11 DEF g, i

\* What the offerer selects of the answer.
LEMMA AnswerRead ==
  ASSUME AudioInv, Failed \notin Info
  PROVE  LET p == "offerer"
             b == conf["answerer"]
             a == selectAudio(parseMedia(p, answer), TRUE)
         IN  \/ a = Failed /\ ~isEnabled(p, b.audio.info.codec)
             \/ /\ a = [result |-> "ok", audio |-> b.audio, dtmf |-> a.dtmf]
                /\ a.dtmf \in {b.dtmf, NoEvents}
                /\ isEnabled(p, Event) => a.dtmf = b.dtmf
<1> DEFINE p == "offerer"
           b == conf["answerer"]
           fs == answer.formats
           a == selectAudio(parseMedia(p, answer), TRUE)
<1>1. PICK f : Selected(f, b.audio)
  BY DEF AudioInv
<1>2. /\ b.audio.info.codec # Event /\ b.audio.info \in Info
      /\ fs = IF b.dtmf = NoEvents THEN <<format(b.audio)>>
              ELSE <<format(b.audio), format(b.dtmf)>>
  BY <1>1 DEF AudioInv, Selected, Codec
<1>3. b.dtmf # NoEvents =>
        /\ \E g : Selected(g, b.dtmf)
        /\ b.dtmf.info.codec = Event /\ b.dtmf.info.clock <= b.audio.info.clock
        /\ b.dtmf.info \in Info
  BY DEF AudioInv, Selected, Codec
<1> HIDE DEF b, fs, a, p
<1>4. /\ 1 \in DOMAIN fs /\ fs[1] = format(b.audio)
      /\ \A i \in DOMAIN fs : i = 1 \/ (i = 2 /\ b.dtmf # NoEvents /\ fs[i] = format(b.dtmf))
      /\ b.dtmf # NoEvents => 2 \in DOMAIN fs /\ fs[2] = format(b.dtmf)
  <2>1. CASE b.dtmf = NoEvents
    BY <1>2, <2>1
  <2>2. CASE b.dtmf # NoEvents
    BY <1>2, <2>2
  <2> QED BY <2>1, <2>2
<1>5. /\ fs[1] \in Format
      /\ fs[1].params.modes # {} => fs[1].name = "AMR-WB"
      /\ isEnabled(p, b.audio.info.codec) => parsed(p, fs[1]) = b.audio
      /\ ~isEnabled(p, b.audio.info.codec) => parsed(p, fs[1]).info = Failed
  BY <1>1, <1>4, RoundTrip
<1>6. ASSUME b.dtmf # NoEvents
      PROVE  /\ fs[2] \in Format
             /\ fs[2].params.modes # {} => fs[2].name = "AMR-WB"
             /\ isEnabled(p, b.dtmf.info.codec) => parsed(p, fs[2]) = b.dtmf
             /\ ~isEnabled(p, b.dtmf.info.codec) => parsed(p, fs[2]).info = Failed
  <2>1. PICK g : Selected(g, b.dtmf)
    BY <1>3, <1>6
  <2> QED BY <1>4, <1>6, <2>1, RoundTrip
<1>7. Readable(fs)
  <2>1. DOMAIN fs \subseteq Nat
    BY <1>4
  <2>2. \A i \in DOMAIN fs : fs[i] \in Format /\ (fs[i].params.modes # {} => fs[i].name = "AMR-WB")
    BY <1>4, <1>5, <1>6
  <2> QED BY <2>1, <2>2 DEF Readable
<1>8. \/ a = Failed /\ audioIn(p, fs) = {}
      \/ /\ a = [result |-> "ok", audio |-> a.audio, dtmf |-> a.dtmf]
         /\ \E i \in audioIn(p, fs) : ReadAs(p, fs[i], a.audio)
         /\ \/ /\ a.dtmf = NoEvents
               /\ \A j \in eventsIn(p, fs) : parsed(p, fs[j]).info.clock > a.audio.info.clock
            \/ \E j \in eventsIn(p, fs) :
                 ReadAs(p, fs[j], a.dtmf) /\ a.dtmf.info.clock <= a.audio.info.clock
  BY <1>7, SelectAudioIs DEF fs, a
<1>9. audioIn(p, fs) = IF isEnabled(p, b.audio.info.codec) THEN {1} ELSE {}
  <2>1. 1 \in audioIn(p, fs) <=> isEnabled(p, b.audio.info.codec)
    BY <1>2, <1>4, <1>5 DEF audioIn, knownIn
  <2>2. \A i \in audioIn(p, fs) : i = 1
    BY <1>3, <1>4, <1>6 DEF audioIn, knownIn
  <2> QED BY <2>1, <2>2
<1>10. /\ \A j \in eventsIn(p, fs) : j = 2 /\ b.dtmf # NoEvents /\ parsed(p, fs[j]) = b.dtmf
       /\ b.dtmf # NoEvents /\ isEnabled(p, Event) => 2 \in eventsIn(p, fs)
  <2>1. 1 \notin eventsIn(p, fs)
    BY <1>2, <1>5 DEF eventsIn, knownIn
  <2>2. \A j \in eventsIn(p, fs) : j = 2 /\ b.dtmf # NoEvents
    BY <1>4, <2>1 DEF eventsIn, knownIn
  <2>3. \A j \in eventsIn(p, fs) : parsed(p, fs[j]) = b.dtmf
    BY <1>6, <2>2 DEF eventsIn, knownIn
  <2>4. b.dtmf # NoEvents /\ isEnabled(p, Event) => 2 \in eventsIn(p, fs)
    BY <1>3, <1>4, <1>6 DEF eventsIn, knownIn
  <2> QED BY <2>2, <2>3, <2>4
<1>11. CASE a = Failed /\ audioIn(p, fs) = {}
  BY <1>9, <1>11 DEF a, b, p
<1>12. ASSUME ~(a = Failed /\ audioIn(p, fs) = {})
       PROVE  /\ a = [result |-> "ok", audio |-> b.audio, dtmf |-> a.dtmf]
              /\ a.dtmf \in {b.dtmf, NoEvents}
              /\ isEnabled(p, Event) => a.dtmf = b.dtmf
  <2>1. isEnabled(p, b.audio.info.codec) /\ ReadAs(p, fs[1], a.audio)
    BY <1>8, <1>9, <1>12
  <2>2. a.audio = b.audio
    BY <1>5, <2>1 DEF ReadAs
  <2>3. a = [result |-> "ok", audio |-> b.audio, dtmf |-> a.dtmf]
    BY <1>8, <1>12, <2>2
  <2>4. CASE a.dtmf = NoEvents /\ \A j \in eventsIn(p, fs) : parsed(p, fs[j]).info.clock > a.audio.info.clock
    <3>1. ASSUME isEnabled(p, Event), b.dtmf # NoEvents
          PROVE  FALSE
      <4>1. 2 \in eventsIn(p, fs) /\ parsed(p, fs[2]) = b.dtmf
        BY <1>10, <3>1
      <4>2. b.dtmf.info.clock > b.audio.info.clock /\ b.dtmf.info.clock <= b.audio.info.clock
        BY <1>3, <2>2, <2>4, <3>1, <4>1
      <4>3. b.dtmf.info.clock \in Nat /\ b.audio.info.clock \in Nat
        BY <1>2, <1>3, <3>1 DEF Info
      <4> QED BY <4>2, <4>3
    <3> QED BY <2>3, <2>4, <3>1
  <2>5. CASE \E j \in eventsIn(p, fs) : ReadAs(p, fs[j], a.dtmf)
    <3>1. a.dtmf = b.dtmf
      BY <1>10, <2>5 DEF ReadAs
    <3> QED BY <2>3, <3>1
  <2> QED BY <1>8, <1>12, <2>4, <2>5
<1> QED BY <1>11, <1>12 DEF a, b, p

\* What crypto the offerer selects: none if the answer has none, and otherwise the
\* keys that the answerer has, from the other side.
LEMMA OffererCrypto ==
  ASSUME CryptoInv, offer.crypto \in Seq(Line), offer.crypto # <<>> => enc["offerer"] # "none"
  PROVE  LET b == conf["answerer"].crypto
             c == crypto("offerer", offer.crypto, answer.crypto, FALSE)
         IN  \/ c = None /\ b = None /\ answer.crypto = <<>>
             \/ /\ c # None /\ b # None /\ enc["offerer"] # "none"
                /\ c.profile = b.profile
                /\ c.keys = [local |-> b.keys.remote, remote |-> b.keys.local]
<1> DEFINE b == conf["answerer"].crypto
           c == crypto("offerer", offer.crypto, answer.crypto, FALSE)
           l == answer.crypto[1]
           o == offer.crypto[firstWith(offer.crypto, l.profile)]
<1>1. CASE b = None /\ answer.crypto = <<>>
  BY <1>1 DEF crypto
<1>2. ASSUME ~(b = None /\ answer.crypto = <<>>)
      PROVE  /\ c # None /\ b # None /\ enc["offerer"] # "none"
             /\ c.profile = b.profile
             /\ c.keys = [local |-> b.keys.remote, remote |-> b.keys.local]
  <2>1. /\ answer.crypto = <<l>> /\ l \in Line /\ common(offer.crypto, l)
        /\ b = [profile |-> l.profile, keys |-> [local |-> l.key, remote |-> o.key]]
    BY <1>2 DEF CryptoInv
  <2> HIDE DEF b, l, o
  <2>2. offer.crypto # <<>>
    BY <2>1 DEF common, Range
  <2>3. enc["offerer"] # "none" /\ answer.crypto # <<>>
    BY <2>1, <2>2
  <2>4. c = selectCrypto(offer.crypto, answer.crypto, FALSE)
    BY <2>3 DEF crypto
  <2>5. answer.crypto \in Seq(Line) /\ DOMAIN answer.crypto = {1} /\ answer.crypto[1] = l
    BY <2>1
  <2>6. \/ c = None /\ \A i \in DOMAIN answer.crypto : ~common(offer.crypto, answer.crypto[i])
        \/ \E i \in DOMAIN answer.crypto :
             c = chosen(offer.crypto[firstWith(offer.crypto, answer.crypto[i].profile)],
                        answer.crypto[i], FALSE)
    BY <2>4, <2>5, SelectCryptoIs
  <2> HIDE DEF c
  <2>7. c = chosen(o, l, FALSE)
    BY <2>1, <2>5, <2>6 DEF o
  <2>8. c = [result |-> "ok", profile |-> l.profile,
             keys |-> [local |-> o.key, remote |-> l.key], line |-> o]
    BY <2>7 DEF chosen, ends
  <2>9. c # None /\ b # None
    BY <2>1, <2>8, Distinct
  <2>10. c.profile = l.profile /\ c.keys = [local |-> o.key, remote |-> l.key]
    BY <2>8
  <2>11. b.profile = l.profile /\ b.keys.local = l.key /\ b.keys.remote = o.key
    BY <2>1
  <2> QED BY <2>3, <2>9, <2>10, <2>11
<1> QED BY <1>1, <1>2

\* Apply: what the offerer ends with.
LEMMA Applied ==
  ASSUME NegotiationInv, Apply
  PROVE  /\ AnswerInv' /\ ConfigsAgree'
         /\ (\A c \in offer.enabled : isEnabled("offerer", c)) =>
              IF conf'["offerer"] = Failed
              THEN enc["offerer"] = "require" /\ answer.crypto = <<>>
              ELSE conf'["offerer"].dtmf = conf["answerer"].dtmf
<1> DEFINE p == "offerer"
           b == conf["answerer"]
           a == selectAudio(parseMedia(p, answer), TRUE)
           c == crypto(p, offer.crypto, answer.crypto, FALSE)
<1>1. /\ offer # None /\ offer.ours /\ answer \notin {None, Failed} /\ conf[p] = None
      /\ conf' = [conf EXCEPT ![p] = IF a = Failed \/ refused(p, c) THEN Failed
                                     ELSE config(a, c)]
      /\ offer' = offer /\ answer' = answer /\ enc' = enc
  BY DEF Apply
<1>2. DOMAIN conf = Parties /\ settled("answerer") /\ AudioInv /\ CryptoInv
  BY <1>1 DEF NegotiationInv, AnswerInv
<1>3. /\ offer.crypto \in Seq(Line) /\ (offer.crypto # <<>> => enc[p] # "none")
      /\ \A i \in DOMAIN offer.formats :
           offer.formats[i].name # "" /\ offer.formats[i].name \in offer.enabled
  BY <1>1 DEF NegotiationInv, OfferInv
<1>4. \/ a = Failed /\ ~isEnabled(p, b.audio.info.codec)
      \/ /\ a = [result |-> "ok", audio |-> b.audio, dtmf |-> a.dtmf]
         /\ a.dtmf \in {b.dtmf, NoEvents}
         /\ isEnabled(p, Event) => a.dtmf = b.dtmf
  BY <1>2, NamesAre, AnswerRead
<1>5. \/ c = None /\ b.crypto = None /\ answer.crypto = <<>>
      \/ /\ c # None /\ b.crypto # None /\ enc[p] # "none"
         /\ c.profile = b.crypto.profile
         /\ c.keys = [local |-> b.crypto.keys.remote, remote |-> b.crypto.keys.local]
  BY <1>2, <1>3, OffererCrypto
<1>6. /\ b.audio.info.codec \in offer.enabled
      /\ b.dtmf # NoEvents => Event \in offer.enabled
  <2>1. ASSUME NEW ci, \E i \in DOMAIN offer.formats : Selected(offer.formats[i], ci)
        PROVE  ci.info.codec \in offer.enabled
    BY <1>3, <2>1 DEF Selected, nameOf
  <2> QED BY <1>2, <2>1 DEF AudioInv
<1> HIDE DEF a, c
<1>7. p \in Parties /\ "answerer" \in Parties /\ p # "answerer"
  BY DEF Parties
<1>8. /\ DOMAIN conf' = Parties /\ conf'["answerer"] = b
      /\ conf'[p] = IF a = Failed \/ refused(p, c) THEN Failed ELSE config(a, c)
  BY <1>1, <1>2, <1>7
<1>9. AnswerInv'
  <2>1. AudioInv'
    BY <1>1, <1>2, <1>8 DEF AudioInv
  <2>2. CryptoInv'
    BY <1>1, <1>2, <1>8 DEF CryptoInv
  <2>3. settled("answerer")'
    BY <1>2, <1>8 DEF settled
  <2> QED BY <1>1, <1>8, <2>1, <2>2, <2>3 DEF AnswerInv
<1>10. /\ settled("answerer") => /\ enc["answerer"] = "require" => b.crypto # None
                                 /\ enc["answerer"] = "none" => b.crypto = None
  BY <1>7 DEF NegotiationInv, ConfigsAgree
<1>11. CASE a = Failed \/ refused(p, c)
  <2>1. conf'[p] = Failed
    BY <1>8, <1>11
  <2>2. ConfigsAgree'
    BY <1>1, <1>2, <1>8, <1>10, <2>1 DEF ConfigsAgree, settled, Parties
  <2>3. ASSUME \A d \in offer.enabled : isEnabled(p, d)
        PROVE  enc[p] = "require" /\ answer.crypto = <<>>
    <3>1. refused(p, c)
      <4>1. a = [result |-> "ok", audio |-> b.audio, dtmf |-> a.dtmf]
        BY <1>4, <1>6, <2>3
      <4>2. a # Failed
        BY <4>1, Distinct
      <4> QED BY <1>11, <4>2
    <3> QED BY <1>5, <3>1 DEF refused
  <2> QED BY <1>9, <2>1, <2>2, <2>3
<1>12. CASE ~(a = Failed \/ refused(p, c))
  <2> DEFINE cf == config(a, c)
  <2>1. /\ cf = [result |-> "ok", audio |-> a.audio, dtmf |-> a.dtmf, crypto |-> cf.crypto]
        /\ cf.audio = a.audio /\ cf.dtmf = a.dtmf
        /\ cf.crypto = IF c = None THEN None ELSE [profile |-> c.profile, keys |-> c.keys]
    BY DEF config
  <2>2. a.audio = b.audio /\ a.dtmf \in {b.dtmf, NoEvents} /\ (isEnabled(p, Event) => a.dtmf = b.dtmf)
    BY <1>4, <1>12
  <2>3. conf'[p] = cf
    BY <1>8, <1>12
  <2> HIDE DEF cf
  <2>4. cf \notin {None, Failed}
    BY <2>1, Distinct
  <2>5. CASE c = None
    <3>1. cf.crypto = None /\ b.crypto = None /\ enc[p] # "require"
      BY <1>5, <1>12, <2>1, <2>5 DEF refused
    <3>2. ConfigsAgree'
      BY <1>1, <1>2, <1>8, <1>10, <2>1, <2>2, <2>3, <3>1 DEF ConfigsAgree, settled, Parties
    <3> QED BY <1>9, <2>1, <2>2, <2>3, <2>4, <3>2, <1>6
  <2>6. CASE c # None
    <3>1. /\ cf.crypto = [profile |-> b.crypto.profile,
                          keys |-> [local |-> b.crypto.keys.remote,
                                    remote |-> b.crypto.keys.local]]
          /\ b.crypto # None /\ enc[p] # "none"
      BY <1>5, <2>1, <2>6
    <3>2. /\ cf.crypto # None /\ cf.crypto.profile = b.crypto.profile
          /\ cf.crypto.keys.local = b.crypto.keys.remote
          /\ cf.crypto.keys.remote = b.crypto.keys.local
      BY <3>1, Distinct
    <3>3. ConfigsAgree'
      BY <1>1, <1>2, <1>8, <1>10, <2>1, <2>2, <2>3, <3>1, <3>2 DEF ConfigsAgree, settled, Parties
    <3> QED BY <1>9, <2>1, <2>2, <2>3, <2>4, <3>3, <1>6
  <2> QED BY <2>5, <2>6
<1> QED BY <1>11, <1>12

----------------------------------------------------------------------------
(* The theorems.                                                           *)

LEMMA NegotiationInit == Init => NegotiationInv
<1> SUFFICES ASSUME Init PROVE NegotiationInv
  OBVIOUS
<1>1. /\ offer = None /\ answer = None /\ conf = [p \in Parties |-> None]
      /\ enc \in [Parties -> {"none", "allow", "require"}]
      /\ profiles \in [Parties -> ProfileLists]
  BY DEF Init
<1>2. profiles \in [Parties -> Seq(Suites)]
  BY <1>1, NegotiationAssumption
<1>3. OfferInv /\ AnswerInv
  BY <1>1, Distinct DEF OfferInv, AnswerInv
<1>4. \A p \in Parties : ~settled(p)
  BY <1>1 DEF settled
<1>5. ConfigsAgree
  BY <1>4 DEF ConfigsAgree, Parties
<1> QED BY <1>1, <1>2, <1>3, <1>5 DEF NegotiationInv

LEMMA NegotiationStep ==
  ASSUME NegotiationInv, [Next]_vars
  PROVE  NegotiationInv'
<1>1. ASSUME UNCHANGED <<enc, profiles, offer, answer, conf>>
      PROVE  NegotiationInv'
  BY <1>1 DEF NegotiationInv, OfferInv, AnswerInv, ConfigsAgree, AudioInv, CryptoInv, settled
<1>2. ASSUME offer = None, OfferInv', UNCHANGED <<sets, calls, enc, profiles, answer, conf>>
      PROVE  NegotiationInv'
  <2>1. answer \in {None, Failed}
    BY <1>2 DEF NegotiationInv, AnswerInv
  <2>2. AnswerInv'
    BY <1>2, <2>1 DEF NegotiationInv, AnswerInv
  <2>3. ConfigsAgree'
    BY <1>2 DEF NegotiationInv, ConfigsAgree, settled
  <2> QED BY <1>2, <2>2, <2>3 DEF NegotiationInv
<1>3. CASE \E s \in DOMAIN sets, c \in Toggled, v \in {"on", "off"} : SetEnabled(s, c, v)
  BY <1>1, <1>3 DEF SetEnabled
<1>4. CASE NewOffer
  BY <1>2, <1>4, OfferMade DEF NewOffer
<1>5. CASE \E d \in PeerOffers : PeerOffer(d)
  BY <1>2, <1>5, PeerOfferMade DEF PeerOffer
<1>6. ASSUME UNCHANGED <<sets, calls, enc, profiles, offer>>, AnswerInv', ConfigsAgree'
      PROVE  NegotiationInv'
  BY <1>6 DEF NegotiationInv, OfferInv
<1>7. CASE Answer
  BY <1>6, <1>7, Answered DEF Answer
<1>8. CASE Apply
  <2>1. UNCHANGED <<sets, calls, enc, profiles, offer>>
    BY <1>8 DEF Apply
  <2> QED BY <1>6, <1>8, <2>1, Applied
<1>9. CASE UNCHANGED vars
  BY <1>1, <1>9 DEF vars
<1> QED BY <1>3, <1>4, <1>5, <1>7, <1>8, <1>9 DEF Next

\* Whatever was offered, and however codecs are enabled and disabled between the
\* steps, the invariant holds.
THEOREM NegotiationInvariant == Spec => []NegotiationInv
<1>1. NegotiationInv /\ [Next]_vars => NegotiationInv'
  BY NegotiationStep
<1> QED BY <1>1, NegotiationInit, PTL DEF Spec

\* Offerer and answerer end with the same codec, events, profile and keys
\* (SelectAudio and SelectCrypto of sdp/offer.go on both ends).
THEOREM ConfigsAgreeHolds == Spec => []ConfigsAgree
<1>1. NegotiationInv => ConfigsAgree
  BY DEF NegotiationInv
<1> QED BY <1>1, NegotiationInvariant, PTL

\* The answer keeps to the offer, of this code or of any other program.
THEOREM AnswerWithinOfferHolds == Spec => []AnswerWithinOffer
<1>1. NegotiationInv => AnswerWithinOffer
  <2> SUFFICES ASSUME NegotiationInv, answer \notin {None, Failed} PROVE
        /\ \A f \in Range(answer.formats) :
             \E g \in offeredAs(f) : /\ nameOf(g) = f.name
                                     /\ f.rate <= answer.formats[1].rate
                                     /\ g.params.modes # {} => f.params.modes = g.params.modes
        /\ \A k \in Range(answer.crypto) :
             \E o \in Range(offer.crypto) : o.index = k.index /\ o.profile = k.profile
    BY DEF AnswerWithinOffer
  <2> DEFINE b == conf["answerer"]
  <2>1. AudioInv /\ CryptoInv /\ offer # None
    BY DEF NegotiationInv, AnswerInv
  <2>2. offer.crypto \in Seq(Line)
    BY <2>1 DEF NegotiationInv, OfferInv
  <2>3. ASSUME NEW ci, NEW i \in DOMAIN offer.formats, Selected(offer.formats[i], ci)
        PROVE  \E g \in offeredAs(format(ci)) :
                 /\ nameOf(g) = format(ci).name
                 /\ g.params.modes # {} => format(ci).params.modes = g.params.modes
    <3>1. /\ format(ci).type = ci.type /\ format(ci).name = ci.info.codec
          /\ format(ci).params = ci.info.params
      BY DEF format
    <3>2. offer.formats[i] \in offeredAs(format(ci))
      BY <2>3, <3>1 DEF offeredAs, Range, Selected
    <3> QED BY <2>3, <3>1, <3>2 DEF Selected
  <2>4. /\ answer.formats[1] = format(b.audio)
        /\ \A f \in Range(answer.formats) :
             f = format(b.audio) \/ (f = format(b.dtmf) /\ b.dtmf # NoEvents)
    <3>1. answer.formats = IF b.dtmf = NoEvents THEN <<format(b.audio)>>
                           ELSE <<format(b.audio), format(b.dtmf)>>
      BY <2>1 DEF AudioInv
    <3> HIDE DEF b
    <3>2. CASE b.dtmf = NoEvents
      BY <3>1, <3>2 DEF Range
    <3>3. CASE b.dtmf # NoEvents
      BY <3>1, <3>3 DEF Range
    <3> QED BY <3>2, <3>3
  <2>5. b.audio.info.clock \in Nat /\ \A ci : format(ci).rate = ci.info.clock
    BY <2>1 DEF AudioInv, Selected, Codec, Info, format
  <2>6. \A f \in Range(answer.formats) :
          \E g \in offeredAs(f) : /\ nameOf(g) = f.name
                                  /\ f.rate <= answer.formats[1].rate
                                  /\ g.params.modes # {} => f.params.modes = g.params.modes
    <3> SUFFICES ASSUME NEW f \in Range(answer.formats)
                 PROVE  \E g \in offeredAs(f) :
                          /\ nameOf(g) = f.name
                          /\ f.rate <= answer.formats[1].rate
                          /\ g.params.modes # {} => f.params.modes = g.params.modes
      OBVIOUS
    <3>1. CASE f = format(b.audio)
      <4>1. PICK i \in DOMAIN offer.formats : Selected(offer.formats[i], b.audio)
        BY <2>1 DEF AudioInv
      <4>2. f.rate <= answer.formats[1].rate
        BY <2>4, <2>5, <3>1
      <4>3. \E g \in offeredAs(f) :
              /\ nameOf(g) = f.name
              /\ g.params.modes # {} => f.params.modes = g.params.modes
        BY <2>3, <3>1, <4>1
      <4> QED BY <4>2, <4>3
    <3>2. CASE f = format(b.dtmf) /\ b.dtmf # NoEvents
      <4>1. PICK i \in DOMAIN offer.formats : Selected(offer.formats[i], b.dtmf)
        BY <2>1, <3>2 DEF AudioInv
      <4>2. b.dtmf.info.clock <= b.audio.info.clock
        BY <2>1, <3>2 DEF AudioInv
      <4> QED BY <2>3, <2>4, <2>5, <3>2, <4>1, <4>2
    <3> QED BY <2>4, <3>1, <3>2
  <2>7. ASSUME NEW k \in Range(answer.crypto)
        PROVE  \E o \in Range(offer.crypto) : o.index = k.index /\ o.profile = k.profile
    <3> DEFINE l == answer.crypto[1]
               n == firstWith(offer.crypto, l.profile)
    <3>1. answer.crypto # <<>>
      BY <2>7 DEF Range
    <3>2. answer.crypto = <<l>> /\ common(offer.crypto, l) /\ l.index = offer.crypto[n].index
      BY <2>1, <3>1 DEF CryptoInv
    <3> HIDE DEF l
    <3>3. k = l
      BY <2>7, <3>2 DEF Range
    <3>4. n \in DOMAIN offer.crypto /\ offer.crypto[n].profile = l.profile
      BY <2>2, <3>2, FirstWithIs DEF common
    <3> HIDE DEF n
    <3> QED BY <3>2, <3>3, <3>4 DEF Range
  <2> QED BY <2>6, <2>7
<1> QED BY <1>1, NegotiationInvariant, PTL

\* What this code answers to its own offer can be applied, and gives the offerer the
\* answerer's events, while the codecs of the offer stay enabled.
THEOREM AnswersApplyHolds == Spec => AnswersApply
<1> DEFINE A == Apply /\ (\A c \in offer.enabled : isEnabled("offerer", c))
                  => IF conf'["offerer"] = Failed
                     THEN enc["offerer"] = "require" /\ answer.crypto = <<>>
                     ELSE conf'["offerer"].dtmf = conf["answerer"].dtmf
<1>1. NegotiationInv /\ [Next]_vars => [A]_vars
  BY Applied
<1>2. AnswersApply <=> [][A]_vars
  BY DEF AnswersApply
<1> QED BY <1>1, <1>2, NegotiationInvariant, PTL DEF Spec
=============================================================================
