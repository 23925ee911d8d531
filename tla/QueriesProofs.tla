----------------------------- MODULE QueriesProofs -----------------------------
(***************************************************************************)
(* The queries answer as their reference definitions say, for every input  *)
(* of the kind the program passes to them.                                 *)
(***************************************************************************)
EXTENDS QueriesProps, SequenceTheorems, FiniteSetTheorems, WellFoundedInduction, TLAPS

\* What is drawn is drawn from the constants and stays.
Drawn ==
  \/ /\ input.kind = "imports" /\ input.of \in ImportGraphs
  \/ /\ input.kind = "links" /\ input.of \in LinkGraphs
  \/ /\ input.kind = "conflicts" /\ input.of \in ConflictGraphs
  \/ /\ input.kind = "anchors" /\ input.of \in AnchoredCode
  \/ /\ input.kind = "file" /\ input.of \in Files
  \/ /\ input.kind = "draft" /\ input.of \in Drafts
  \/ /\ input.kind = "specifier" /\ input.of \in Specifiers
  \/ /\ input.kind = "intent" /\ input.of \in Intents
  \/ /\ input.kind = "prompt" /\ input.of \in Prompts
  \/ /\ input.kind = "save" /\ input.of \in Saves
  \/ /\ input.kind = "commit" /\ input.of \in Commits

-------------------------------------------------------------------------------
(***************************************************************************)
(* Sequences.                                                              *)
(***************************************************************************)

\* A sequence of several is all but its last element, and that.
LEMMA FrontAndLast ==
  ASSUME NEW S, NEW t \in Seq(S), t # <<>>, Len(t) # 1
  PROVE  /\ Len(t) \in Nat /\ Len(t) > 1 /\ t[Len(t)] \in S
         /\ SubSeq(t, 1, Len(t) - 1) \in Seq(S) \ {<<>>}
         /\ SubSeq(t, 1, Len(t) - 1) # t
         /\ SubSeq(t, 1, Len(t) - 1) \o <<t[Len(t)]>> = t
<1>1. Len(t) \in Nat \ {0}
  BY EmptySeq
<1>2. Len(t) > 1
  <2>1. \A n \in Nat \ {0} : n # 1 => n > 1
    OBVIOUS
  <2>2. QED
    BY <1>1, <2>1
<1>3. t[Len(t)] \in S
  BY <1>1
<1>4. SubSeq(t, 1, Len(t) - 1) \in Seq(S) /\ Len(SubSeq(t, 1, Len(t) - 1)) = Len(t) - 1
  BY <1>2
<1>5. SubSeq(t, 1, Len(t) - 1) # <<>>
  <2>1. Len(t) - 1 # 0
    BY <1>2
  <2>2. Len(<<>>) = 0
    OBVIOUS
  <2>3. QED
    BY <1>4, <2>1, <2>2
<1>6. SubSeq(t, 1, Len(t) - 1) \o <<t[Len(t)]>> = t
  BY <1>2
<1>7. SubSeq(t, 1, Len(t) - 1) # t
  <2>1. \A n \in Nat : n - 1 # n
    OBVIOUS
  <2>2. QED
    BY <1>1, <1>4, <2>1
<1>8. QED
  BY <1>1, <1>2, <1>3, <1>4, <1>5, <1>6, <1>7

\* The end of two sequences is the end of the second.
LEMMA Joined ==
  ASSUME NEW S, NEW p \in Seq(S), NEW s \in Seq(S), p # <<>>, s # <<>>
  PROVE  /\ p \o s \in Seq(S) \ {<<>>} /\ Len(p \o s) \in Nat /\ Len(p \o s) > 1
         /\ (p \o s)[Len(p \o s)] = s[Len(s)]
         /\ Len(s) = 1 => /\ SubSeq(p \o s, 1, Len(p \o s) - 1) = p
                          /\ s = <<(p \o s)[Len(p \o s)]>>
<1>1. Len(p) \in Nat \ {0} /\ Len(s) \in Nat \ {0}
  BY EmptySeq
<1>2. p \o s \in Seq(S) /\ Len(p \o s) = Len(p) + Len(s)
  OBVIOUS
<1>3. p \o s # <<>>
  BY ConcatEqualIffEmpty
<1>4. (p \o s)[Len(p \o s)] = s[Len(s)]
  BY <1>1
<1>5. ASSUME Len(s) = 1
      PROVE  SubSeq(p \o s, 1, Len(p \o s) - 1) = p /\ s = <<s[Len(s)]>>
  <2>1. SubSeq(p \o s, 1, Len(p)) = SubSeq(p, 1, Len(p))
    BY <1>1, SubSeqOfConcat1
  <2>2. Len(p \o s) - 1 = Len(p)
    BY <1>1, <1>2, <1>5
  <2>3. SubSeq(p, 1, Len(p)) = p
    BY SubSeqFull
  <2>4. s = <<s[1]>>
    BY <1>5
  <2>5. QED
    BY <1>5, <2>1, <2>2, <2>3, <2>4
<1>6. Len(p \o s) \in Nat /\ Len(p \o s) > 1
  <2>1. \A m, n \in Nat \ {0} : m + n \in Nat /\ m + n > 1
    OBVIOUS
  <2>2. QED
    BY <1>1, <1>2, <2>1
<1>7. QED
  BY <1>2, <1>3, <1>4, <1>5, <1>6

-------------------------------------------------------------------------------
(***************************************************************************)
(* Decision files.                                                         *)
(***************************************************************************)

LEMMA EmptyIsBlank ==
  /\ File!Blank \in String
  /\ File!Empty \in Text /\ Len(File!Empty) = 1 /\ File!Empty[1] = File!Blank
  /\ \A t \in Text : Len(t) = 1 /\ t[1] = File!Blank => t = File!Empty
<1>1. File!Blank \in String
  BY DEF String
<1>2. QED
  BY <1>1 DEF File!Empty, Text

\* What an entry of anchors says is what is written back for it, unless the
\* entry ends in "#".
LEMMA EntryKept ==
  ASSUME NEW entry \in Text
  PROVE  /\ File!ToAnchor(entry) \in AnchorRecord
         /\ entry[Len(entry)] # File!Blank => File!AnchorText(File!ToAnchor(entry)) = entry
<1>1. CASE Len(entry) = 1
  <2>1. entry[Len(entry)] # File!Blank => entry # File!Empty
    BY EmptyIsBlank
  <2>2. QED
    BY <1>1, <2>1, EmptyIsBlank DEF AnchorRecord, File!ToAnchor, File!AnchorText
<1>2. CASE Len(entry) # 1
  <2> DEFINE front == SubSeq(entry, 1, Len(entry) - 1)
             last == entry[Len(entry)]
  <2>1. entry \in Seq(String) /\ entry # <<>>
    BY DEF Text
  <2>2. /\ front \in Text /\ last \in String /\ front \o <<last>> = entry
    BY <1>2, <2>1, FrontAndLast DEF Text
  <2>3. File!ToAnchor(entry) = [filePath |-> front, symbol |-> <<last>>]
    BY <1>2 DEF File!ToAnchor, File!Front, File!Last
  <2> HIDE DEF front, last
  <2>4. /\ Len(<<last>>) = 1 /\ <<last>>[1] = last /\ <<last>> \in Text
        /\ last # File!Blank => <<last>> # File!Empty
    BY <2>1, <2>2, EmptyIsBlank DEF Text
  <2>5. File!ToAnchor(entry) \in AnchorRecord
    BY <2>2, <2>3, <2>4 DEF AnchorRecord
  <2>6. QED
    BY <2>2, <2>3, <2>4, <2>5 DEF File!AnchorText, File!Hashed, last
<1>3. QED
  BY <1>1, <1>2


\* An anchor written down and read back is the anchor it was, unless its symbol
\* or, without a symbol, its path holds a "#"; only the nameless one is written
\* as nothing.
LEMMA AnchorBack ==
  ASSUME NEW a \in AnchorRecord
  PROVE  /\ File!AnchorText(a) \in Text
         /\ File!AnchorText(a) = File!Empty <=> a = Nameless
         /\ File!ToAnchor(File!AnchorText(a)) = a <=> ComesBack(a)
<1>1. PICK path \in Text, symbol \in Text : a = [filePath |-> path, symbol |-> symbol]
  BY DEF AnchorRecord
<1> DEFINE text == File!AnchorText(a)
<1>2. CASE symbol = File!Empty
  <2>1. text = path
    BY <1>1, <1>2 DEF File!AnchorText
  <2>2. CASE Len(path) = 1
    <3>1. File!ToAnchor(text) = a
      BY <1>1, <1>2, <2>1, <2>2 DEF File!ToAnchor
    <3>2. ComesBack(a)
      BY <1>1, <1>2, <2>2, EmptyIsBlank DEF ComesBack
    <3>3. QED
      BY <1>1, <1>2, <2>1, <3>1, <3>2 DEF Nameless
  <2>3. CASE Len(path) # 1
    <3>1. ~ComesBack(a)
      BY <1>1, <1>2, <2>3 DEF ComesBack
    <3>2. File!ToAnchor(text).filePath = SubSeq(path, 1, Len(path) - 1)
      BY <2>1, <2>3 DEF File!ToAnchor, File!Front
    <3>3. SubSeq(path, 1, Len(path) - 1) # path
      BY <1>1, <2>3, FrontAndLast DEF Text
    <3>4. File!ToAnchor(text).filePath # path
      BY <3>2, <3>3
    <3>5. QED
      BY <1>1, <1>2, <2>1, <3>1, <3>4 DEF Nameless
  <2>4. QED
    BY <2>2, <2>3
<1>3. CASE symbol # File!Empty
  <2>1. text = path \o symbol
    BY <1>1, <1>3 DEF File!AnchorText, File!Hashed
  <2>2. /\ path \in Seq(String) /\ path # <<>> /\ symbol \in Seq(String) /\ symbol # <<>>
    BY DEF Text
  <2>3. /\ Len(text) \in Nat /\ Len(text) > 1 /\ text \in Text
        /\ text[Len(text)] = symbol[Len(symbol)]
    <3>1. /\ path \o symbol \in Seq(String) \ {<<>>}
          /\ Len(path \o symbol) \in Nat /\ Len(path \o symbol) > 1
          /\ (path \o symbol)[Len(path \o symbol)] = symbol[Len(symbol)]
      BY <2>2, Joined
    <3>2. QED
      BY <2>1, <3>1 DEF Text
  <2>4. File!ToAnchor(text) = [filePath |-> SubSeq(text, 1, Len(text) - 1),
                               symbol |-> <<text[Len(text)]>>]
    <3>1. Len(text) # 1
      BY <2>3
    <3>2. QED
      BY <3>1 DEF File!ToAnchor, File!Front, File!Last
  <2>5. ComesBack(a) <=> Len(symbol) = 1
    BY <1>1, <1>3 DEF ComesBack
  <2>6. Len(symbol) = 1 => File!ToAnchor(text) = a
    <3>1. SUFFICES ASSUME Len(symbol) = 1 PROVE File!ToAnchor(text) = a
      OBVIOUS
    <3>2. SubSeq(path \o symbol, 1, Len(path \o symbol) - 1) = path
      BY <2>2, <3>1, Joined
    <3>3. symbol = <<(path \o symbol)[Len(path \o symbol)]>>
      BY <2>2, <3>1, Joined
    <3>4. QED
      BY <1>1, <2>1, <2>4, <3>2, <3>3
  <2>7. Len(<<text[Len(text)]>>) = 1
    OBVIOUS
  <2>8. Len(symbol) # 1 => File!ToAnchor(text) # a
    BY <1>1, <2>4, <2>7
  <2>9. text # File!Empty /\ a # Nameless
    <3>1. Len(text) # Len(File!Empty)
      BY <2>3, EmptyIsBlank
    <3>2. QED
      BY <1>1, <1>3, <3>1 DEF Nameless
  <2>10. QED
    BY <2>3, <2>5, <2>6, <2>8, <2>9
<1>4. QED
  BY <1>2, <1>3


\* The fields left out are read as the empty lists they were left out for.
LEMMA ListsKept ==
  ASSUME NoneIsNoValue, NEW S, NEW values \in Seq(S), values # None
  PROVE  /\ File!OrNone(File!Omittable(values)) = values
         /\ values # <<>> => File!Omittable(values) = values
BY DEF File!OrNone, File!Omittable

\* What a file's anchors are written as.
Texts(anchors) == [i \in DOMAIN anchors |-> File!AnchorText(anchors[i])]

LEMMA TextsOfAnchors ==
  ASSUME NEW anchors \in Seq(AnchorRecord)
  PROVE  /\ Texts(anchors) \in Seq(Text) /\ DOMAIN Texts(anchors) = DOMAIN anchors
         /\ \A i \in DOMAIN anchors :
              /\ Texts(anchors)[i] = File!AnchorText(anchors[i])
              /\ anchors[i] \in AnchorRecord
         /\ File!Empty \in File!ToSet(Texts(anchors)) <=> Nameless \in ToSet(anchors)
<1>1. \A i \in DOMAIN anchors : anchors[i] \in AnchorRecord
  OBVIOUS
<1>2. \A i \in DOMAIN anchors :
        /\ File!AnchorText(anchors[i]) \in Text
        /\ File!AnchorText(anchors[i]) = File!Empty <=> anchors[i] = Nameless
  BY <1>1, AnchorBack
<1>3. DOMAIN anchors = 1..Len(anchors) /\ Len(anchors) \in Nat
  OBVIOUS
<1>4. Texts(anchors) \in Seq(Text)
  BY <1>2, <1>3 DEF Texts
<1>5. Nameless \in ToSet(anchors) <=> \E i \in DOMAIN anchors : anchors[i] = Nameless
  BY DEF ToSet
<1>6. File!Empty \in File!ToSet(Texts(anchors)) <=>
        \E i \in DOMAIN anchors : File!AnchorText(anchors[i]) = File!Empty
  BY DEF Texts, File!ToSet
<1>7. QED
  BY <1>1, <1>2, <1>4, <1>5, <1>6 DEF Texts

\* What is read of a body: no blank around it, and one carriage return less.
BodyRead(body) ==
  [ text |-> body.text, blanks |-> 0,
    returns |-> IF body.returns = 0 THEN 0 ELSE body.returns - 1 ]

LEMMA BodyBack ==
  ASSUME NEW body \in Body
  PROVE  /\ File!Trimmed(File!LineEnds(body)) = BodyRead(body)
         /\ BodyRead(body) \in Body /\ BodyRead(body).text = body.text
         /\ body.returns < 2 => BodyRead(BodyRead(body)) = BodyRead(body)
<1>1. PICK text \in String, returns \in Nat, blanks \in Nat :
        body = [text |-> text, returns |-> returns, blanks |-> blanks]
  BY DEF Body
<1>2. PICK less \in Nat :
        /\ less = IF returns = 0 THEN 0 ELSE returns - 1
        /\ returns < 2 => less = 0
  OBVIOUS
<1>3. File!LineEnds(body) = [text |-> text, returns |-> less, blanks |-> blanks]
  BY <1>1, <1>2 DEF File!LineEnds
<1>4. BodyRead(body) = [text |-> text, blanks |-> 0, returns |-> less]
  BY <1>1, <1>2 DEF BodyRead
<1>5. BodyRead(BodyRead(body)) =
        [text |-> text, blanks |-> 0, returns |-> IF less = 0 THEN 0 ELSE less - 1]
  BY <1>4 DEF BodyRead
<1>6. File!Trimmed(File!LineEnds(body)) = BodyRead(body)
  BY <1>3, <1>4 DEF File!Trimmed
<1>7. BodyRead(body) \in Body
  BY <1>4 DEF Body
<1>8. body.returns < 2 => less = 0
  BY <1>1, <1>2
<1>9. QED
  BY <1>1, <1>4, <1>5, <1>6, <1>7, <1>8

\* What is read of the file of a decision.
Back(file) ==
  [ title |-> file.title, keywords |-> file.keywords, replaces |-> file.replaces,
    dependsOn |-> file.dependsOn,
    anchors |-> [i \in DOMAIN file.anchors |->
                  File!ToAnchor(File!AnchorText(file.anchors[i]))],
    commitSha |-> file.commitSha, commitDirty |-> file.commitDirty,
    body |-> BodyRead(file.body) ]

Unreadable(file) == file.body.text = File!Blank \/ Nameless \in ToSet(file.anchors)

\* Every file is read, but those with a blank body or a nameless anchor.
LEMMA FileRead ==
  ASSUME NoneIsNoValue, NEW file \in FileRecord
  PROVE  Reread(file) = IF Unreadable(file) THEN None ELSE Back(file)
<1> DEFINE data == File!FormatDecisionFile(file)
           texts == Texts(file.anchors)
<1>1. /\ file.title \in Word /\ file.keywords \in Seq(Word)
      /\ file.replaces \in Word \union {None} /\ file.dependsOn \in Seq(Word)
      /\ file.anchors \in Seq(AnchorRecord)
      /\ file.commitSha \in Word \union {None} /\ file.commitDirty \in BOOLEAN
      /\ file.body \in Body
      /\ file.commitSha = None => ~file.commitDirty
  BY DEF FileRecord
<1>2. /\ texts \in Seq(Text) /\ DOMAIN texts = DOMAIN file.anchors
      /\ \A i \in DOMAIN file.anchors : texts[i] = File!AnchorText(file.anchors[i])
      /\ File!Empty \in File!ToSet(texts) <=> Nameless \in ToSet(file.anchors)
      /\ texts # None /\ file.dependsOn # None
  <2>1. Seq(Word) \subseteq Seq(String) /\ Seq(Text) \subseteq Seq(Seq(String))
    BY DEF Word, Text
  <2>2. QED
    BY <1>1, <2>1, TextsOfAnchors DEF NoneIsNoValue
<1>3. /\ data.title = file.title /\ data.keywords = file.keywords
      /\ data.replaces = file.replaces /\ data.commit = file.commitSha
      /\ data.dependsOn = File!Omittable(file.dependsOn)
      /\ data.anchors = File!Omittable(texts)
      /\ data.dirty = IF file.commitSha = None THEN None ELSE file.commitDirty
      /\ data.body = file.body
  BY DEF File!FormatDecisionFile, Texts
<1>4. /\ File!OrNone(data.dependsOn) = file.dependsOn
      /\ File!OrNone(data.anchors) = texts
      /\ texts # <<>> => data.anchors = texts
  BY <1>1, <1>2, <1>3, ListsKept
<1>5. File!HasProblem(data) <=> Unreadable(file)
  <2>1. data.title # File!Blank /\ data.replaces # File!Blank
    BY <1>1, <1>3, EmptyIsBlank DEF Word, NoneIsNoValue
  <2>2. /\ File!Blank \notin File!ToSet(data.keywords)
        /\ File!Blank \notin File!ToSet(File!OrNone(data.dependsOn))
    BY <1>1, <1>3, <1>4 DEF File!ToSet, Word
  <2>3. File!Empty \in File!ToSet(File!OrNone(data.anchors)) <=>
          Nameless \in ToSet(file.anchors)
    BY <1>2, <1>4
  <2>4. QED
    BY <1>3, <2>1, <2>2, <2>3 DEF File!HasProblem, Unreadable
<1>6. [i \in DOMAIN File!OrNone(data.anchors) |-> File!ToAnchor(data.anchors[i])] =
        [i \in DOMAIN file.anchors |-> File!ToAnchor(File!AnchorText(file.anchors[i]))]
  BY <1>2, <1>4
<1>7. (data.dirty = TRUE) = file.commitDirty
  BY <1>1, <1>3 DEF NoneIsNoValue
<1>8. File!Trimmed(File!LineEnds(data.body)) = BodyRead(file.body)
  BY <1>1, <1>3, BodyBack
<1> HIDE DEF data
<1>9. File!ParseDecisionFile(data) = IF Unreadable(file) THEN None ELSE Back(file)
  BY <1>3, <1>4, <1>5, <1>6, <1>7, <1>8 DEF File!ParseDecisionFile, Back
<1>10. QED
  BY <1>9 DEF data, Reread

\* What was read is a file; and written again it reads the same, if no anchor
\* ended in "#" and no line in two carriage returns.
LEMMA BackKept ==
  ASSUME NEW file \in FileRecord
  PROVE  /\ Back(file) \in FileRecord
         /\ /\ \A i \in DOMAIN file.anchors : ~EndsInHash(file.anchors[i])
            /\ file.body.returns < 2
            => Back(Back(file)) = Back(file) /\ Nameless \notin ToSet(Back(file).anchors)
<1> DEFINE anchors == [i \in DOMAIN file.anchors |->
                        File!ToAnchor(File!AnchorText(file.anchors[i]))]
<1>1. /\ file.anchors \in Seq(AnchorRecord) /\ file.body \in Body
  BY DEF FileRecord
<1>2. DOMAIN file.anchors = 1..Len(file.anchors) /\ Len(file.anchors) \in Nat
  BY <1>1
<1>3. \A i \in DOMAIN file.anchors :
        /\ anchors[i] \in AnchorRecord
        /\ ~EndsInHash(file.anchors[i]) =>
             /\ File!ToAnchor(File!AnchorText(anchors[i])) = anchors[i]
             /\ anchors[i] # Nameless
  <2>1. SUFFICES ASSUME NEW a \in AnchorRecord
                 PROVE  LET b == File!ToAnchor(File!AnchorText(a)) IN
                        /\ b \in AnchorRecord
                        /\ ~EndsInHash(a) =>
                             File!ToAnchor(File!AnchorText(b)) = b /\ b # Nameless
    BY <1>1
  <2>2. PICK text \in Text : text = File!AnchorText(a)
    BY AnchorBack
  <2>3. PICK b \in AnchorRecord : b = File!ToAnchor(text)
    BY EntryKept
  <2>4. text[Len(text)] # File!Blank =>
          File!AnchorText(b) = text /\ text # File!Empty
    BY <2>3, EntryKept, EmptyIsBlank
  <2>5. ~EndsInHash(a) => text[Len(text)] # File!Blank
    BY <2>2 DEF EndsInHash, Last
  <2>6. QED
    BY <2>2, <2>3, <2>4, <2>5, AnchorBack
<1>4. anchors \in Seq(AnchorRecord)
  <2>1. \A i \in 1..Len(file.anchors) : anchors[i] \in AnchorRecord
    BY <1>2, <1>3
  <2>2. anchors = [i \in 1..Len(file.anchors) |-> anchors[i]]
    BY <1>2
  <2> HIDE DEF anchors
  <2>3. QED
    BY <1>2, <2>1, <2>2
<1>5. (\A i \in DOMAIN file.anchors : ~EndsInHash(file.anchors[i])) =>
        /\ [i \in DOMAIN anchors |-> File!ToAnchor(File!AnchorText(anchors[i]))] = anchors
        /\ Nameless \notin ToSet(anchors)
  BY <1>3 DEF ToSet
<1> HIDE DEF anchors
<1>6. Back(file) \in FileRecord
  BY <1>1, <1>4, BodyBack DEF Back, FileRecord, anchors
<1>7. Back(file).anchors = anchors /\ Back(file).body = BodyRead(file.body)
  BY DEF Back, anchors
<1>8. ASSUME \A i \in DOMAIN file.anchors : ~EndsInHash(file.anchors[i]),
             file.body.returns < 2
      PROVE  Back(Back(file)) = Back(file)
  <2>1. BodyRead(BodyRead(file.body)) = BodyRead(file.body)
    BY <1>1, <1>8, BodyBack
  <2>2. QED
    BY <1>5, <1>8, <2>1 DEF Back, anchors
<1>9. QED
  BY <1>5, <1>6, <1>7, <1>8

\* A decision file is read back as it was written, up to its line ends, the blank
\* around its body and the anchors that do not come back.
LEMMA ReadAs ==
  ASSUME NoneIsNoValue, NEW file \in FileRecord
  PROVE  ReadsAs(file, Reread(file))
<1>1. CASE Unreadable(file)
  BY <1>1, FileRead DEF ReadsAs, Unreadable
<1>2. CASE ~Unreadable(file)
  <2>1. Reread(file) = Back(file) /\ Back(file) # None
    BY <1>2, FileRead, BackKept DEF NoneIsNoValue
  <2>2. PICK read : read = Back(file)
    OBVIOUS
  <2>3. /\ DOMAIN read.anchors = DOMAIN file.anchors
        /\ \A i \in DOMAIN file.anchors :
             read.anchors[i] = file.anchors[i] <=> ComesBack(file.anchors[i])
    BY <2>2, AnchorBack DEF Back, FileRecord
  <2>4. PICK body : body = BodyRead(file.body)
    OBVIOUS
  <2>5. read = [ title |-> file.title, keywords |-> file.keywords,
                 replaces |-> file.replaces, dependsOn |-> file.dependsOn,
                 anchors |-> read.anchors, commitSha |-> file.commitSha,
                 commitDirty |-> file.commitDirty, body |-> body ]
    BY <2>2, <2>4 DEF Back
  <2>6. read = [file EXCEPT !.anchors = read.anchors, !.body = body]
    <3>1. PICK anchored : anchored = [file EXCEPT !.anchors = read.anchors]
      OBVIOUS
    <3>2. anchored = [ title |-> file.title, keywords |-> file.keywords,
                       replaces |-> file.replaces, dependsOn |-> file.dependsOn,
                       anchors |-> read.anchors, commitSha |-> file.commitSha,
                       commitDirty |-> file.commitDirty, body |-> file.body ]
      BY <3>1 DEF FileRecord
    <3>3. read = [anchored EXCEPT !.body = body]
      BY <2>5, <3>2
    <3>4. QED
      BY <3>1, <3>3
  <2>7. read = [file EXCEPT !.anchors = read.anchors, !.body =
                  [ text |-> @.text, blanks |-> 0,
                    returns |-> IF @.returns = 0 THEN 0 ELSE @.returns - 1 ]]
    BY <2>4, <2>6 DEF BodyRead
  <2>8. QED
    BY <1>2, <2>1, <2>2, <2>3, <2>7 DEF ReadsAs, Unreadable
<1>3. QED
  BY <1>1, <1>2

\* Nor do the line ends of a checkout matter, nor that it was written again.
LEMMA FileBack ==
  ASSUME NoneIsNoValue, NEW file \in FileRecord
  PROVE  FileComesBack(file)
<1> DEFINE back == Reread(file)
           settled == /\ \A i \in DOMAIN file.anchors : ~EndsInHash(file.anchors[i])
                      /\ file.body.returns < 2
<1>1. ASSUME file.body.returns = 0
      PROVE  Reread([file EXCEPT !.body.returns = 1]) = back
  <2>1. PICK body \in Body : /\ body = [file.body EXCEPT !.returns = 1]
                             /\ body.text = file.body.text
                             /\ BodyRead(body) = BodyRead(file.body)
    <3>1. PICK text \in String, blanks \in Nat :
            file.body = [text |-> text, returns |-> 0, blanks |-> blanks]
      BY <1>1 DEF FileRecord, Body
    <3>2. PICK body : body = [text |-> text, returns |-> 1, blanks |-> blanks]
      OBVIOUS
    <3>3. body = [file.body EXCEPT !.returns = 1]
      BY <3>1, <3>2
    <3>4. body \in Body /\ body.text = file.body.text
      BY <3>1, <3>2 DEF Body
    <3>5. BodyRead(body) = [text |-> text, blanks |-> 0, returns |-> 0]
      BY <3>2 DEF BodyRead
    <3>6. BodyRead(file.body) = [text |-> text, blanks |-> 0, returns |-> 0]
      BY <3>1 DEF BodyRead
    <3>7. QED
      BY <3>3, <3>4, <3>5, <3>6
  <2>2. PICK other : other = [file EXCEPT !.body = body]
    OBVIOUS
  <2>3. other = [file EXCEPT !.body.returns = 1]
    BY <2>1, <2>2 DEF FileRecord
  <2>4. other = [ title |-> file.title, keywords |-> file.keywords,
                  replaces |-> file.replaces, dependsOn |-> file.dependsOn,
                  anchors |-> file.anchors, commitSha |-> file.commitSha,
                  commitDirty |-> file.commitDirty, body |-> body ]
    BY <2>2 DEF FileRecord
  <2>5. other \in FileRecord
    BY <2>4 DEF FileRecord
  <2>6. (Unreadable(other) <=> Unreadable(file)) /\ Back(other) = Back(file)
    BY <2>1, <2>4 DEF Unreadable, Back
  <2>7. QED
    BY <2>3, <2>5, <2>6, FileRead
<1>2. ASSUME back # None
      PROVE  /\ ReadsAs(back, Reread(back))
             /\ settled => Reread(back) = back
  <2>1. back = Back(file) /\ ~Unreadable(file) /\ Back(file) \in FileRecord
    BY <1>2, FileRead, BackKept
  <2>2. ReadsAs(back, Reread(back))
    BY <2>1, ReadAs
  <2>3. Back(file).body.text = file.body.text
    BY BodyBack DEF Back, FileRecord
  <2>4. ASSUME settled  PROVE Reread(back) = back
    <3>1. Back(Back(file)) = Back(file) /\ Nameless \notin ToSet(Back(file).anchors)
      BY <2>4, BackKept
    <3>2. ~Unreadable(Back(file))
      BY <2>1, <2>3, <3>1 DEF Unreadable
    <3>3. QED
      BY <2>1, <3>1, <3>2, FileRead
  <2>5. QED
    BY <2>2, <2>4
<1>3. ReadsAs(file, back)
  BY ReadAs
<1>4. QED
  BY <1>1, <1>2, <1>3 DEF FileComesBack

\* A list without the blank text is a list of words.
LEMMA Words ==
  ASSUME NEW list \in Seq(String), File!Blank \notin File!ToSet(list)
  PROVE  list \in Seq(Word)
<1>1. DOMAIN list = 1..Len(list) /\ Len(list) \in Nat
  OBVIOUS
<1>2. \A i \in 1..Len(list) : list[i] \in Word
  BY <1>1 DEF Word, File!ToSet
<1>3. list = [i \in 1..Len(list) |-> list[i]]
  OBVIOUS
<1>4. QED
  BY <1>1, <1>2, <1>3

\* What save_decision makes of an anchor.
Anchored(a) == [a EXCEPT !.symbol = IF @ = None THEN File!Empty ELSE @]

LEMMA AnchorSaved ==
  ASSUME NoneIsNoValue, NEW a \in AnchorDraft, File!Empty \notin {a.filePath, a.symbol}
  PROVE  Anchored(a) \in AnchorRecord /\ Anchored(a) # Nameless
<1>1. PICK path \in Text, symbol \in Text \union {None} :
        a = [filePath |-> path, symbol |-> symbol]
  BY DEF AnchorDraft
<1>2. Anchored(a) =
        [filePath |-> path, symbol |-> IF symbol = None THEN File!Empty ELSE symbol]
  BY <1>1 DEF Anchored
<1>3. path # File!Empty
  BY <1>1
<1>4. QED
  BY <1>2, <1>3, EmptyIsBlank DEF AnchorRecord, Nameless

\* What save_decision accepts becomes a file, and one with keywords enough.
LEMMA DraftSaved ==
  ASSUME NoneIsNoValue, Len(File!Blank) = 0,
         NEW draft \in DraftRecord, File!Accepts(draft.input)
  PROVE  /\ File!ToDecisionFile(draft.input, draft.context) \in FileRecord
         /\ ~File!HasFewKeywords(File!ToDecisionFile(draft.input, draft.context))
         /\ Reread(File!ToDecisionFile(draft.input, draft.context)) = None <=>
              draft.input.body.text = File!Blank
<1> DEFINE file == File!ToDecisionFile(draft.input, draft.context)
<1>1. PICK sent : sent = draft.input
  OBVIOUS
<1>2. PICK context : context = draft.context
  OBVIOUS
<1>3. /\ sent.title \in String /\ sent.keywords \in Seq(String)
      /\ sent.replaces \in String \union {None}
      /\ sent.dependsOn \in Seq(String) \union {None}
      /\ sent.anchors \in Seq(AnchorDraft) \union {None}
      /\ sent.body \in Body
      /\ context.commitSha \in Word \union {None} /\ context.commitDirty \in BOOLEAN
      /\ context.commitSha = None => ~context.commitDirty
  BY <1>1, <1>2 DEF DraftRecord
<1>4. /\ Len(sent.title) >= 8 /\ Len(sent.keywords) >= 5
      /\ File!Blank \notin File!ToSet(sent.keywords) /\ sent.replaces # File!Blank
      /\ File!Blank \notin File!ToSet(File!OrNone(sent.dependsOn))
      /\ \A anchor \in File!ToSet(File!OrNone(sent.anchors)) :
           File!Empty \notin {anchor.filePath, anchor.symbol}
  BY <1>1 DEF File!Accepts, File!MINIMUM_KEYWORDS
<1>5. PICK anchors \in Seq(AnchorDraft) : anchors = File!OrNone(sent.anchors)
  <2>1. CASE sent.anchors = None
    <3>1. File!OrNone(sent.anchors) = <<>>
      BY <2>1 DEF File!OrNone
    <3>2. <<>> \in Seq(AnchorDraft)
      OBVIOUS
    <3>3. QED
      BY <3>1, <3>2
  <2>2. CASE sent.anchors # None
    <3>1. File!OrNone(sent.anchors) = sent.anchors
      BY <2>2 DEF File!OrNone
    <3>2. sent.anchors \in Seq(AnchorDraft)
      BY <1>3, <2>2
    <3>3. QED
      BY <3>1, <3>2
  <2>3. QED
    BY <2>1, <2>2
<1>6. PICK saved : saved = [i \in DOMAIN anchors |-> Anchored(sent.anchors[i])]
  OBVIOUS
<1>7. file = [ title |-> sent.title, keywords |-> sent.keywords,
               replaces |-> sent.replaces, dependsOn |-> File!OrNone(sent.dependsOn),
               anchors |-> saved, commitSha |-> context.commitSha,
               commitDirty |-> context.commitDirty, body |-> sent.body ]
  BY <1>1, <1>2, <1>5, <1>6 DEF File!ToDecisionFile, Anchored
<1>8. sent.title \in Word /\ sent.replaces \in Word \union {None}
  <2>1. ~ (0 >= 8)
    OBVIOUS
  <2>2. sent.title # File!Blank
    BY <1>4, <2>1
  <2>3. QED
    BY <1>3, <1>4, <2>2 DEF Word
<1>9. sent.keywords \in Seq(Word) /\ File!OrNone(sent.dependsOn) \in Seq(Word)
  BY <1>3, <1>4, Words DEF File!OrNone
<1>10. saved \in Seq(AnchorRecord) /\ Nameless \notin ToSet(saved)
  <2>1. DOMAIN anchors = 1..Len(anchors) /\ Len(anchors) \in Nat
    BY <1>5
  <2>2. ASSUME NEW i \in DOMAIN anchors  PROVE saved[i] \in AnchorRecord /\ saved[i] # Nameless
    <3>1. sent.anchors[i] = anchors[i] /\ anchors[i] \in AnchorDraft
      BY <1>5, <2>1, <2>2 DEF File!OrNone
    <3>2. File!Empty \notin {anchors[i].filePath, anchors[i].symbol}
      BY <1>4, <1>5 DEF File!ToSet
    <3>3. QED
      BY <1>6, <3>1, <3>2, AnchorSaved
  <2>3. saved = [i \in 1..Len(anchors) |-> saved[i]]
    BY <1>6, <2>1
  <2>4. saved \in Seq(AnchorRecord)
    BY <2>1, <2>2, <2>3
  <2>5. QED
    BY <1>6, <2>2, <2>4 DEF ToSet
<1> HIDE DEF file
<1>11. file \in FileRecord
  <2>1. PICK dependsOn \in Seq(Word) : dependsOn = File!OrNone(sent.dependsOn)
    BY <1>9
  <2>2. PICK body \in Body : body = sent.body
    BY <1>3
  <2>3. file = [ title |-> sent.title, keywords |-> sent.keywords,
                 replaces |-> sent.replaces, dependsOn |-> dependsOn,
                 anchors |-> saved, commitSha |-> context.commitSha,
                 commitDirty |-> context.commitDirty, body |-> body ]
    BY <1>7, <2>1, <2>2
  <2>4. QED
    BY <1>3, <1>8, <1>9, <1>10, <2>3 DEF FileRecord
<1>12. ~File!HasFewKeywords(file)
  <2>1. file.keywords \in Seq(Word) /\ Len(file.keywords) >= 5
    BY <1>4, <1>7, <1>9
  <2>2. Len(file.keywords) \in Nat
    BY <2>1
  <2>3. \A n \in Nat : n >= 5 => ~(n < 5)
    OBVIOUS
  <2>4. QED
    BY <2>1, <2>2, <2>3 DEF File!HasFewKeywords, File!MINIMUM_KEYWORDS
<1>13. Reread(file) = None <=> sent.body.text = File!Blank
  <2>1. file.body = sent.body /\ Nameless \notin ToSet(file.anchors)
    BY <1>7, <1>10
  <2>2. Back(file) # None
    BY <1>11, BackKept DEF NoneIsNoValue
  <2>3. QED
    BY <1>11, <2>1, <2>2, FileRead DEF Unreadable
<1>14. QED
  BY <1>1, <1>11, <1>12, <1>13 DEF file

-------------------------------------------------------------------------------
(***************************************************************************)
(* Imports.                                                                *)
(***************************************************************************)

LEMMA LeastExists ==
  ASSUME NEW S \in SUBSET Nat, S # {}
  PROVE  \E least \in S : \A n \in S : least <= n
<1>1. PICK least \in S : \A n \in S : ~ (<<n, least>> \in OpToRel(<, Nat))
  BY WFMin, NatLessThanWellFounded, Zenon
<1>2. \A n \in S : ~ (n < least)
  BY <1>1, Zenon DEF OpToRel
<1>3. ASSUME NEW n \in S  PROVE least <= n
  <2>1. \A k, l \in Nat : ~ (k < l) => l <= k
    OBVIOUS
  <2>2. least \in Nat /\ n \in Nat
    BY <1>1
  <2>3. QED
    BY <1>2, <2>1, <2>2
<1>4. QED
  BY <1>3

LEMMA LeastIsOne ==
  ASSUME NEW S \in SUBSET Nat, S # {}
  PROVE  LET least == CHOOSE i \in S : \A j \in S : i <= j IN
         least \in S /\ \A j \in S : least <= j
BY LeastExists

\* Candidate i is the first there is.
IsFirst(files, c, i) == c[i] \in files /\ \A j \in 1..(i - 1) : c[j] \notin files

\* What is found is the first candidate there is, if there is any.
LEMMA FirstIsFirst ==
  ASSUME NEW n \in Nat, NEW c, DOMAIN c = 1..n, NEW files, None \notin files
  PROVE  /\ (\A i \in 1..n : c[i] \notin files) => Import!FirstExisting(files, c) = None
         /\ (\E i \in 1..n : c[i] \in files) =>
              \E i \in 1..n : IsFirst(files, c, i) /\ Import!FirstExisting(files, c) = c[i]
         /\ \A i, j \in 1..n : IsFirst(files, c, i) /\ IsFirst(files, c, j) => i = j
<1> DEFINE hits == {i \in 1..n : c[i] \in files}
<1>1. hits \in SUBSET Nat
  OBVIOUS
<1>2. ASSUME hits # {}
      PROVE  \E i \in 1..n : IsFirst(files, c, i) /\ Import!FirstExisting(files, c) = c[i]
  <2>1. PICK i \in hits : \A j \in hits : i <= j
    <3> HIDE DEF hits
    <3>1. QED
      BY <1>1, <1>2, LeastExists
  <2>2. ASSUME NEW j \in 1..(i - 1)  PROVE c[j] \notin files
    <3>1. j \in 1..n /\ ~ (i <= j)
      BY <2>1
    <3>2. QED
      BY <2>1, <3>1
  <2>3. \E k \in 1..n : IsFirst(files, c, k)
    BY <2>1, <2>2 DEF IsFirst
  <2>4. Import!FirstExisting(files, c) = c[CHOOSE k \in DOMAIN c : IsFirst(files, c, k)]
    BY <2>1 DEF Import!FirstExisting, IsFirst
  <2>5. QED
    BY <2>3, <2>4
<1>3. ASSUME hits = {}  PROVE Import!FirstExisting(files, c) = None
  BY <1>3 DEF Import!FirstExisting
<1>4. ASSUME NEW i \in 1..n, NEW j \in 1..n, IsFirst(files, c, i), IsFirst(files, c, j)
      PROVE  i = j
  <2>1. ~ (i \in 1..(j - 1)) /\ ~ (j \in 1..(i - 1))
    BY <1>4 DEF IsFirst
  <2>2. QED
    BY <2>1
<1>5. QED
  <2>1. (\E i \in 1..n : c[i] \in files) <=> hits # {}
    OBVIOUS
  <2> HIDE DEF hits
  <2>2. QED
    BY <1>2, <1>3, <1>4, <2>1

\* One more file is the first, or what was the first still is.
LEMMA OneMoreFile ==
  ASSUME NEW n \in Nat, NEW c, DOMAIN c = 1..n,
         NEW files, NEW f, None \notin files \union {f}
  PROVE  LET was == Import!FirstExisting(files, c)
             is == Import!FirstExisting(files \union {f}, c)
         IN  /\ was # None => was \in files
             /\ is \in {was, f}
             /\ was # None => is # None
<1> DEFINE more == files \union {f}
           was == Import!FirstExisting(files, c)
           is == Import!FirstExisting(more, c)
<1>1. None \notin files /\ None \notin more /\ files \subseteq more
  OBVIOUS
<1>2. ASSUME was # None
      PROVE  \E i \in 1..n : IsFirst(files, c, i) /\ was = c[i]
  BY <1>1, <1>2, FirstIsFirst
<1>3. ASSUME is # None
      PROVE  \E i \in 1..n : IsFirst(more, c, i) /\ is = c[i]
  <2> HIDE DEF more
  <2>1. QED
    BY <1>1, <1>3, FirstIsFirst
<1>4. ASSUME was # None  PROVE was \in files /\ is # None
  <2>1. PICK i \in 1..n : c[i] \in files /\ was = c[i]
    BY <1>2, <1>4 DEF IsFirst
  <2> HIDE DEF more
  <2>2. \E j \in 1..n : IsFirst(more, c, j) /\ is = c[j]
    BY <1>1, <2>1, FirstIsFirst
  <2>3. QED
    BY <1>1, <2>1, <2>2 DEF IsFirst
<1>5. ASSUME is # None, is # f  PROVE is = was
  <2>1. PICK i \in 1..n : IsFirst(more, c, i) /\ is = c[i]
    BY <1>3, <1>5
  <2>2. IsFirst(files, c, i)
    BY <1>5, <2>1 DEF IsFirst
  <2>3. \E k \in 1..n : IsFirst(files, c, k) /\ was = c[k]
    BY <1>1, <2>2, FirstIsFirst DEF IsFirst
  <2>4. \A k \in 1..n : IsFirst(files, c, k) => k = i
    BY <1>1, <2>2, FirstIsFirst
  <2>5. QED
    BY <2>1, <2>3, <2>4
<1>6. QED
  BY <1>4, <1>5

LEMMA Tuples ==
  ASSUME NEW a, NEW b, NEW c, NEW d, NEW e, NEW f, NEW g, NEW h
  PROVE  /\ <<>> \in Seq({}) /\ <<a>> \in Seq({a}) /\ <<a, b>> \in Seq({a, b})
         /\ <<a, b, c, d, e, f, g, h>> \in Seq({a, b, c, d, e, f, g, h})
OBVIOUS

\* The candidates for a base are a list.
LEMMA CompletionsAreList ==
  ASSUME NEW base
  PROVE  \E n \in Nat : DOMAIN Import!Completions(base) = 1..n
<1> DEFINE with(stem, extensions) == Import!WithExtensions(stem, extensions)
<1>1. ASSUME NEW stem, NEW S, NEW extensions \in Seq(S)
      PROVE  \E T : with(stem, extensions) \in Seq(T)
  <2> DEFINE T == {Append(stem, extensions[i]) : i \in DOMAIN extensions}
  <2>1. with(stem, extensions) = [i \in 1..Len(extensions) |-> with(stem, extensions)[i]]
    BY DEF Import!WithExtensions
  <2>2. \A i \in 1..Len(extensions) : with(stem, extensions)[i] \in T
    BY DEF Import!WithExtensions
  <2> HIDE DEF T, with
  <2>3. with(stem, extensions) \in Seq(T)
    BY <2>1, <2>2
  <2>4. QED
    BY <2>3
<1>2. \E T : Import!ExtensionTrials \in Seq(T)
  BY Tuples DEF Import!ExtensionTrials
<1>3. ASSUME NEW e  PROVE \E T : Import!Counterparts(e) \in Seq(T)
  <2>1. /\ \E T : <<".ts", ".tsx">> \in Seq(T)
        /\ \E T : <<".tsx">> \in Seq(T)
        /\ \E T : <<".mts">> \in Seq(T)
        /\ \E T : <<".cts">> \in Seq(T)
        /\ \E T : <<>> \in Seq(T)
    BY Tuples
  <2>2. QED
    BY <2>1, Zenon DEF Import!Counterparts
<1> DEFINE first == IF base = <<>> THEN <<>>
                    ELSE with(Import!Front(base), Import!Counterparts(Import!Last(base)))
           second == with(base, Import!ExtensionTrials)
           third == with(Append(base, "/index"), Import!ExtensionTrials)
<1>4. Import!Completions(base) = (first \o second) \o third
  BY DEF Import!Completions
<1>5. (\E T : first \in Seq(T)) /\ (\E T : second \in Seq(T)) /\ (\E T : third \in Seq(T))
  <2>1. \E T : with(Import!Front(base), Import!Counterparts(Import!Last(base))) \in Seq(T)
    BY <1>1, <1>3
  <2>2. <<>> \in Seq({})
    OBVIOUS
  <2>3. QED
    BY <1>1, <1>2, <2>1, <2>2
<1> HIDE DEF first, second, third
<1>6. PICK T1, T2, T3 : first \in Seq(T1) /\ second \in Seq(T2) /\ third \in Seq(T3)
  BY <1>5
<1> DEFINE T == T1 \union T2 \union T3
<1>7. first \in Seq(T) /\ second \in Seq(T) /\ third \in Seq(T)
  BY <1>6
<1> HIDE DEF T
<1>8. Import!Completions(base) \in Seq(T)
  BY <1>4, <1>7
<1>9. QED
  BY <1>8

\* A base completed with one more file.
LEMMA CompleteStays ==
  ASSUME NEW base, NEW files, NEW f, None \notin files \union {f}
  PROVE  LET was == Import!Complete(files, base)
             is == Import!Complete(files \union {f}, base)
         IN  /\ was # None => was \in files
             /\ is \in {was, f}
             /\ was # None => is # None
<1>1. PICK c : c = Import!Completions(base)
  OBVIOUS
<1>2. PICK n \in Nat : DOMAIN c = 1..n
  BY <1>1, CompletionsAreList
<1>3. QED
  BY <1>1, <1>2, OneMoreFile DEF Import!Complete

LEMMA RelativeStays ==
  ASSUME NEW from, NEW path, NEW files, NEW f, None \notin files \union {f},
         \A file \in files : ~Import!Escapes(file)
  PROVE  LET base == Import!Normalize(Import!Parent(from) \o path)
             was == Import!ResolveRelative(files, from, path)
             is == Import!ResolveRelative(files \union {f}, from, path)
         IN  /\ was.to # None => was.to \in files
             /\ was.provenance = "exact" <=> base \in files
             /\ was.provenance = "exact" => was.to = base
             /\ is.to \in {was.to, f}
<1> DEFINE base == Import!Normalize(Import!Parent(from) \o path)
           resolved(fs) == IF Import!Escapes(base) THEN Import!Unresolved
                           ELSE IF base \in fs THEN [to |-> base, provenance |-> "exact"]
                           ELSE [to |-> Import!Complete(fs, base), provenance |-> "heuristic"]
<1>1. ASSUME NEW fs  PROVE Import!ResolveRelative(fs, from, path) = resolved(fs)
  BY DEF Import!ResolveRelative
<1>2. PICK b : b = base
  OBVIOUS
<1> HIDE DEF base
<1>3. /\ Import!Complete(files, b) # None => Import!Complete(files, b) \in files
      /\ Import!Complete(files \union {f}, b) \in {Import!Complete(files, b), f}
  BY CompleteStays
<1>4. QED
  BY <1>1, <1>2, <1>3 DEF base, Import!Unresolved

LEMMA AliasedStays ==
  ASSUME NEW aliases, NEW path, NEW files, NEW f, None \notin files \union {f},
         DOMAIN Import!Expand(aliases, path) \subseteq Nat
  PROVE  LET was == Import!ResolveAliased(files, aliases, path)
             is == Import!ResolveAliased(files \union {f}, aliases, path)
         IN  /\ was.to # None => was.to \in files /\ Import!Expand(aliases, path) # <<>>
             /\ was.provenance = "heuristic"
             /\ is.to \in {was.to, f}
<1> DEFINE expanded == Import!Expand(aliases, path)
           tried(fs, i) == IF expanded[i] \in fs THEN expanded[i]
                           ELSE Import!Complete(fs, expanded[i])
           found(fs) == {i \in DOMAIN expanded : tried(fs, i) # None}
           first(fs) == CHOOSE i \in found(fs) : \A j \in found(fs) : i <= j
           more == files \union {f}
<1>1. ASSUME NEW fs
      PROVE  /\ Import!ResolveAliased(fs, aliases, path).provenance = "heuristic"
             /\ found(fs) = {} => Import!ResolveAliased(fs, aliases, path).to = None
             /\ found(fs) # {} =>
                  Import!ResolveAliased(fs, aliases, path).to = tried(fs, first(fs))
  BY DEF Import!ResolveAliased, Import!Unresolved
<1>2. ASSUME NEW i
      PROVE  /\ tried(files, i) # None => tried(files, i) \in files
             /\ tried(more, i) \in {tried(files, i), f}
             /\ tried(files, i) # None => tried(more, i) # None
  <2>1. PICK c : c = expanded[i]
    OBVIOUS
  <2>2. /\ Import!Complete(files, c) # None => Import!Complete(files, c) \in files
        /\ Import!Complete(more, c) \in {Import!Complete(files, c), f}
        /\ Import!Complete(files, c) # None => Import!Complete(more, c) # None
    BY CompleteStays
  <2> HIDE DEF expanded
  <2>3. QED
    BY <2>1, <2>2
<1>3. ASSUME NEW fs, found(fs) # {}
      PROVE  first(fs) \in found(fs) /\ \A j \in found(fs) : first(fs) <= j
  <2>1. found(fs) \in SUBSET Nat
    OBVIOUS
  <2>2. PICK S : S = found(fs)
    OBVIOUS
  <2> HIDE DEF found
  <2>3. QED
    BY <1>3, <2>1, <2>2, LeastIsOne
<1>4. found(files) \subseteq found(more) /\ found(more) \subseteq Nat
  BY <1>2
<1>5. CASE found(more) = {}
  <2>1. found(files) = {}
    BY <1>4, <1>5
  <2> HIDE DEF tried, found, first
  <2>2. QED
    BY <1>1, <1>5, <2>1
<1>6. CASE found(more) # {} /\ found(files) = {}
  <2>1. first(more) \in found(more) /\ first(more) \notin found(files)
    BY <1>3, <1>6
  <2>2. tried(more, first(more)) = f
    BY <1>2, <2>1
  <2> HIDE DEF tried, found, first
  <2>3. QED
    BY <1>1, <1>6, <2>2
<1>7. CASE found(files) # {}
  <2>1. first(files) \in found(files) /\ tried(files, first(files)) \in files
    BY <1>2, <1>3, <1>7
  <2>2. first(more) \in found(more) /\ found(more) # {}
    BY <1>3, <1>4, <1>7
  <2>3. CASE first(more) \notin found(files)
    <3>1. tried(more, first(more)) = f
      BY <1>2, <2>2, <2>3
    <3>2. Import!Expand(aliases, path) # <<>>
      BY <2>1
    <3> HIDE DEF tried, found, first
    <3>3. QED
      BY <1>1, <1>7, <2>1, <2>2, <3>1, <3>2
  <2>4. CASE first(more) \in found(files)
    <3>1. first(more) <= first(files) /\ first(files) <= first(more)
      BY <1>3, <1>4, <1>7, <2>1, <2>2, <2>4, SMTT(30)
    <3>2. first(more) = first(files)
      <4>1. first(more) \in Nat /\ first(files) \in Nat
        BY <1>4, <2>1, <2>2, <2>4
      <4>2. \A m, n \in Nat : m <= n /\ n <= m => m = n
        OBVIOUS
      <4>3. QED
        BY <3>1, <4>1, <4>2
    <3>3. tried(more, first(more)) \in {tried(files, first(files)), f}
      BY <1>2, <3>2
    <3>4. Import!Expand(aliases, path) # <<>>
      BY <2>1
    <3> HIDE DEF tried, found, first
    <3>5. QED
      BY <1>1, <1>7, <2>1, <2>2, <3>3, <3>4
  <2>5. QED
    BY <2>3, <2>4
<1>8. QED
  BY <1>5, <1>6, <1>7

-------------------------------------------------------------------------------
(***************************************************************************)
(* Links between decisions.                                                *)
(***************************************************************************)

\* Decisions d and e are linked, whichever way the link points.
Tied(dependsOn, d, e) == <<d, e>> \in dependsOn \/ <<e, d>> \in dependsOn

LEMMA LinkedIsTied ==
  ASSUME NEW dependsOn, \A l \in dependsOn : l = <<l[1], l[2]>>, NEW d, NEW e
  PROVE  e \in Impact!Linked(dependsOn, d) <=> Tied(dependsOn, d, e)
<1>1. ASSUME e \in Impact!Linked(dependsOn, d)  PROVE Tied(dependsOn, d, e)
  <2>1. PICK l \in dependsOn : d \in {l[1], l[2]} /\ e = IF l[1] = d THEN l[2] ELSE l[1]
    BY <1>1 DEF Impact!Linked
  <2>2. l = <<l[1], l[2]>>
    BY <2>1
  <2>3. QED
    BY <2>1, <2>2 DEF Tied
<1>2. ASSUME <<d, e>> \in dependsOn  PROVE e \in Impact!Linked(dependsOn, d)
  <2>1. PICK l \in dependsOn : l = <<d, e>>
    BY <1>2
  <2>2. d \in {l[1], l[2]} /\ (IF l[1] = d THEN l[2] ELSE l[1]) = e
    BY <2>1
  <2>3. QED
    BY <2>2 DEF Impact!Linked
<1>3. ASSUME <<e, d>> \in dependsOn  PROVE e \in Impact!Linked(dependsOn, d)
  <2>1. PICK l \in dependsOn : l = <<e, d>>
    BY <1>3
  <2>2. d \in {l[1], l[2]} /\ (IF l[1] = d THEN l[2] ELSE l[1]) = e
    BY <2>1
  <2>3. QED
    BY <2>2 DEF Impact!Linked
<1>4. QED
  BY <1>1, <1>2, <1>3 DEF Tied

\* What the rows of one depth are made of those of the depth before.
NextLayer(dependsOn, layer) == UNION {Impact!Linked(dependsOn, d) : d \in layer}

AreLinkLayers(f, dependsOn, id, m) ==
  f = [n \in 0..m |-> IF n = 0 THEN {id} ELSE NextLayer(dependsOn, f[n - 1])]

\* The recursive query has an answer.
LEMMA LinkLayersExist ==
  ASSUME NEW dependsOn, NEW id, NEW m \in Nat
  PROVE  AreLinkLayers(Impact!LinkLayers(dependsOn, id, m), dependsOn, id, m)
<1> DEFINE Layers(f, k) == AreLinkLayers(f, dependsOn, id, k)
           without == {k \in Nat : ~ \E f : Layers(f, k)}
<1>1. without = {}
  <2>1. SUFFICES ASSUME without # {} PROVE FALSE
    OBVIOUS
  <2>2. PICK k \in without : \A j \in without : k <= j
    <3>1. without \in SUBSET Nat
      OBVIOUS
    <3> HIDE DEF without
    <3>2. QED
      BY <2>1, <3>1, LeastExists
  <2>3. k \in Nat /\ ~ \E f : Layers(f, k)
    OBVIOUS
  <2>4. CASE k = 0
    <3> DEFINE f == [n \in 0..0 |-> {id}]
    <3>1. Layers(f, 0)
      BY DEF AreLinkLayers
    <3>2. QED
      BY <2>3, <2>4, <3>1
  <2>5. CASE k # 0
    <3>1. k - 1 \in Nat /\ ~ (k <= k - 1)
      BY <2>3, <2>5
    <3>2. PICK g : Layers(g, k - 1)
      BY <2>2, <3>1
    <3> DEFINE f == [n \in 0..k |-> IF n = 0 THEN {id} ELSE NextLayer(dependsOn, g[n - 1])]
    <3>3. ASSUME NEW n \in 0..k, n # 0  PROVE f[n - 1] = g[n - 1]
      <4>1. n - 1 \in 0..k /\ n - 1 \in 0..(k - 1)
        BY <2>3, <3>3
      <4>2. g[n - 1] = IF n - 1 = 0 THEN {id} ELSE NextLayer(dependsOn, g[(n - 1) - 1])
        BY <3>2, <4>1 DEF AreLinkLayers
      <4>3. QED
        BY <4>1, <4>2
    <3>4. Layers(f, k)
      <4>1. \A n \in 0..k : f[n] = IF n = 0 THEN {id} ELSE NextLayer(dependsOn, f[n - 1])
        BY <3>3
      <4>2. f = [n \in 0..k |-> f[n]]
        OBVIOUS
      <4> HIDE DEF f
      <4>3. QED
        BY <4>1, <4>2 DEF AreLinkLayers
    <3>5. QED
      BY <2>3, <3>4
  <2>6. QED
    BY <2>4, <2>5
<1>2. PICK f : Layers(f, m)
  BY <1>1
<1>3. Impact!LinkLayers(dependsOn, id, m) = CHOOSE g : Layers(g, m)
  BY DEF Impact!LinkLayers, AreLinkLayers, NextLayer
<1> HIDE DEF Layers
<1>4. Layers(CHOOSE g : Layers(g, m), m)
  BY <1>2
<1>5. QED
  BY <1>3, <1>4 DEF Layers

\* A way from d to e along n links.
IsRoute(r, n, dependsOn, d, e) ==
  /\ r = [i \in 1..(n + 1) |-> r[i]]
  /\ r[1] = d /\ r[n + 1] = e
  /\ \A i \in 1..n : Tied(dependsOn, r[i], r[i + 1])

\* There is one for every decision and every depth it is found at.
LEMMA LayersAreRoutes ==
  ASSUME NEW dependsOn, \A l \in dependsOn : l = <<l[1], l[2]>>,
         NEW id, NEW m \in Nat, NEW k \in 0..m, NEW e
  PROVE  e \in Impact!LinkLayers(dependsOn, id, m)[k] <=>
           \E r : IsRoute(r, k, dependsOn, id, e)
<1> DEFINE layer == Impact!LinkLayers(dependsOn, id, m)
           Ok(n) == \A x : x \in layer[n] <=> \E r : IsRoute(r, n, dependsOn, id, x)
           wrong == {n \in 0..m : ~ Ok(n)}
<1>a. AreLinkLayers(layer, dependsOn, id, m)
  BY LinkLayersExist
<1> HIDE DEF layer
<1>1. \A n \in 0..m : layer[n] = IF n = 0 THEN {id} ELSE NextLayer(dependsOn, layer[n - 1])
  BY <1>a DEF AreLinkLayers
<1>2. wrong = {}
  <2>1. SUFFICES ASSUME wrong # {} PROVE FALSE
    OBVIOUS
  <2>2. PICK n \in wrong : \A j \in wrong : n <= j
    <3>1. wrong \in SUBSET Nat
      OBVIOUS
    <3> HIDE DEF wrong
    <3>2. QED
      BY <2>1, <3>1, LeastExists
  <2>3. n \in 0..m /\ ~ Ok(n)
    OBVIOUS
  <2>4. CASE n = 0
    <3>1. SUFFICES ASSUME NEW x
                   PROVE  x \in layer[0] <=> \E r : IsRoute(r, 0, dependsOn, id, x)
      BY <2>3, <2>4
    <3>2. layer[0] = {id}
      BY <1>1, <2>4
    <3>3. IsRoute([i \in 1..(0 + 1) |-> id], 0, dependsOn, id, id)
      BY DEF IsRoute
    <3>4. ASSUME NEW r, IsRoute(r, 0, dependsOn, id, x)  PROVE x = id
      BY <3>4 DEF IsRoute
    <3>5. QED
      BY <3>2, <3>3, <3>4
  <2>5. CASE n # 0
    <3>1. n \in Nat /\ n - 1 \in 0..m /\ ~ (n <= n - 1) /\ (n - 1) + 1 = n
      BY <2>3, <2>5
    <3>2. Ok(n - 1)
      BY <2>2, <3>1
    <3>3. SUFFICES ASSUME NEW x
                   PROVE  x \in layer[n] <=> \E r : IsRoute(r, n, dependsOn, id, x)
      BY <2>3
    <3>4. x \in layer[n] <=> \E d \in layer[n - 1] : Tied(dependsOn, d, x)
      <4>1. layer[n] = NextLayer(dependsOn, layer[n - 1])
        BY <1>1, <2>3, <2>5
      <4>2. PICK before : before = layer[n - 1]
        OBVIOUS
      <4>3. x \in NextLayer(dependsOn, before) <=>
              \E d \in before : x \in Impact!Linked(dependsOn, d)
        BY DEF NextLayer
      <4>4. \A d : x \in Impact!Linked(dependsOn, d) <=> Tied(dependsOn, d, x)
        BY LinkedIsTied
      <4>5. QED
        BY <4>1, <4>2, <4>3, <4>4
    <3>5. ASSUME NEW d \in layer[n - 1], Tied(dependsOn, d, x)
          PROVE  \E r : IsRoute(r, n, dependsOn, id, x)
      <4>1. PICK r : IsRoute(r, n - 1, dependsOn, id, d)
        BY <3>2, <3>5
      <4> DEFINE s == [i \in 1..(n + 1) |-> IF i = n + 1 THEN x ELSE r[i]]
      <4>2. s[1] = id /\ s[n + 1] = x /\ s = [i \in 1..(n + 1) |-> s[i]] /\ r[n] = d
        BY <3>1, <2>5, <4>1 DEF IsRoute
      <4>3. ASSUME NEW i \in 1..n  PROVE Tied(dependsOn, s[i], s[i + 1])
        <5>1. CASE i = n
          <6>1. s[i] = d /\ s[i + 1] = x
            BY <3>1, <4>2, <5>1
          <6>2. QED
            BY <3>5, <6>1
        <5>2. CASE i # n
          <6>1. i \in 1..(n - 1) /\ i + 1 \in 1..(n + 1) /\ i # n + 1 /\ i + 1 # n + 1
            BY <3>1, <5>2
          <6>2. s[i] = r[i] /\ s[i + 1] = r[i + 1]
            BY <6>1
          <6>3. QED
            BY <4>1, <6>1, <6>2 DEF IsRoute
        <5>3. QED
          BY <5>1, <5>2
      <4> HIDE DEF s
      <4>4. IsRoute(s, n, dependsOn, id, x)
        BY <4>2, <4>3 DEF IsRoute
      <4>5. QED
        BY <4>4
    <3>6. ASSUME NEW r, IsRoute(r, n, dependsOn, id, x)
          PROVE  r[n] \in layer[n - 1] /\ Tied(dependsOn, r[n], x)
      <4> DEFINE s == [i \in 1..((n - 1) + 1) |-> r[i]]
      <4>1. Tied(dependsOn, r[n], x)
        <5>1. n \in 1..n
          BY <2>5, <3>1
        <5>2. r[n + 1] = x /\ Tied(dependsOn, r[n], r[n + 1])
          BY <3>6, <5>1 DEF IsRoute
        <5>3. QED
          BY <5>2
      <4>2. IsRoute(s, n - 1, dependsOn, id, r[n])
        <5>1. s[1] = id /\ s[(n - 1) + 1] = r[n] /\ s = [i \in 1..((n - 1) + 1) |-> s[i]]
          BY <2>5, <3>1, <3>6 DEF IsRoute
        <5>2. ASSUME NEW i \in 1..(n - 1)  PROVE Tied(dependsOn, s[i], s[i + 1])
          <6>1. i \in 1..n /\ i + 1 \in 1..n
            BY <3>1
          <6>2. s[i] = r[i] /\ s[i + 1] = r[i + 1]
            BY <3>1, <6>1
          <6>3. QED
            BY <3>6, <6>1, <6>2 DEF IsRoute
        <5> HIDE DEF s
        <5>3. QED
          BY <5>1, <5>2 DEF IsRoute
      <4>3. QED
        BY <3>2, <4>1, <4>2
    <3>7. QED
      BY <3>4, <3>5, <3>6
  <2>6. QED
    BY <2>4, <2>5
<1>3. Ok(k)
  BY <1>2
<1>4. QED
  BY <1>3 DEF layer

\* What leads there leads back.
LEMMA RouteBack ==
  ASSUME NEW dependsOn, NEW d, NEW e, NEW n \in Nat
  PROVE  (\E r : IsRoute(r, n, dependsOn, d, e)) <=> \E r : IsRoute(r, n, dependsOn, e, d)
<1>1. ASSUME NEW a, NEW b, NEW r, IsRoute(r, n, dependsOn, a, b)
      PROVE  \E s : IsRoute(s, n, dependsOn, b, a)
  <2> DEFINE s == [i \in 1..(n + 1) |-> r[(n + 2) - i]]
  <2>1. s[1] = b /\ s[n + 1] = a /\ s = [i \in 1..(n + 1) |-> s[i]]
    <3>1. (n + 2) - 1 = n + 1 /\ (n + 2) - (n + 1) = 1 /\ 1 \in 1..(n + 1)
          /\ n + 1 \in 1..(n + 1)
      OBVIOUS
    <3>2. QED
      BY <1>1, <3>1 DEF IsRoute
  <2>2. ASSUME NEW i \in 1..n  PROVE Tied(dependsOn, s[i], s[i + 1])
    <3>1. /\ (n + 1) - i \in 1..n /\ i \in 1..(n + 1) /\ i + 1 \in 1..(n + 1)
          /\ (n + 2) - (i + 1) = (n + 1) - i /\ ((n + 1) - i) + 1 = (n + 2) - i
      OBVIOUS
    <3>2. s[i] = r[(n + 2) - i] /\ s[i + 1] = r[(n + 1) - i]
      BY <3>1
    <3>3. Tied(dependsOn, r[(n + 1) - i], r[((n + 1) - i) + 1])
      BY <1>1, <3>1 DEF IsRoute
    <3>4. QED
      BY <3>1, <3>2, <3>3 DEF Tied
  <2> HIDE DEF s
  <2>3. IsRoute(s, n, dependsOn, b, a)
    BY <2>1, <2>2 DEF IsRoute
  <2>4. QED
    BY <2>3
<1>2. QED
  BY <1>1

\* The reference definition speaks of the same ways.
LEMMA RoutesAreRoutes ==
  ASSUME NEW dependsOn, \A l \in dependsOn : l = <<l[1], l[2]>>,
         NEW d, NEW e, NEW m \in Nat
  PROVE  /\ \A r \in Routes(dependsOn, d, e, m) :
              Len(r) - 1 \in 1..m /\ IsRoute(r, Len(r) - 1, dependsOn, d, e)
         /\ \A n \in 1..m : \A r : IsRoute(r, n, dependsOn, d, e) =>
              r \in Routes(dependsOn, d, e, m) /\ Len(r) - 1 = n
<1> DEFINE nodes == {d, e} \union UNION {{l[1], l[2]} : l \in dependsOn}
<1>1. Routes(dependsOn, d, e, m) =
        {r \in UNION {[1..(n + 1) -> nodes] : n \in 1..m} :
           /\ r[1] = d /\ r[Len(r)] = e
           /\ \A i \in 1..(Len(r) - 1) : Tied(dependsOn, r[i], r[i + 1])}
  BY DEF Routes, Tied
<1>2. ASSUME NEW r \in Routes(dependsOn, d, e, m)
      PROVE  Len(r) - 1 \in 1..m /\ IsRoute(r, Len(r) - 1, dependsOn, d, e)
  <2> HIDE DEF nodes
  <2>1. PICK n \in 1..m : r \in [1..(n + 1) -> nodes]
    BY <1>1, <1>2
  <2>2. Len(r) = n + 1 /\ Len(r) - 1 = n
    BY <2>1
  <2>3. r[1] = d /\ r[Len(r)] = e /\ \A i \in 1..(Len(r) - 1) : Tied(dependsOn, r[i], r[i + 1])
    BY <1>1, <1>2
  <2>4. r = [i \in 1..(n + 1) |-> r[i]]
    BY <2>1
  <2>5. QED
    BY <2>1, <2>2, <2>3, <2>4 DEF IsRoute
<1>3. ASSUME NEW n \in 1..m, NEW r, IsRoute(r, n, dependsOn, d, e)
      PROVE  r \in Routes(dependsOn, d, e, m) /\ Len(r) - 1 = n
  <2>1. ASSUME NEW i \in 1..(n + 1)  PROVE r[i] \in nodes
    <3>1. CASE i = n + 1
      BY <1>3, <3>1 DEF IsRoute
    <3>2. CASE i # n + 1
      <4>1. Tied(dependsOn, r[i], r[i + 1])
        <5>1. i \in 1..n
          BY <3>2
        <5>2. QED
          BY <1>3, <5>1 DEF IsRoute
      <4>2. PICK l \in dependsOn : r[i] \in {l[1], l[2]}
        BY <4>1 DEF Tied
      <4>3. QED
        BY <4>2
    <3>3. QED
      BY <3>1, <3>2
  <2> HIDE DEF nodes
  <2>2. r \in [1..(n + 1) -> nodes]
    <3>1. r = [i \in 1..(n + 1) |-> r[i]]
      BY <1>3 DEF IsRoute
    <3>2. QED
      BY <2>1, <3>1
  <2>3. Len(r) = n + 1 /\ Len(r) - 1 = n
    BY <2>2
  <2>4. r[1] = d /\ r[Len(r)] = e /\ \A i \in 1..(Len(r) - 1) : Tied(dependsOn, r[i], r[i + 1])
    BY <1>3, <2>3 DEF IsRoute
  <2>5. QED
    BY <1>1, <2>2, <2>3, <2>4
<1>4. QED
  BY <1>2, <1>3

\* There is a way from d to e along n links.
Reaches(dependsOn, d, e, n) == \E r : IsRoute(r, n, dependsOn, d, e)

\* What a limit leaves is what is nearest, and all if it is not exceeded.
LEMMA FirstAreNearest ==
  ASSUME NEW rows, \A row \in rows : row.depth \in Nat, NEW limit,
         NEW R \in Impact!AddedFirst(rows, limit)
  PROVE  /\ R \subseteq rows
         /\ \A r \in R : \A q \in rows : q.depth < r.depth => q \in R
         /\ Cardinality(rows) <= limit => R = rows
<1> DEFINE nearer(n) == {row \in rows : row.depth < n}
           at(n) == {row \in rows : row.depth = n}
           tops == UNION {{nearer(n) \union S : S \in SUBSET at(n)} :
                            n \in {row.depth : row \in rows}}
<1>a. R \in IF Cardinality(rows) <= limit THEN {rows}
            ELSE {T \in tops : Impact!Cardinality(T) = limit}
  <2>1. Impact!Cardinality(rows) = Cardinality(rows)
    BY DEF Impact!Cardinality, Cardinality
  <2>2. R \in IF Impact!Cardinality(rows) <= limit THEN {rows}
              ELSE {T \in tops : Impact!Cardinality(T) = limit}
    BY DEF Impact!AddedFirst
  <2> HIDE DEF tops
  <2>3. QED
    BY <2>1, <2>2
<1> HIDE DEF tops
<1>1. CASE Cardinality(rows) <= limit
  <2>1. R = rows
    BY <1>a, <1>1
  <2>2. QED
    BY <2>1
<1>2. CASE ~ (Cardinality(rows) <= limit)
  <2>1. \E n \in {row.depth : row \in rows} : \E S \in SUBSET at(n) : R = nearer(n) \union S
    <3>1. R \in tops
      BY <1>a, <1>2
    <3>2. QED
      BY <3>1 DEF tops
  <2>2. PICK n \in {row.depth : row \in rows} : \E S \in SUBSET at(n) : R = nearer(n) \union S
    BY <2>1
  <2>3. PICK S \in SUBSET at(n) : R = nearer(n) \union S
    BY <2>2
  <2>4. n \in Nat
    BY <2>2
  <2>5. \A r \in R : r.depth <= n
    BY <2>3, <2>4
  <2>6. \A r \in R : \A q \in rows : q.depth < r.depth => q.depth < n
    BY <2>3, <2>4, <2>5
  <2>7. QED
    BY <1>2, <2>3, <2>6
<1>3. QED
  BY <1>1, <1>2

\* The rows of the walk are the ways from id, by their length.
LEMMA RowsAreRoutes ==
  ASSUME NEW dependsOn, \A l \in dependsOn : l = <<l[1], l[2]>>, NEW id, NEW m \in Nat
  PROVE  \A row : row \in Impact!LinkRows(dependsOn, id, m) <=>
           \E n \in 0..m : \E d :
             Reaches(dependsOn, id, d, n) /\ row = [node |-> d, depth |-> n]
<1> DEFINE layer == Impact!LinkLayers(dependsOn, id, m)
           all == Impact!LinkRows(dependsOn, id, m)
<1>1. \A n \in 0..m : \A d : d \in layer[n] <=> Reaches(dependsOn, id, d, n)
  <2>1. ASSUME NEW n \in 0..m, NEW d
        PROVE  d \in layer[n] <=> Reaches(dependsOn, id, d, n)
    BY LayersAreRoutes DEF Reaches
  <2>2. QED
    BY <2>1
<1>2. all = UNION {{[node |-> d, depth |-> n] : d \in layer[n]} : n \in 0..m}
  BY DEF Impact!LinkRows
<1> HIDE DEF layer, all
<1>3. \A row : row \in all <=>
        \E n \in 0..m : \E d \in layer[n] : row = [node |-> d, depth |-> n]
  BY <1>2
<1>4. QED
  BY <1>1, <1>3 DEF all

\* The walk finds others there is a way to and how near they are; one it does
\* not find is beyond its limit, and no nearer than any it finds.
LEMMA WalkIsNearest ==
  ASSUME NEW dependsOn, \A l \in dependsOn : l = <<l[1], l[2]>>, NEW id, NEW m \in Nat, NEW e,
         NEW walked \in Impact!GetImpact(dependsOn, id, m)
  PROVE  /\ e \in DOMAIN walked =>
              /\ e # id /\ walked[e] \in 1..m /\ Reaches(dependsOn, id, e, walked[e])
              /\ \A n \in 1..m : Reaches(dependsOn, id, e, n) => walked[e] <= n
         /\ \A n \in 1..m : e # id /\ e \notin DOMAIN walked /\ Reaches(dependsOn, id, e, n) =>
              /\ ~ (Cardinality(Impact!LinkRows(dependsOn, id, m)) <= IMPACT_ROW_LIMIT)
              /\ \A d \in DOMAIN walked : walked[d] <= n
<1> DEFINE all == Impact!LinkRows(dependsOn, id, m)
<1>1. PICK rows \in Impact!AddedFirst(all, IMPACT_ROW_LIMIT) :
        walked = Impact!DepthsOf(rows, id)
  BY DEF Impact!GetImpact
<1>2. \A row : row \in all <=>
        \E n \in 0..m : \E d :
          Reaches(dependsOn, id, d, n) /\ row = [node |-> d, depth |-> n]
  BY RowsAreRoutes
<1> HIDE DEF all
<1>3. \A row \in all : /\ row.depth \in 0..m /\ Reaches(dependsOn, id, row.node, row.depth)
                       /\ row = [node |-> row.node, depth |-> row.depth]
  BY <1>2
<1>4. /\ rows \subseteq all
      /\ \A r \in rows : \A q \in all : q.depth < r.depth => q \in rows
      /\ Cardinality(all) <= IMPACT_ROW_LIMIT => rows = all
  <2>1. \A row \in all : row.depth \in Nat
    BY <1>3
  <2>2. QED
    BY <1>1, <2>1, FirstAreNearest
<1> DEFINE at(d) == {row.depth : row \in {row \in rows : row.node = d}}
<1>5. /\ DOMAIN walked = {row.node : row \in rows} \ {id}
      /\ \A d \in DOMAIN walked : walked[d] = Impact!Least(at(d))
  BY <1>1 DEF Impact!DepthsOf
<1>6. \A d, n : n \in 0..m /\ Reaches(dependsOn, id, d, n) => [node |-> d, depth |-> n] \in all
  BY <1>2
<1>7. Reaches(dependsOn, id, e, 0) => e = id
  BY DEF Reaches, IsRoute
<1>8. ASSUME NEW d \in DOMAIN walked
      PROVE  \E row \in rows : /\ row.node = d /\ walked[d] = row.depth
                               /\ \A r \in rows : r.node = d => row.depth <= r.depth
  <2>1. at(d) \in SUBSET Nat /\ at(d) # {}
    BY <1>3, <1>4, <1>5, <1>8
  <2>2. walked[d] \in at(d) /\ \A n \in at(d) : walked[d] <= n
    <3> HIDE DEF at
    <3>1. QED
      BY <1>5, <1>8, <2>1, LeastIsOne DEF Impact!Least
  <2>3. QED
    BY <2>2
<1>9. ASSUME e \in DOMAIN walked
      PROVE  /\ e # id /\ walked[e] \in 1..m /\ Reaches(dependsOn, id, e, walked[e])
             /\ \A n \in 1..m : Reaches(dependsOn, id, e, n) => walked[e] <= n
  <2>1. PICK row \in rows : /\ row.node = e /\ walked[e] = row.depth
                            /\ \A r \in rows : r.node = e => row.depth <= r.depth
    BY <1>8, <1>9
  <2>2. e # id
    BY <1>5, <1>9
  <2>3. walked[e] \in 0..m /\ Reaches(dependsOn, id, e, walked[e])
    BY <1>3, <1>4, <2>1
  <2>4. walked[e] \in 1..m
    BY <1>7, <2>2, <2>3
  <2>5. ASSUME NEW n \in 1..m, Reaches(dependsOn, id, e, n)  PROVE walked[e] <= n
    <3>1. PICK q : q = [node |-> e, depth |-> n]
      OBVIOUS
    <3>2. q \in all /\ q.node = e /\ q.depth = n
      BY <1>6, <2>5, <3>1
    <3>3. walked[e] <= n \/ n < walked[e]
      BY <2>4
    <3>4. QED
      BY <1>4, <2>1, <3>2, <3>3
  <2>6. QED
    BY <2>2, <2>3, <2>4, <2>5
<1>10. ASSUME NEW n \in 1..m, e # id, e \notin DOMAIN walked, Reaches(dependsOn, id, e, n)
       PROVE  /\ ~ (Cardinality(all) <= IMPACT_ROW_LIMIT)
              /\ \A d \in DOMAIN walked : walked[d] <= n
  <2>1. PICK q : q = [node |-> e, depth |-> n]
    OBVIOUS
  <2>2. q \in all /\ q.node = e /\ q.depth = n
    BY <1>6, <1>10, <2>1
  <2>3. q \notin rows
    BY <1>5, <1>10, <2>2
  <2>4. ASSUME NEW d \in DOMAIN walked  PROVE walked[d] <= n
    <3>1. PICK row \in rows : walked[d] = row.depth
      BY <1>8, <2>4
    <3>2. walked[d] \in Nat
      BY <1>3, <1>4, <3>1
    <3>3. walked[d] <= n \/ n < walked[d]
      BY <3>2
    <3>4. QED
      BY <1>4, <2>2, <2>3, <3>1, <3>3
  <2>5. QED
    BY <1>4, <2>2, <2>3, <2>4
<1>11. QED
  BY <1>9, <1>10 DEF all

\* get_impact tells of all that is linked within reach and how near it is, the
\* same from either end, but for what is furthest where there is too much.
LEMMA LinksAreNearest ==
  ASSUME NEW g, IsLinkGraph(g)
  PROVE  LinkImpactIsNearest(g)
<1> DEFINE answers == Impact!DecisionImpact(g.store, g.dependsOn, {}, g.id, g.depth, 1, TRUE)
<1>1. PICK store, dependsOn, id, m :
         store = g.store /\ dependsOn = g.dependsOn /\ id = g.id /\ m = g.depth
  OBVIOUS
<1>2. /\ m \in Nat /\ id \in DOMAIN store /\ \A l \in dependsOn : l = <<l[1], l[2]>>
      /\ \A d \in DOMAIN store : store[d].present \in BOOLEAN
  BY <1>1 DEF IsLinkGraph
<1>3. CASE ~ store[id].present
  <2>1. id \notin Impact!Present(store)
    BY <1>3 DEF Impact!Present
  <2>2. answers = {None}
    BY <1>1, <2>1 DEF Impact!DecisionImpact
  <2>3. QED
    BY <1>1, <1>3, <2>2 DEF LinkImpactIsNearest
<1>4. CASE store[id].present
  <2> DEFINE whole(d) == Cardinality(Impact!LinkRows(dependsOn, d, m)) <= IMPACT_ROW_LIMIT
             shown(walked) == [d \in DOMAIN walked \intersect Impact!Present(store) |-> walked[d]]
             Told(found, e) ==
               LET routes == Routes(dependsOn, id, e, m) IN
               /\ e \in DOMAIN found =>
                    /\ store[e].present
                    /\ \A r \in routes : found[e] <= Len(r) - 1
                    /\ \E r \in routes : found[e] = Len(r) - 1
                    /\ \A back \in Impact!GetImpact(dependsOn, e, m) :
                         IF id \in DOMAIN back THEN back[id] = found[e] ELSE ~whole(e)
               /\ store[e].present /\ routes # {} /\ e \notin DOMAIN found =>
                    /\ ~whole(id)
                    /\ \A d \in DOMAIN found : \A r \in routes : found[d] <= Len(r) - 1
  <2>1. \A impact \in answers :
          \E walked \in Impact!GetImpact(dependsOn, id, m) : impact.impacted = shown(walked)
    <3>1. id \in Impact!Present(store)
      BY <1>2, <1>4 DEF Impact!Present
    <3>2. answers = Impact!DecisionImpact(store, dependsOn, {}, id, m, 1, TRUE)
      BY <1>1
    <3> HIDE DEF answers
    <3>3. \A impact \in answers :
            impact.impacted \in {shown(walked) : walked \in Impact!GetImpact(dependsOn, id, m)}
      BY <3>1, <3>2 DEF Impact!DecisionImpact
    <3> HIDE DEF shown
    <3>4. QED
      BY <3>3
  <2> HIDE DEF answers, shown
  <2>2. SUFFICES ASSUME NEW walked \in Impact!GetImpact(dependsOn, id, m),
                        NEW e \in DOMAIN store \ {id}
                 PROVE  Told(shown(walked), e)
    <3> DEFINE ToldOf(found, e) ==
               LET routes == Routes(g.dependsOn, g.id, e, g.depth) IN
               /\ e \in DOMAIN found =>
                    /\ g.store[e].present
                    /\ \A r \in routes : found[e] <= Len(r) - 1
                    /\ \E r \in routes : found[e] = Len(r) - 1
                    /\ \A back \in Impact!GetImpact(g.dependsOn, e, g.depth) :
                         IF g.id \in DOMAIN back THEN back[g.id] = found[e]
                         ELSE ~ (Cardinality(Impact!LinkRows(g.dependsOn, e, g.depth))
                                   <= IMPACT_ROW_LIMIT)
               /\ g.store[e].present /\ routes # {} /\ e \notin DOMAIN found =>
                    /\ ~ (Cardinality(Impact!LinkRows(g.dependsOn, g.id, g.depth))
                            <= IMPACT_ROW_LIMIT)
                    /\ \A d \in DOMAIN found : \A r \in routes : found[d] <= Len(r) - 1
    <3>1. ASSUME NEW found, NEW e  PROVE ToldOf(found, e) = Told(found, e)
      BY <1>1
    <3> HIDE DEF whole, Told, ToldOf
    <3>2. \A impact \in answers : \A e \in DOMAIN g.store \ {g.id} : ToldOf(impact.impacted, e)
      BY <1>1, <2>1, <2>2, <3>1
    <3>3. \A impact \in Impact!DecisionImpact(g.store, g.dependsOn, {}, g.id, g.depth, 1, TRUE) :
            \A e \in DOMAIN g.store \ {g.id} : ToldOf(impact.impacted, e)
      BY <3>2 DEF answers
    <3>4. g.store[g.id].present
      BY <1>1, <1>4
    <3> USE DEF ToldOf
    <3>5. QED
      BY <3>3, <3>4 DEF LinkImpactIsNearest
  <2> DEFINE routes == Routes(dependsOn, id, e, m)
             found == shown(walked)
  <2>3. /\ \A d : d \in DOMAIN found => d \in DOMAIN walked /\ found[d] = walked[d]
        /\ e \in DOMAIN found <=> e \in DOMAIN walked /\ store[e].present
    BY <2>2 DEF shown, Impact!Present
  <2>4. /\ \A r \in routes : Len(r) - 1 \in 1..m /\ Reaches(dependsOn, id, e, Len(r) - 1)
        /\ \A n \in 1..m : Reaches(dependsOn, id, e, n) => \E r \in routes : Len(r) - 1 = n
    BY <1>2, <2>2, RoutesAreRoutes DEF Reaches
  <2>5. /\ e \in DOMAIN walked =>
             /\ walked[e] \in 1..m /\ Reaches(dependsOn, id, e, walked[e])
             /\ \A n \in 1..m : Reaches(dependsOn, id, e, n) => walked[e] <= n
        /\ \A n \in 1..m : e \notin DOMAIN walked /\ Reaches(dependsOn, id, e, n) =>
             ~whole(id) /\ \A d \in DOMAIN walked : walked[d] <= n
    BY <1>2, <2>2, WalkIsNearest
  <2>6. ASSUME e \in DOMAIN walked, NEW back \in Impact!GetImpact(dependsOn, e, m)
        PROVE  IF id \in DOMAIN back THEN back[id] = walked[e] ELSE ~whole(e)
    <3>1. \A n \in Nat : Reaches(dependsOn, id, e, n) <=> Reaches(dependsOn, e, id, n)
      BY RouteBack DEF Reaches
    <3>2. /\ id \in DOMAIN back =>
               /\ back[id] \in 1..m /\ Reaches(dependsOn, e, id, back[id])
               /\ \A n \in 1..m : Reaches(dependsOn, e, id, n) => back[id] <= n
          /\ \A n \in 1..m : id \notin DOMAIN back /\ Reaches(dependsOn, e, id, n) => ~whole(e)
      BY <1>2, <2>2, <2>6, WalkIsNearest
    <3> HIDE DEF whole
    <3>3. \A n \in 1..m : n \in Nat
      BY <1>2
    <3>4. CASE id \in DOMAIN back
      <4>1. back[id] <= walked[e] /\ walked[e] <= back[id]
        BY <2>5, <2>6, <3>1, <3>2, <3>3, <3>4
      <4>2. back[id] \in Nat /\ walked[e] \in Nat
        BY <2>5, <2>6, <3>2, <3>3, <3>4
      <4>3. \A i, j \in Nat : i <= j /\ j <= i => i = j
        OBVIOUS
      <4>4. QED
        BY <3>4, <4>1, <4>2, <4>3
    <3>5. CASE id \notin DOMAIN back
      BY <2>5, <2>6, <3>1, <3>2, <3>3, <3>5
    <3>6. QED
      BY <3>4, <3>5
  <2> HIDE DEF whole, routes, found
  <2>7. ASSUME e \in DOMAIN found
        PROVE  /\ store[e].present
               /\ \A r \in routes : found[e] <= Len(r) - 1
               /\ \E r \in routes : found[e] = Len(r) - 1
               /\ \A back \in Impact!GetImpact(dependsOn, e, m) :
                    IF id \in DOMAIN back THEN back[id] = found[e] ELSE ~whole(e)
    BY <2>3, <2>4, <2>5, <2>6, <2>7
  <2>8. ASSUME store[e].present, routes # {}, e \notin DOMAIN found
        PROVE  ~whole(id) /\ \A d \in DOMAIN found : \A r \in routes : found[d] <= Len(r) - 1
    BY <2>3, <2>4, <2>5, <2>8
  <2>9. QED
    BY <2>7, <2>8 DEF routes, found
<1>5. QED
  BY <1>2, <1>3, <1>4

-------------------------------------------------------------------------------
(***************************************************************************)
(* Imports between files.                                                  *)
(***************************************************************************)

\* What the rows of one depth are made of those of the depth before.
FirstRows(imports, seeds) ==
  {[path |-> i.from, depth |-> 1, provenance |-> i.provenance] :
     i \in {i \in imports : i.to \in seeds}}

NextRows(imports, n, rows) ==
  UNION {{[path |-> i.from, depth |-> n,
           provenance |-> Impact!Pessimistic(i.provenance, row.provenance)] :
            i \in {i \in imports : i.to = row.path}} : row \in rows}

AreImporterLayers(f, imports, seeds, m) ==
  f = [n \in 1..m |-> IF n = 1 THEN FirstRows(imports, seeds)
                      ELSE NextRows(imports, n, f[n - 1])]

\* The recursive query has an answer.
LEMMA ImporterLayersExist ==
  ASSUME NEW imports, NEW seeds, NEW m \in Nat
  PROVE  AreImporterLayers(Impact!ImporterLayers(imports, seeds, m), imports, seeds, m)
<1> DEFINE Layers(f, k) == AreImporterLayers(f, imports, seeds, k)
           without == {k \in Nat : ~ \E f : Layers(f, k)}
<1>1. without = {}
  <2>1. SUFFICES ASSUME without # {} PROVE FALSE
    OBVIOUS
  <2>2. PICK k \in without : \A j \in without : k <= j
    <3>1. without \in SUBSET Nat
      OBVIOUS
    <3> HIDE DEF without
    <3>2. QED
      BY <2>1, <3>1, LeastExists
  <2>3. k \in Nat /\ ~ \E f : Layers(f, k)
    OBVIOUS
  <2>4. CASE k = 0
    <3>1. Layers([n \in 1..0 |-> {}], 0)
      BY DEF AreImporterLayers
    <3>2. QED
      BY <2>3, <2>4, <3>1
  <2>5. CASE k # 0
    <3>1. k - 1 \in Nat /\ ~ (k <= k - 1)
      BY <2>3, <2>5
    <3>2. PICK g : Layers(g, k - 1)
      BY <2>2, <3>1
    <3> DEFINE f == [n \in 1..k |-> IF n = 1 THEN FirstRows(imports, seeds)
                                    ELSE NextRows(imports, n, g[n - 1])]
    <3>3. ASSUME NEW n \in 1..k, n # 1  PROVE f[n - 1] = g[n - 1]
      <4>1. n - 1 \in 1..k /\ n - 1 \in 1..(k - 1)
        BY <2>3, <3>3
      <4>2. g[n - 1] = IF n - 1 = 1 THEN FirstRows(imports, seeds)
                       ELSE NextRows(imports, n - 1, g[(n - 1) - 1])
        BY <3>2, <4>1 DEF AreImporterLayers
      <4>3. QED
        BY <4>1, <4>2
    <3>4. Layers(f, k)
      <4>1. \A n \in 1..k : f[n] = IF n = 1 THEN FirstRows(imports, seeds)
                                   ELSE NextRows(imports, n, f[n - 1])
        BY <3>3
      <4>2. f = [n \in 1..k |-> f[n]]
        OBVIOUS
      <4> HIDE DEF f
      <4>3. QED
        BY <4>1, <4>2 DEF AreImporterLayers
    <3>5. QED
      BY <2>3, <3>4
  <2>6. QED
    BY <2>4, <2>5
<1>2. PICK f : Layers(f, m)
  BY <1>1
<1>3. Impact!ImporterLayers(imports, seeds, m) = CHOOSE g : Layers(g, m)
  BY DEF Impact!ImporterLayers, AreImporterLayers, FirstRows, NextRows
<1> HIDE DEF Layers
<1>4. Layers(CHOOSE g : Layers(g, m), m)
  BY <1>2
<1>5. QED
  BY <1>3, <1>4 DEF Layers

\* A way to a seed along n imports, and the row it makes.
IsChain(c, n, imports, seeds) ==
  /\ c \in [1..n -> imports]
  /\ c[n].to \in seeds
  /\ \A k \in 1..(n - 1) : c[k].to = c[k + 1].from

IsExact(c) == \A k \in DOMAIN c : c[k].provenance = "exact"

RowOf(c, n) ==
  [ path |-> c[1].from, depth |-> n,
    provenance |-> IF IsExact(c) THEN "exact" ELSE "heuristic" ]

\* s is c with an import put before it.
Grows(s, c, n, imports) ==
  /\ n \in Nat \ {0} /\ c \in [1..n -> imports] /\ s \in [1..(n + 1) -> imports]
  /\ \A k \in 1..n : s[k + 1] = c[k]

\* It is a chain if c was one and starts where the import leads.
LEMMA ChainGrows ==
  ASSUME NEW imports, NEW seeds, NEW n, NEW c, NEW s, Grows(s, c, n, imports),
         NEW next, next = n + 1
  PROVE  IsChain(s, next, imports, seeds) <=>
           IsChain(c, n, imports, seeds) /\ s[1].to = c[1].from
<1>9. /\ n \in Nat \ {0} /\ c \in [1..n -> imports] /\ s \in [1..(n + 1) -> imports]
      /\ \A k \in 1..n : s[k + 1] = c[k]
  BY DEF Grows
<1> USE <1>9
<1>1. s[n + 1] = c[n] /\ s[2] = c[1]
  <2>1. n \in 1..n /\ 1 \in 1..n /\ 1 + 1 = 2
    OBVIOUS
  <2>2. QED
    BY <2>1
<1>2. ASSUME IsChain(c, n, imports, seeds), s[1].to = c[1].from
      PROVE  IsChain(s, next, imports, seeds)
  <2>1. ASSUME NEW k \in 1..(next - 1)  PROVE s[k].to = s[k + 1].from
    <3>1. CASE k = 1
      BY <1>1, <1>2, <3>1
    <3>2. CASE k # 1
      <4>1. k - 1 \in 1..(n - 1) /\ k - 1 \in 1..n /\ k \in 1..n /\ (k - 1) + 1 = k
        BY <3>2
      <4>2. s[k] = c[k - 1] /\ s[k + 1] = c[k]
        BY <4>1
      <4>3. c[k - 1].to = c[(k - 1) + 1].from
        BY <1>2, <4>1 DEF IsChain
      <4>4. QED
        BY <4>1, <4>2, <4>3
    <3>3. QED
      BY <3>1, <3>2
  <2>2. QED
    BY <1>1, <1>2, <2>1 DEF IsChain
<1>3. ASSUME IsChain(s, next, imports, seeds)
      PROVE  IsChain(c, n, imports, seeds) /\ s[1].to = c[1].from
  <2>1. \A k \in 1..n : s[k].to = s[k + 1].from
    BY <1>3 DEF IsChain
  <2>2. ASSUME NEW k \in 1..(n - 1)  PROVE c[k].to = c[k + 1].from
    <3>1. k \in 1..n /\ k + 1 \in 1..n
      OBVIOUS
    <3>2. s[k + 1].to = s[(k + 1) + 1].from
      BY <2>1, <3>1
    <3>3. s[k + 1] = c[k] /\ s[(k + 1) + 1] = c[k + 1]
      BY <3>1
    <3>4. QED
      BY <3>2, <3>3
  <2>3. s[1].to = c[1].from
    <3>1. 1 \in 1..n
      OBVIOUS
    <3>2. QED
      BY <1>1, <2>1, <3>1
  <2>4. QED
    BY <1>1, <1>3, <2>2, <2>3 DEF IsChain
<1>4. QED
  BY <1>2, <1>3

\* The row it makes is made of the row of the chain and the import alone.
LEMMA RowGrows ==
  ASSUME NEW imports, Graded(imports),
         NEW n, NEW c, NEW s, Grows(s, c, n, imports), NEW next, next = n + 1
  PROVE  RowOf(s, next) =
           [ path |-> s[1].from, depth |-> next,
             provenance |-> Impact!Pessimistic(s[1].provenance, RowOf(c, n).provenance) ]
<1>9. /\ n \in Nat \ {0} /\ c \in [1..n -> imports] /\ s \in [1..(n + 1) -> imports]
      /\ \A k \in 1..n : s[k + 1] = c[k]
  BY DEF Grows
<1> USE <1>9
<1>1. IsExact(s) <=> s[1].provenance = "exact" /\ IsExact(c)
  <2>1. \A k \in 1..(n + 1) : k = 1 \/ (k - 1 \in 1..n /\ (k - 1) + 1 = k)
    OBVIOUS
  <2>2. \A k \in 1..n : k + 1 \in 1..(n + 1)
    OBVIOUS
  <2>3. 1 \in 1..(n + 1)
    OBVIOUS
  <2>4. DOMAIN c = 1..n /\ DOMAIN s = 1..(n + 1)
    OBVIOUS
  <2>5. ASSUME s[1].provenance = "exact", IsExact(c)  PROVE IsExact(s)
    <3>1. ASSUME NEW k \in 1..(n + 1)  PROVE s[k].provenance = "exact"
      <4>1. CASE k = 1
        BY <2>5, <4>1
      <4>2. CASE k # 1
        <5>1. k - 1 \in 1..n /\ (k - 1) + 1 = k
          BY <2>1, <4>2
        <5>2. s[k] = c[k - 1]
          BY <5>1
        <5>3. QED
          BY <2>4, <2>5, <5>1, <5>2 DEF IsExact
      <4>3. QED
        BY <4>1, <4>2
    <3>2. QED
      BY <2>4, <3>1 DEF IsExact
  <2>6. ASSUME IsExact(s)  PROVE s[1].provenance = "exact" /\ IsExact(c)
    BY <2>2, <2>3, <2>4, <2>6 DEF IsExact
  <2>7. QED
    BY <2>5, <2>6
<1>2. s[1].provenance \in {"exact", "heuristic"}
  BY 1 \in 1..(n + 1) DEF Graded
<1>3. RowOf(s, next).provenance =
        Impact!Pessimistic(s[1].provenance, RowOf(c, n).provenance)
  BY <1>1, <1>2 DEF RowOf, Impact!Pessimistic
<1>4. QED
  BY <1>3 DEF RowOf

\* The rows of a depth are those of the chains of that length.
LEMMA LayersAreChains ==
  ASSUME NEW imports, Graded(imports),
         NEW seeds, NEW m \in Nat, NEW k \in 1..m, NEW row
  PROVE  row \in Impact!ImporterLayers(imports, seeds, m)[k] <=>
           \E c : IsChain(c, k, imports, seeds) /\ row = RowOf(c, k)
<1> DEFINE layer == Impact!ImporterLayers(imports, seeds, m)
           Ok(n) == \A x : x \in layer[n] <=>
                             \E c : IsChain(c, n, imports, seeds) /\ x = RowOf(c, n)
           wrong == {n \in 1..m : ~ Ok(n)}
<1>1. AreImporterLayers(layer, imports, seeds, m)
  BY ImporterLayersExist
<1> HIDE DEF layer
<1>2. \A n \in 1..m : layer[n] = IF n = 1 THEN FirstRows(imports, seeds)
                                 ELSE NextRows(imports, n, layer[n - 1])
  BY <1>1 DEF AreImporterLayers
<1>3. wrong = {}
  <2>1. SUFFICES ASSUME wrong # {} PROVE FALSE
    OBVIOUS
  <2>2. PICK n \in wrong : \A j \in wrong : n <= j
    <3>1. wrong \in SUBSET Nat
      OBVIOUS
    <3> HIDE DEF wrong
    <3>2. QED
      BY <2>1, <3>1, LeastExists
  <2>3. n \in 1..m /\ ~ Ok(n)
    OBVIOUS
  <2>4. CASE n = 1
    <3>1. SUFFICES ASSUME NEW x
                   PROVE  x \in layer[1] <=>
                            \E c : IsChain(c, 1, imports, seeds) /\ x = RowOf(c, 1)
      BY <2>3, <2>4
    <3>2. layer[1] = FirstRows(imports, seeds)
      BY <1>2, <2>4
    <3>3. ASSUME NEW i \in imports, i.to \in seeds,
                 x = [path |-> i.from, depth |-> 1, provenance |-> i.provenance]
          PROVE  \E c : IsChain(c, 1, imports, seeds) /\ x = RowOf(c, 1)
      <4> DEFINE c == [k_1 \in 1..1 |-> i]
      <4>1. IsChain(c, 1, imports, seeds)
        BY <3>3 DEF IsChain
      <4>2. IsExact(c) <=> i.provenance = "exact"
        BY DEF IsExact
      <4>3. c[1] = i /\ i.provenance \in {"exact", "heuristic"}
        BY DEF Graded
      <4> HIDE DEF c
      <4>4. x = RowOf(c, 1)
        BY <3>3, <4>2, <4>3 DEF RowOf
      <4>5. QED
        BY <4>1, <4>4
    <3>4. ASSUME NEW c, IsChain(c, 1, imports, seeds), x = RowOf(c, 1)
          PROVE  x \in FirstRows(imports, seeds)
      <4>1. DOMAIN c = 1..1 /\ c[1] \in imports /\ c[1].to \in seeds
        BY <3>4 DEF IsChain
      <4>2. IsExact(c) <=> c[1].provenance = "exact"
        BY <4>1 DEF IsExact
      <4>3. x = [path |-> c[1].from, depth |-> 1, provenance |-> c[1].provenance]
        BY <3>4, <4>1, <4>2 DEF RowOf, Graded
      <4>4. QED
        BY <4>1, <4>3 DEF FirstRows
    <3>5. x \in FirstRows(imports, seeds) =>
            \E i \in imports : /\ i.to \in seeds
                               /\ x = [path |-> i.from, depth |-> 1, provenance |-> i.provenance]
      BY DEF FirstRows
    <3>6. QED
      BY <3>2, <3>3, <3>4, <3>5
  <2>5. CASE n # 1
    <3>1. /\ n \in Nat /\ n - 1 \in 1..m /\ ~ (n <= n - 1) /\ (n - 1) + 1 = n
          /\ n - 1 \in Nat \ {0}
      BY <2>3, <2>5
    <3>2. Ok(n - 1)
      BY <2>2, <3>1
    <3>3. PICK l \in Nat \ {0} : l = n - 1 /\ l + 1 = n
      BY <3>1
    <3>4. SUFFICES ASSUME NEW x
                   PROVE  x \in layer[n] <=>
                            \E c : IsChain(c, n, imports, seeds) /\ x = RowOf(c, n)
      BY <2>3
    <3> DEFINE Made(i, r) == [ path |-> i.from, depth |-> n,
                               provenance |-> Impact!Pessimistic(i.provenance, r.provenance) ]
    <3>5. x \in layer[n] <=>
            \E r \in layer[l] : \E i \in imports : i.to = r.path /\ x = Made(i, r)
      <4>1. layer[n] = NextRows(imports, n, layer[l])
        BY <1>2, <2>3, <2>5, <3>3
      <4>2. PICK before : before = layer[l]
        OBVIOUS
      <4>3. x \in NextRows(imports, n, before) <=>
              \E r \in before : \E i \in imports : i.to = r.path /\ x = Made(i, r)
        BY DEF NextRows
      <4>4. QED
        BY <4>1, <4>2, <4>3
    <3>6. \A r : r \in layer[l] <=> \E c : IsChain(c, l, imports, seeds) /\ r = RowOf(c, l)
      BY <3>2, <3>3
    <3>7. ASSUME NEW c, IsChain(c, l, imports, seeds), NEW i \in imports, i.to = c[1].from,
                 x = Made(i, RowOf(c, l))
          PROVE  \E s : IsChain(s, n, imports, seeds) /\ x = RowOf(s, n)
      <4> DEFINE s == [j \in 1..n |-> IF j = 1 THEN i ELSE c[j - 1]]
      <4>1. c \in [1..l -> imports]
        BY <3>7 DEF IsChain
      <4>2. s \in [1..n -> imports]
        <5>1. \A j \in 1..n : j # 1 => j - 1 \in 1..l
          BY <3>3
        <5>2. QED
          BY <4>1, <5>1
      <4>3. \A j \in 1..l : s[j + 1] = c[j]
        <5>1. \A j \in 1..l : j + 1 \in 1..n /\ j + 1 # 1 /\ (j + 1) - 1 = j
          BY <3>3
        <5>2. QED
          BY <5>1
      <4>4. s[1] = i
        BY <3>1
      <4> HIDE DEF s
      <4>10. Grows(s, c, l, imports) /\ n = l + 1
        BY <3>3, <4>1, <4>2, <4>3 DEF Grows
      <4>5. IsChain(s, n, imports, seeds)
        BY <3>7, <4>4, <4>10, ChainGrows
      <4>6. RowOf(s, n) =
              [ path |-> s[1].from, depth |-> n,
                provenance |-> Impact!Pessimistic(s[1].provenance, RowOf(c, l).provenance) ]
        BY <4>10, RowGrows
      <4>7. QED
        BY <3>3, <3>7, <4>4, <4>5, <4>6
    <3>8. ASSUME NEW s, IsChain(s, n, imports, seeds), x = RowOf(s, n)
          PROVE  \E c : /\ IsChain(c, l, imports, seeds) /\ s[1] \in imports
                        /\ s[1].to = c[1].from /\ x = Made(s[1], RowOf(c, l))
      <4> DEFINE c == [j \in 1..l |-> s[j + 1]]
      <4>1. s \in [1..n -> imports] /\ s[1] \in imports
        <5>1. s \in [1..n -> imports] /\ 1 \in 1..n
          BY <3>1, <3>8 DEF IsChain
        <5>2. QED
          BY <3>3, <5>1
      <4>2. (c \in [1..l -> imports]) /\ (\A j \in 1..l : s[j + 1] = c[j])
        <5>1. \A j \in 1..l : j + 1 \in 1..n
          BY <3>3
        <5>2. QED
          BY <4>1, <5>1
      <4> HIDE DEF c
      <4>10. Grows(s, c, l, imports) /\ n = l + 1
        BY <3>3, <4>1, <4>2 DEF Grows
      <4>3. IsChain(c, l, imports, seeds) /\ s[1].to = c[1].from
        BY <3>8, <4>10, ChainGrows
      <4>4. RowOf(s, n) =
              [ path |-> s[1].from, depth |-> n,
                provenance |-> Impact!Pessimistic(s[1].provenance, RowOf(c, l).provenance) ]
        BY <4>10, RowGrows
      <4>5. QED
        BY <3>3, <3>8, <4>1, <4>3, <4>4
    <3>9. \A c : RowOf(c, l).path = c[1].from
      BY DEF RowOf
    <3> HIDE DEF Made
    <3>10. QED
      BY <3>5, <3>6, <3>7, <3>8, <3>9, SMTT(30)
  <2>6. QED
    BY <2>4, <2>5
<1>4. Ok(k)
  BY <1>3
<1>5. QED
  BY <1>4 DEF layer

\* The reference definition speaks of the same chains.
LEMMA ChainsAreChains ==
  ASSUME NEW imports, NEW path, NEW seeds, NEW m \in Nat
  PROVE  /\ \A c \in Chains(imports, path, seeds, m) :
              Len(c) \in 1..m /\ IsChain(c, Len(c), imports, seeds) /\ c[1].from = path
         /\ \A n \in 1..m : \A c : IsChain(c, n, imports, seeds) /\ c[1].from = path =>
              c \in Chains(imports, path, seeds, m) /\ Len(c) = n
<1>1. ASSUME NEW c \in Chains(imports, path, seeds, m)
      PROVE  Len(c) \in 1..m /\ IsChain(c, Len(c), imports, seeds) /\ c[1].from = path
  <2>1. PICK n \in 1..m : c \in [1..n -> imports]
    BY DEF Chains
  <2>2. Len(c) = n
    BY <2>1
  <2>3. /\ c[1].from = path /\ c[Len(c)].to \in seeds
        /\ \A k \in 1..(Len(c) - 1) : c[k].to = c[k + 1].from
    BY DEF Chains
  <2>4. QED
    BY <2>1, <2>2, <2>3 DEF IsChain
<1>2. ASSUME NEW n \in 1..m, NEW c, IsChain(c, n, imports, seeds), c[1].from = path
      PROVE  c \in Chains(imports, path, seeds, m) /\ Len(c) = n
  <2>1. c \in [1..n -> imports]
    BY <1>2 DEF IsChain
  <2>2. Len(c) = n
    BY <2>1
  <2>3. QED
    BY <1>2, <2>1, <2>2 DEF IsChain, Chains
<1>3. QED
  BY <1>1, <1>2

\* There is a way from path to a seed along n imports.
Imports(imports, seeds, path, n) ==
  \E c : IsChain(c, n, imports, seeds) /\ c[1].from = path

\* Of the files there is a way from, those found have the length of the shortest
\* and are exact only when some way is exact throughout; one not found is beyond
\* the limit, and no nearer than any found.
LEMMA ImportersAreNearest ==
  ASSUME NEW imports, Graded(imports),
         NEW seeds, NEW m \in Nat, NEW f, NEW found \in Impact!TransitiveImporters(imports, seeds, m)
  PROVE  LET whole == Cardinality(Impact!ImporterRows(imports, seeds, m)) <= IMPORTERS_ROW_LIMIT
             exact == \E n \in 1..m : \E c :
                        IsChain(c, n, imports, seeds) /\ c[1].from = f /\ IsExact(c)
         IN
         /\ f \in DOMAIN found =>
              /\ f \notin seeds
              /\ found[f].depth \in 1..m /\ Imports(imports, seeds, f, found[f].depth)
              /\ \A n \in 1..m : Imports(imports, seeds, f, n) => found[f].depth <= n
              /\ found[f].provenance = "exact" => exact
              /\ whole /\ exact => found[f].provenance = "exact"
         /\ \A n \in 1..m :
              f \notin DOMAIN found /\ f \notin seeds /\ Imports(imports, seeds, f, n) =>
                /\ ~whole
                /\ \A g \in DOMAIN found : found[g].depth <= n
<1> DEFINE layer == Impact!ImporterLayers(imports, seeds, m)
           all == Impact!ImporterRows(imports, seeds, m)
           whole == Cardinality(all) <= IMPORTERS_ROW_LIMIT
           exact == \E n \in 1..m : \E c :
                      IsChain(c, n, imports, seeds) /\ c[1].from = f /\ IsExact(c)
<1>1. \A row : row \in all <=>
        \E n \in 1..m : \E c : IsChain(c, n, imports, seeds) /\ row = RowOf(c, n)
  <2>1. all = UNION {layer[n] : n \in 1..m}
    BY DEF Impact!ImporterRows
  <2> HIDE DEF all, layer
  <2>2. \A row : row \in all <=> \E n \in 1..m : row \in layer[n]
    BY <2>1
  <2>3. \A n \in 1..m : \A row :
          row \in layer[n] <=> \E c : IsChain(c, n, imports, seeds) /\ row = RowOf(c, n)
    <3>1. ASSUME NEW n \in 1..m, NEW row
          PROVE  row \in layer[n] <=> \E c : IsChain(c, n, imports, seeds) /\ row = RowOf(c, n)
      BY LayersAreChains DEF layer
    <3>2. QED
      BY <3>1
  <2>4. QED
    BY <2>2, <2>3
<1>2. PICK rows \in Impact!AddedFirst(all, IMPORTERS_ROW_LIMIT) :
        found = Impact!ImportersOf(rows, seeds)
  BY DEF Impact!TransitiveImporters
<1> DEFINE rowsOf(p) == {row \in rows : row.path = p}
           at(p) == {row.depth : row \in rowsOf(p)}
           some(p) == \E row \in rowsOf(p) : row.provenance = "exact"
           paths == {row.path : row \in rows}
<1>3. /\ DOMAIN found = paths \ seeds
      /\ \A p \in DOMAIN found :
           /\ found[p].depth = Impact!Least(at(p))
           /\ found[p].provenance = IF some(p) THEN "exact" ELSE "heuristic"
  <2> DEFINE entry(p) == [ depth |-> Impact!Least(at(p)),
                           provenance |-> IF some(p) THEN "exact" ELSE "heuristic" ]
  <2>1. found = [p \in paths \ seeds |-> entry(p)]
    BY <1>2 DEF Impact!ImportersOf
  <2>2. \A p : /\ entry(p).depth = Impact!Least(at(p))
               /\ entry(p).provenance = IF some(p) THEN "exact" ELSE "heuristic"
    <3> HIDE DEF at, some
    <3>1. QED
      OBVIOUS
  <2> HIDE DEF entry, paths, at, some
  <2>3. QED
    BY <2>1, <2>2
<1>4. ASSUME NEW n, NEW c
      PROVE  /\ RowOf(c, n).path = c[1].from /\ RowOf(c, n).depth = n
             /\ RowOf(c, n).provenance = "exact" <=> IsExact(c)
  BY DEF RowOf
<1> HIDE DEF all
<1>5. /\ rows \subseteq all
      /\ \A r \in rows : \A q \in all : q.depth < r.depth => q \in rows
      /\ whole => rows = all
  <2>1. \A row \in all : row.depth \in Nat
    BY <1>1, <1>4
  <2>2. QED
    BY <1>2, <2>1, FirstAreNearest
<1>6. \A row \in all : row.depth \in 1..m /\ Imports(imports, seeds, row.path, row.depth)
  BY <1>1, <1>4 DEF Imports
<1>7. ASSUME NEW p, NEW n \in 1..m, Imports(imports, seeds, p, n)
      PROVE  \E q \in all : q.path = p /\ q.depth = n
  <2>1. PICK c : IsChain(c, n, imports, seeds) /\ c[1].from = p
    BY <1>7 DEF Imports
  <2>2. PICK q : q = RowOf(c, n)
    OBVIOUS
  <2>3. q \in all
    BY <1>1, <2>1, <2>2
  <2>4. QED
    BY <1>4, <2>1, <2>2, <2>3
<1>8. ASSUME NEW p \in DOMAIN found
      PROVE  \E row \in rows : /\ row.path = p /\ found[p].depth = row.depth
                               /\ \A r \in rows : r.path = p => row.depth <= r.depth
  <2>1. at(p) \in SUBSET Nat /\ at(p) # {}
    BY <1>3, <1>5, <1>6, <1>8
  <2>2. found[p].depth \in at(p) /\ \A n \in at(p) : found[p].depth <= n
    <3> HIDE DEF at
    <3>1. QED
      BY <1>3, <1>8, <2>1, LeastIsOne DEF Impact!Least
  <2>3. QED
    BY <2>2
<1>9. ASSUME f \in DOMAIN found
      PROVE  /\ f \notin seeds
             /\ found[f].depth \in 1..m /\ Imports(imports, seeds, f, found[f].depth)
             /\ \A n \in 1..m : Imports(imports, seeds, f, n) => found[f].depth <= n
  <2>1. PICK row \in rows : /\ row.path = f /\ found[f].depth = row.depth
                            /\ \A r \in rows : r.path = f => row.depth <= r.depth
    BY <1>8, <1>9
  <2>2. f \notin seeds
    BY <1>3, <1>9
  <2>3. found[f].depth \in 1..m /\ Imports(imports, seeds, f, found[f].depth)
    BY <1>5, <1>6, <2>1
  <2>4. ASSUME NEW n \in 1..m, Imports(imports, seeds, f, n)  PROVE found[f].depth <= n
    <3>1. PICK q \in all : q.path = f /\ q.depth = n
      BY <1>7, <2>4
    <3>2. found[f].depth <= n \/ n < found[f].depth
      BY <2>3
    <3>3. QED
      BY <1>5, <2>1, <3>1, <3>2
  <2>5. QED
    BY <2>2, <2>3, <2>4
<1>10. /\ some(f) => exact
       /\ rows = all /\ exact => some(f)
  BY <1>1, <1>4, <1>5
<1>11. f \in DOMAIN found =>
         /\ found[f].provenance = "exact" => exact
         /\ whole /\ exact => found[f].provenance = "exact"
  <2>1. f \in DOMAIN found => found[f].provenance = IF some(f) THEN "exact" ELSE "heuristic"
    BY <1>3
  <2> HIDE DEF some, exact, whole
  <2>2. QED
    BY <1>5, <1>10, <2>1
<1> HIDE DEF exact, whole
<1>12. ASSUME NEW n \in 1..m, f \notin DOMAIN found, f \notin seeds, Imports(imports, seeds, f, n)
       PROVE  ~whole /\ \A g \in DOMAIN found : found[g].depth <= n
  <2>1. PICK q \in all : q.path = f /\ q.depth = n
    BY <1>7, <1>12
  <2>2. q \notin rows
    BY <1>3, <1>12, <2>1
  <2>3. ASSUME NEW g \in DOMAIN found  PROVE found[g].depth <= n
    <3>1. PICK row \in rows : found[g].depth = row.depth
      BY <1>8, <2>3
    <3>2. found[g].depth \in Nat
      BY <1>5, <1>6, <3>1
    <3>3. found[g].depth <= n \/ n < found[g].depth
      BY <3>2
    <3>4. QED
      BY <1>5, <2>1, <2>2, <3>1, <3>3
  <2>4. QED
    BY <1>5, <2>1, <2>2, <2>3
<1>13. QED
  BY <1>9, <1>11, <1>12 DEF all, whole, exact

\* get_impact tells of the decisions anchored to importers within reach, how
\* near those are, and whether some chain to one is exact throughout; but for
\* what is furthest where there is too much.
LEMMA CodeIsNearest ==
  ASSUME NEW g, IsImportGraph(g)
  PROVE  CodeImpactIsNearest(g)
<1> DEFINE answers == Impact!DecisionImpact(g.store, {}, g.imports, g.id, 1, g.depth, g.codeIndexed)
<1>1. PICK store, imports, id, m, indexed :
        /\ store = g.store /\ imports = g.imports /\ id = g.id /\ m = g.depth
        /\ indexed = g.codeIndexed
  OBVIOUS
<1>2. PICK seeds : seeds = store[id].anchors
  OBVIOUS
<1>3. /\ m \in Nat /\ id \in DOMAIN store /\ store[id].present /\ indexed \in BOOLEAN
      /\ \A d \in DOMAIN store : store[d].present \in BOOLEAN
      /\ Graded(imports)
  BY <1>1 DEF IsImportGraph
<1> DEFINE visible == Impact!Visible(store)
           impacted(importers) ==
             UNION {{[id |-> d, file |-> f, found |-> importers[f]] :
                       f \in store[d].anchors \intersect DOMAIN importers} : d \in visible \ {id}}
           whole == Cardinality(Impact!ImporterRows(imports, seeds, m)) <= IMPORTERS_ROW_LIMIT
           chains(f) == Chains(imports, f, seeds, m)
           Expected(d, f) ==
             /\ indexed /\ d # id /\ f \in store[d].anchors \ seeds
             /\ store[d].status = "active" /\ store[d].present
             /\ chains(f) # {}
           Near(f, entry) ==
             /\ \A c \in chains(f) : entry.depth <= Len(c)
             /\ \E c \in chains(f) : entry.depth = Len(c)
             /\ entry.provenance = "exact" => \E c \in chains(f) : IsExact(c)
             /\ whole /\ (\E c \in chains(f) : IsExact(c)) => entry.provenance = "exact"
           Missed(answer, f) ==
             ~whole /\ \A x \in answer : \A c \in chains(f) : x.found.depth <= Len(c)
           Told(answer) ==
             /\ \A d \in DOMAIN store : \A f \in store[d].anchors :
                  LET shown == \E x \in answer : x.id = d /\ x.file = f IN
                  /\ shown => Expected(d, f)
                  /\ Expected(d, f) /\ ~shown => Missed(answer, f)
             /\ \A x \in answer : Near(x.file, x.found)
<1>4. ASSUME NEW impact \in answers
      PROVE  \/ (seeds = {} \/ ~indexed) /\ impact.codeImpacted = {}
             \/ /\ indexed
                /\ \E found \in Impact!TransitiveImporters(imports, seeds, m) :
                     impact.codeImpacted = impacted(found)
  <2>1. id \in Impact!Present(store)
    BY <1>3 DEF Impact!Present
  <2>2. answers = Impact!DecisionImpact(store, {}, imports, id, 1, m, indexed)
    BY <1>1
  <2> HIDE DEF answers
  <2>3. impact.codeImpacted \in
          IF seeds = {} \/ ~indexed THEN {{}} ELSE Impact!ForDecision(store, imports, id, m)
    BY <1>2, <1>4, <2>1, <2>2 DEF Impact!DecisionImpact
  <2>4. Impact!ForDecision(store, imports, id, m) =
          {impacted(found) : found \in Impact!TransitiveImporters(imports, seeds, m)}
    BY <1>2 DEF Impact!ForDecision
  <2> HIDE DEF impacted
  <2>5. QED
    BY <1>3, <2>3, <2>4
<1>5. \A f : /\ \A c \in chains(f) :
                  Len(c) \in 1..m /\ IsChain(c, Len(c), imports, seeds) /\ c[1].from = f
             /\ \A n \in 1..m : \A c : IsChain(c, n, imports, seeds) /\ c[1].from = f =>
                  c \in chains(f) /\ Len(c) = n
  <2>1. ASSUME NEW f
        PROVE  /\ \A c \in chains(f) :
                    Len(c) \in 1..m /\ IsChain(c, Len(c), imports, seeds) /\ c[1].from = f
               /\ \A n \in 1..m : \A c : IsChain(c, n, imports, seeds) /\ c[1].from = f =>
                    c \in chains(f) /\ Len(c) = n
    <3>1. m \in Nat
      BY <1>3
    <3>2. \A c \in chains(f) :
            Len(c) \in 1..m /\ IsChain(c, Len(c), imports, seeds) /\ c[1].from = f
      BY <3>1, ChainsAreChains
    <3>3. ASSUME NEW n \in 1..m, NEW c, IsChain(c, n, imports, seeds), c[1].from = f
          PROVE  c \in chains(f) /\ Len(c) = n
      BY <3>1, <3>3, ChainsAreChains
    <3> HIDE DEF chains
    <3>4. QED
      BY <3>2, <3>3
  <2> HIDE DEF chains
  <2>2. QED
    BY <2>1
<1> HIDE DEF answers, whole, chains
<1>6. Told({}) \/ ~ (seeds = {} \/ ~indexed)
  <2>1. ASSUME seeds = {}, NEW f  PROVE chains(f) = {}
    BY <1>5, <2>1 DEF IsChain
  <2>2. seeds = {} \/ ~indexed => \A d, f : ~Expected(d, f)
    BY <2>1
  <2> HIDE DEF Expected, Missed, Near
  <2>3. QED
    BY <2>2
<1>7. ASSUME NEW found \in Impact!TransitiveImporters(imports, seeds, m), indexed
      PROVE  Told(impacted(found))
  <2>1. ASSUME NEW f
        PROVE  /\ f \in DOMAIN found =>
                    f \notin seeds /\ chains(f) # {} /\ found[f].depth \in 1..m /\ Near(f, found[f])
               /\ f \notin DOMAIN found /\ f \notin seeds /\ chains(f) # {} =>
                    ~whole /\ \A e \in DOMAIN found : \A c \in chains(f) : found[e].depth <= Len(c)
    <3> DEFINE exact == \E n \in 1..m : \E c :
                          IsChain(c, n, imports, seeds) /\ c[1].from = f /\ IsExact(c)
    <3>1. /\ f \in DOMAIN found =>
               /\ f \notin seeds
               /\ found[f].depth \in 1..m /\ Imports(imports, seeds, f, found[f].depth)
               /\ \A n \in 1..m : Imports(imports, seeds, f, n) => found[f].depth <= n
               /\ found[f].provenance = "exact" => exact
               /\ whole /\ exact => found[f].provenance = "exact"
          /\ \A n \in 1..m :
               f \notin DOMAIN found /\ f \notin seeds /\ Imports(imports, seeds, f, n) =>
                 ~whole /\ \A e \in DOMAIN found : found[e].depth <= n
      BY <1>3, ImportersAreNearest DEF whole
    <3>2. exact <=> \E c \in chains(f) : IsExact(c)
      BY <1>5
    <3>3. \A n \in 1..m : Imports(imports, seeds, f, n) <=> \E c \in chains(f) : Len(c) = n
      BY <1>5 DEF Imports
    <3>4. \A c \in chains(f) : Len(c) \in 1..m
      BY <1>5
    <3> HIDE DEF exact
    <3>5. ASSUME f \in DOMAIN found  PROVE Near(f, found[f]) /\ chains(f) # {}
      <4>1. PICK entry : entry = found[f]
        OBVIOUS
      <4>2. /\ entry.depth \in 1..m /\ Imports(imports, seeds, f, entry.depth)
            /\ \A n \in 1..m : Imports(imports, seeds, f, n) => entry.depth <= n
            /\ entry.provenance = "exact" => exact
            /\ whole /\ exact => entry.provenance = "exact"
        BY <3>1, <3>5, <4>1
      <4>3. \A c \in chains(f) : entry.depth <= Len(c)
        BY <3>3, <3>4, <4>2
      <4>4. \E c \in chains(f) : entry.depth = Len(c)
        BY <3>3, <4>2
      <4>5. QED
        BY <3>2, <4>1, <4>2, <4>3, <4>4
    <3>6. ASSUME f \notin DOMAIN found, f \notin seeds, NEW c \in chains(f)
          PROVE  ~whole /\ \A e \in DOMAIN found : found[e].depth <= Len(c)
      BY <3>1, <3>3, <3>4, <3>6
    <3> HIDE DEF Near
    <3>7. QED
      BY <3>1, <3>5, <3>6
  <2> DEFINE answer == impacted(found)
  <2>2. \A x : x \in answer <=>
          \E d \in visible \ {id} : \E f \in store[d].anchors \intersect DOMAIN found :
            x = [id |-> d, file |-> f, found |-> found[f]]
    <3> HIDE DEF visible
    <3>1. QED
      OBVIOUS
  <2> HIDE DEF answer, impacted
  <2>3. \A d \in DOMAIN store : d \in visible <=> store[d].status = "active" /\ store[d].present
    BY DEF Impact!Visible
  <2> HIDE DEF visible, Near
  <2>4. ASSUME NEW x \in answer
        PROVE  x.file \in DOMAIN found /\ x.found = found[x.file]
    BY <2>2, <2>4
  <2>5. ASSUME NEW d \in DOMAIN store, NEW f \in store[d].anchors
        PROVE  (\E x \in answer : x.id = d /\ x.file = f) <=>
                 d \in visible \ {id} /\ f \in DOMAIN found
    <3>1. ASSUME NEW x \in answer, x.id = d, x.file = f
          PROVE  d \in visible \ {id} /\ f \in DOMAIN found
      BY <2>2, <3>1
    <3>2. ASSUME d \in visible \ {id}, f \in DOMAIN found
          PROVE  \E x \in answer : x.id = d /\ x.file = f
      <4>1. PICK x : x = [id |-> d, file |-> f, found |-> found[f]]
        OBVIOUS
      <4>2. x \in answer
        BY <2>2, <2>5, <3>2, <4>1
      <4>3. QED
        BY <4>1, <4>2
    <3>3. QED
      BY <3>1, <3>2
  <2>6. ASSUME NEW d \in DOMAIN store, NEW f \in store[d].anchors
        PROVE  LET shown == \E x \in answer : x.id = d /\ x.file = f IN
               /\ shown => Expected(d, f)
               /\ Expected(d, f) /\ ~shown => Missed(answer, f)
    <3> DEFINE shown == \E x \in answer : x.id = d /\ x.file = f
    <3>1. shown => Expected(d, f)
      BY <1>7, <2>1, <2>3, <2>5, <2>6
    <3>2. ASSUME Expected(d, f), ~shown  PROVE Missed(answer, f)
      <4>1. f \notin DOMAIN found /\ f \notin seeds /\ chains(f) # {}
        BY <2>3, <2>5, <2>6, <3>2
      <4>2. ~whole /\ \A e \in DOMAIN found : \A c \in chains(f) : found[e].depth <= Len(c)
        BY <2>1, <4>1
      <4>3. QED
        BY <2>4, <4>2
    <3> HIDE DEF Expected, Missed
    <3>3. QED
      BY <3>1, <3>2
  <2>7. ASSUME NEW x \in answer  PROVE Near(x.file, x.found)
    BY <2>1, <2>4, <2>7
  <2> HIDE DEF Expected, Missed
  <2>8. QED
    BY <2>6, <2>7 DEF answer
<1> HIDE DEF Told, impacted
<1>8. \A impact \in answers : Told(impact.codeImpacted)
  BY <1>4, <1>6, <1>7
<1>9. SUFFICES ASSUME NEW impact \in answers
               PROVE  ShowsNearest(g, impact.codeImpacted)
  BY DEF CodeImpactIsNearest, answers
<1>10. QED
  <2>1. PICK answer : answer = impact.codeImpacted
    OBVIOUS
  <2>2. Told(answer)
    BY <1>8, <1>9, <2>1
  <2>3. /\ \A f : Chains(g.imports, f, g.store[g.id].anchors, g.depth) = chains(f)
        /\ (Cardinality(Impact!ImporterRows(g.imports, g.store[g.id].anchors, g.depth))
              <= IMPORTERS_ROW_LIMIT) = whole
    BY <1>1, <1>2 DEF chains, whole
  <2> DEFINE chain(f) == Chains(g.imports, f, g.store[g.id].anchors, g.depth)
             wholly == Cardinality(Impact!ImporterRows(
                         g.imports, g.store[g.id].anchors, g.depth)) <= IMPORTERS_ROW_LIMIT
             expected(d, f) ==
               /\ g.codeIndexed /\ d # g.id
               /\ f \in g.store[d].anchors \ g.store[g.id].anchors
               /\ g.store[d].status = "active" /\ g.store[d].present
               /\ chain(f) # {}
  <2>4. ASSUME NEW d \in DOMAIN g.store, NEW f \in g.store[d].anchors
        PROVE  LET shown == \E x \in answer : x.id = d /\ x.file = f IN
               /\ shown => expected(d, f)
               /\ expected(d, f) /\ ~shown =>
                    /\ ~wholly
                    /\ \A x \in answer : \A c \in chain(f) : x.found.depth <= Len(c)
    <3>1. expected(d, f) <=> Expected(d, f)
      BY <1>1, <1>2, <2>3
    <3>2. chain(f) = chains(f) /\ wholly = whole
      BY <2>3
    <3>3. LET shown == \E x \in answer : x.id = d /\ x.file = f IN
          /\ shown => Expected(d, f)
          /\ Expected(d, f) /\ ~shown => Missed(answer, f)
      <4> HIDE DEF Expected, Missed
      <4>1. QED
        BY <1>1, <2>2, <2>4 DEF Told
    <3> HIDE DEF expected, Expected, chain, wholly
    <3>4. QED
      BY <3>1, <3>2, <3>3
  <2>5. ASSUME NEW x \in answer
        PROVE  /\ \A c \in chain(x.file) : x.found.depth <= Len(c)
               /\ \E c \in chain(x.file) : x.found.depth = Len(c)
               /\ x.found.provenance = "exact" =>
                    \E c \in chain(x.file) : \A k \in DOMAIN c : c[k].provenance = "exact"
               /\ wholly /\ (\E c \in chain(x.file) :
                              \A k \in DOMAIN c : c[k].provenance = "exact") =>
                    x.found.provenance = "exact"
    <3>1. chain(x.file) = chains(x.file) /\ wholly = whole
      BY <2>3
    <3>2. Near(x.file, x.found)
      <4> HIDE DEF Near
      <4>1. QED
        BY <2>2, <2>5 DEF Told
    <3> HIDE DEF chain, wholly
    <3>3. QED
      BY <3>1, <3>2 DEF IsExact
  <2>6. ShowsNearest(g, answer)
    BY <2>4, <2>5, Zenon DEF ShowsNearest
  <2>7. QED
    BY <2>1, <2>6

-------------------------------------------------------------------------------
(***************************************************************************)
(* Anchors.                                                                *)
(***************************************************************************)

Listed(code) == DOMAIN code.byName \subseteq Nat

\* The names like the one asked for that are names of one of the files.
NearNames(code, name, files) ==
  {i \in DOMAIN code.byName :
     /\ Anchor!Near(code.byName[i], name)
     /\ \E f \in files : Anchor!HasSymbol(code, f, code.byName[i])}

\* The operators of the library that AnchorQueries brings along are those.
LEMMA LibraryIsLibrary ==
  /\ \A S : Anchor!Cardinality(S) = Cardinality(S)
  /\ \A s : Anchor!ToSet(s) = ToSet(s) /\ Anchor!Last(s) = Last(s)
  /\ \A s, t : Anchor!IsPrefix(s, t) = IsPrefix(s, t)
<1>1. \A S : Anchor!Cardinality(S) = Cardinality(S)
  BY DEF Anchor!Cardinality, Cardinality
<1>2. \A s : Anchor!ToSet(s) = ToSet(s)
  BY DEF Anchor!ToSet, ToSet
<1>3. \A s : Anchor!Last(s) = Last(s)
  BY DEF Anchor!Last, Last
<1>4. \A s, t : Anchor!IsPrefix(s, t) = IsPrefix(s, t)
  BY DEF Anchor!IsPrefix, IsPrefix
<1>5. QED
  BY <1>1, <1>2, <1>3, <1>4

\* Some name is suggested when some is near, and what is suggested is near.
LEMMA MatchesAreNear ==
  ASSUME NEW code, Listed(code),
         NEW name, NEW limit \in Nat \ {0}, NEW files
  PROVE  LET matches == Anchor!MatchSymbols(code, name, limit, files) IN
         /\ NearNames(code, name, files) # {} => matches # {}
         /\ \A n \in matches : \E i \in NearNames(code, name, files) : n = code.byName[i]
<1> DEFINE near == NearNames(code, name, files)
           kept == {i \in near : Cardinality({j \in near : j < i}) < limit}
           matches == Anchor!MatchSymbols(code, name, limit, files)
<1>1. matches = {code.byName[i] : i \in kept}
  BY LibraryIsLibrary DEF Anchor!MatchSymbols, NearNames
<1>2. near \in SUBSET Nat
  BY DEF NearNames, Listed
<1> HIDE DEF matches, near
<1>3. ASSUME near # {}  PROVE kept # {}
  <2>1. PICK least \in near : \A n \in near : least <= n
    BY <1>2, <1>3, LeastExists
  <2>2. {j \in near : j < least} = {}
    <3>1. \A k, l \in Nat : k <= l => ~ (l < k)
      OBVIOUS
    <3>2. \A n \in near : ~ (n < least)
      BY <1>2, <2>1, <3>1
    <3>3. QED
      BY <3>2
  <2>3. Cardinality({j \in near : j < least}) = 0
    BY <2>2, FS_EmptySet
  <2>4. QED
    BY <2>1, <2>3
<1>4. \A n \in matches : \E i \in near : n = code.byName[i]
  BY <1>1
<1>5. near # {} => matches # {}
  BY <1>1, <1>3
<1>6. QED
  BY <1>4, <1>5 DEF matches, near

\* A symbol whose last part some name shares is hinted at, and hints are all of
\* the anchor's file or none is.
LEMMA HintsAreOfOneKind ==
  ASSUME NEW code, Listed(code), NEW anchor,
         \A s \in code.symbols :
           /\ s = [file |-> s.file, name |-> s.name] /\ s.name \in Seq(STRING) \ {<<>>}
           /\ \E i \in DOMAIN code.byName : code.byName[i] = s.name
  PROVE  LET hint == Anchor!SymbolHint(code, anchor)
             ofFile(n) == Anchor!HasSymbol(code, anchor.file, n) IN
         /\ (\E s \in code.symbols : Last(s.name) = Last(anchor.symbol)) => hint # {}
         /\ \A n, m \in hint : ofFile(n) => ofFile(m)
<1> DEFINE hint == Anchor!SymbolHint(code, anchor)
           ofFile(n) == Anchor!HasSymbol(code, anchor.file, n)
           everywhere == {s.file : s \in code.symbols}
           here == Anchor!MatchSymbols(code, anchor.symbol, 3, {anchor.file})
           there == Anchor!MatchSymbols(code, anchor.symbol, 3, everywhere)
           nearHere == NearNames(code, anchor.symbol, {anchor.file})
           nearThere == NearNames(code, anchor.symbol, everywhere)
<1>1. hint = IF here # {} THEN here ELSE there
  BY DEF Anchor!SymbolHint, Anchor!SuggestSymbols, Anchor!SUGGESTION_LIMIT
<1>2. \A files :
        LET near == NearNames(code, anchor.symbol, files)
            matches == Anchor!MatchSymbols(code, anchor.symbol, 3, files) IN
        /\ near # {} => matches # {}
        /\ \A n \in matches : \E i \in near : n = code.byName[i]
  <2>1. PICK name, limit : name = anchor.symbol /\ limit = 3 /\ limit \in Nat \ {0}
    OBVIOUS
  <2>2. ASSUME NEW files
        PROVE  /\ NearNames(code, name, files) # {} =>
                    Anchor!MatchSymbols(code, name, limit, files) # {}
               /\ \A n \in Anchor!MatchSymbols(code, name, limit, files) :
                    \E i \in NearNames(code, name, files) : n = code.byName[i]
    BY <2>1, MatchesAreNear, SMTT(30)
  <2>3. QED
    BY <2>1, <2>2
<1>3. /\ nearHere # {} => here # {}
      /\ \A n \in here : \E i \in nearHere : n = code.byName[i]
      /\ nearThere # {} => there # {}
      /\ \A n \in there : \E i \in nearThere : n = code.byName[i]
  BY <1>2
<1>4. ASSUME NEW n \in here  PROVE ofFile(n)
  BY <1>2 DEF NearNames
<1>5. ASSUME NEW n \in there, ofFile(n)  PROVE here # {}
  <2>1. PICK i \in nearThere : n = code.byName[i]
    BY <1>3
  <2>2. i \in nearHere
    BY <1>5, <2>1 DEF NearNames
  <2>3. QED
    BY <1>3, <2>2
<1>6. ASSUME NEW s \in code.symbols, Last(s.name) = Last(anchor.symbol)  PROVE there # {}
  <2>1. PICK i \in DOMAIN code.byName : code.byName[i] = s.name
    OBVIOUS
  <2>2. Last(s.name) \in ToSet(s.name)
    <3>1. Len(s.name) \in DOMAIN s.name
      <4>1. s.name \in Seq(STRING) /\ s.name # <<>>
        OBVIOUS
      <4>2. QED
        BY <4>1
    <3>2. QED
      BY <3>1 DEF Last, ToSet
  <2>3. Anchor!Near(code.byName[i], anchor.symbol)
    BY <1>6, <2>1, <2>2, LibraryIsLibrary DEF Anchor!Near
  <2>4. s = [file |-> s.file, name |-> s.name] /\ s.file \in everywhere
    OBVIOUS
  <2>5. Anchor!HasSymbol(code, s.file, code.byName[i])
    BY <2>1, <2>4 DEF Anchor!HasSymbol
  <2>6. i \in nearThere
    BY <2>3, <2>4, <2>5 DEF NearNames
  <2>7. QED
    BY <1>3, <2>6
<1> HIDE DEF here, there, ofFile, hint
<1>7. (\E s \in code.symbols : Last(s.name) = Last(anchor.symbol)) => hint # {}
  BY <1>1, <1>6
<1>8. \A n, m \in hint : ofFile(n) => ofFile(m)
  BY <1>1, <1>4, <1>5
<1>9. QED
  BY <1>7, <1>8 DEF hint, ofFile

\* What starts a sequence.
LEMMA FirstOf ==
  ASSUME NEW S, NEW t \in Seq(S), Len(t) >= 1
  PROVE  SubSeq(t, 1, 1) = <<t[1]>>
<1>1. t[1] \in S
  BY ElementOfSeq
<1>2. PICK x \in S : x = t[1]
  BY <1>1
<1>3. /\ SubSeq(t, 1, 1) \in Seq(S)
      /\ Len(SubSeq(t, 1, 1)) = 1
      /\ \A i \in 1..1 : SubSeq(t, 1, 1)[i] = t[1 + i - 1]
  <2>1. \A i \in 1..1 : t[i] \in S
    BY <1>1
  <2>2. QED
    BY <2>1, SubSeqProperties
<1>4. <<x>> \in Seq(S) /\ Len(<<x>>) = 1 /\ <<x>>[1] = x
  OBVIOUS
<1>5. SubSeq(t, 1, 1)[1] = x
  BY <1>2, <1>3
<1>6. SubSeq(t, 1, 1) = <<x>>
  <2>1. PICK s \in Seq(S) : s = SubSeq(t, 1, 1)
    BY <1>3
  <2>2. PICK u \in Seq(S) : u = <<x>>
    BY <1>4
  <2>3. Len(s) = Len(u) /\ \A i \in 1..Len(s) : s[i] = u[i]
    BY <1>3, <1>4, <1>5, <2>1, <2>2
  <2>4. s = u
    BY <2>3, SeqEqual
  <2>5. QED
    BY <2>1, <2>2, <2>4
<1>7. QED
  BY <1>2, <1>6

\* What doctor and save_decision say of anchors is what why makes of them, and
\* hints are of one kind.
LEMMA AnchorsTold ==
  ASSUME NoneIsNoValue, NEW q, IsAnchoredCode(q)
  PROVE  AnchorsAreTold(q)
<1> DEFINE orphans == Anchor!OrphanSymbolAnchors(q.store, q.code)
           why(target) == Anchor!BuildReport(q.store, q.code, target)
           report(symbol) == Anchor!SymbolReport(q.store, q.code, symbol)
           shows(answer, d, a) ==
             /\ answer.matchedBy = "symbol"
             /\ a.file \in DOMAIN answer.locations
             /\ d \in answer.locations[a.file]
           shadowed(symbol) == \E d \in Anchor!Present(q.store) :
                                 \E a \in q.store[d].anchors :
                                   \/ a.file[1] = symbol
                                   \/ <<a.file, <<symbol>>>> \in PathLike
<1>1. PICK store, code, tree : store = q.store /\ code = q.code /\ tree = q.tree
  OBVIOUS
<1>2. /\ code # None /\ Listed(code)
      /\ \A s \in code.symbols :
           /\ s = [file |-> s.file, name |-> s.name] /\ s.name \in Seq(STRING) \ {<<>>}
           /\ \E i \in DOMAIN code.byName : code.byName[i] = s.name
      /\ \A d \in DOMAIN store : \A a \in store[d].anchors :
           a.file \in Seq(Seq(STRING)) \ {<<>>}
  BY <1>1 DEF IsAnchoredCode, Listed
<1>3. None # "symbol"
  BY DEF NoneIsNoValue
<1>4. \A o : o \in orphans <=>
        \E d \in Anchor!ListActive(store) : \E a \in store[d].anchors :
          /\ a.symbol # <<>> /\ ~Anchor!HasSymbol(code, a.file, a.symbol)
          /\ o = [id |-> d, anchor |-> a, hint |-> Anchor!SymbolHint(code, a)]
  BY <1>1 DEF Anchor!OrphanSymbolAnchors
<1> HIDE DEF orphans
<1>5. ASSUME NEW d \in Anchor!ListActive(store), NEW a \in store[d].anchors, a.symbol # <<>>
      PROVE  LET orphan == \E o \in orphans : o.id = d /\ o.anchor = a IN
             /\ orphan <=> ~shows(report(a.symbol), d, a)
             /\ shadowed(a.symbol) => why(<<a.symbol>>).matchedBy = "path"
             /\ ~shadowed(a.symbol) => (orphan <=> ~shows(why(<<a.symbol>>), d, a))
  <2> DEFINE orphan == \E o \in orphans : o.id = d /\ o.anchor = a
  <2>1. orphan <=> ~Anchor!HasSymbol(code, a.file, a.symbol)
    <3>1. ASSUME NEW o \in orphans, o.id = d, o.anchor = a
          PROVE  ~Anchor!HasSymbol(code, a.file, a.symbol)
      BY <1>4, <3>1
    <3>2. ASSUME ~Anchor!HasSymbol(code, a.file, a.symbol)  PROVE orphan
      <4>1. PICK o : o = [id |-> d, anchor |-> a, hint |-> Anchor!SymbolHint(code, a)]
        OBVIOUS
      <4>2. o \in orphans
        BY <1>4, <1>5, <3>2, <4>1
      <4>3. QED
        BY <4>1, <4>2
    <3>3. QED
      BY <3>1, <3>2
  <2> HIDE DEF orphan
  <2>2. d \in DOMAIN store /\ d \in Anchor!Present(store)
    BY <1>5 DEF Anchor!ListActive, Anchor!Present
  <2>3. shows(report(a.symbol), d, a) <=> Anchor!HasSymbol(code, a.file, a.symbol)
    <3>1. a.file \in Anchor!FindSymbol(code, a.symbol) <=>
            Anchor!HasSymbol(code, a.file, a.symbol)
      <4>1. ASSUME NEW s \in code.symbols, s.name = a.symbol, s.file = a.file
            PROVE  Anchor!HasSymbol(code, a.file, a.symbol)
        BY <1>2, <4>1 DEF Anchor!HasSymbol
      <4>2. ASSUME Anchor!HasSymbol(code, a.file, a.symbol)
            PROVE  \E s \in code.symbols : s.name = a.symbol /\ s.file = a.file
        BY <4>2 DEF Anchor!HasSymbol
      <4>3. QED
        BY <4>1, <4>2 DEF Anchor!FindSymbol
    <3>2. d \in Anchor!ListByFileAnchorOrSymbol(store, a.file, a.symbol)
      BY <1>5, <2>2 DEF Anchor!ListByFileAnchorOrSymbol
    <3>3. CASE Anchor!FindSymbol(code, a.symbol) = {}
      <4>1. report(a.symbol).matchedBy = None
        BY <1>1, <1>2, <3>3 DEF Anchor!SymbolReport
      <4>2. QED
        BY <1>3, <3>1, <3>3, <4>1
    <3>4. CASE Anchor!FindSymbol(code, a.symbol) # {}
      <4>1. /\ report(a.symbol).matchedBy = "symbol"
            /\ report(a.symbol).locations =
                 [file \in Anchor!FindSymbol(code, a.symbol) |->
                   Anchor!ListByFileAnchorOrSymbol(store, file, a.symbol)]
        BY <1>1, <1>2, <3>4 DEF Anchor!SymbolReport
      <4> HIDE DEF report
      <4>2. QED
        BY <3>1, <3>2, <4>1
    <3>5. QED
      BY <3>3, <3>4
  <2>4. ~shadowed(a.symbol) => why(<<a.symbol>>) = report(a.symbol)
    <3>1. ASSUME ~shadowed(a.symbol)
          PROVE  Anchor!ListByAnchorPath(store, <<a.symbol>>) = {}
      <4>1. ASSUME NEW e \in Anchor!Present(store), NEW b \in store[e].anchors,
                   IsPrefix(<<a.symbol>>, b.file)
            PROVE  FALSE
        <5>1. b.file \in Seq(Seq(STRING)) /\ b.file # <<>>
          BY <1>2, <4>1 DEF Anchor!Present
        <5>2. SubSeq(<<a.symbol>>, 1, 1) = SubSeq(b.file, 1, 1)
          BY <4>1 DEF IsPrefix
        <5>3. SubSeq(<<a.symbol>>, 1, 1)[1] = a.symbol /\ SubSeq(b.file, 1, 1)[1] = b.file[1]
          BY <5>1
        <5>4. QED
          BY <1>1, <3>1, <4>1, <5>2, <5>3
      <4>2. ASSUME NEW e \in Anchor!Present(store), NEW b \in store[e].anchors
            PROVE  <<b.file, <<a.symbol>>>> \notin PathLike
        BY <1>1, <3>1, <4>2
      <4>3. QED
        BY <4>1, <4>2, LibraryIsLibrary DEF Anchor!ListByAnchorPath
    <3>2. Len(<<a.symbol>>) = 1 /\ <<a.symbol>>[1] = a.symbol
      OBVIOUS
    <3> HIDE DEF shadowed
    <3>3. QED
      BY <1>1, <3>1, <3>2 DEF Anchor!BuildReport
  <2>5. shadowed(a.symbol) => why(<<a.symbol>>).matchedBy = "path"
    <3>1. ASSUME shadowed(a.symbol)
          PROVE  Anchor!ListByAnchorPath(store, <<a.symbol>>) # {}
      <4>0. PICK e \in Anchor!Present(store) : \E b \in store[e].anchors :
              b.file[1] = a.symbol \/ <<b.file, <<a.symbol>>>> \in PathLike
        BY <1>1, <3>1
      <4>1. PICK b \in store[e].anchors :
              b.file[1] = a.symbol \/ <<b.file, <<a.symbol>>>> \in PathLike
        BY <4>0
      <4>2. ASSUME b.file[1] = a.symbol
            PROVE  IsPrefix(<<a.symbol>>, b.file)
        <5>1. b.file \in Seq(Seq(STRING)) /\ Len(b.file) \in Nat /\ Len(b.file) >= 1
          <6>1. b.file \in Seq(Seq(STRING)) /\ b.file # <<>>
            BY <1>2, <4>1 DEF Anchor!Present
          <6>2. Len(b.file) \in Nat /\ Len(b.file) # 0
            BY <6>1, EmptySeq
          <6>3. \A n \in Nat : n # 0 => n >= 1
            OBVIOUS
          <6>4. QED
            BY <6>1, <6>2, <6>3
        <5>2. PICK s : s = a.symbol
          OBVIOUS
        <5>3. SubSeq(b.file, 1, 1) = <<s>>
          <6>1. PICK t \in Seq(Seq(STRING)) : t = b.file /\ Len(t) >= 1
            BY <5>1
          <6>2. SubSeq(t, 1, 1) = <<t[1]>>
            BY <6>1, FirstOf
          <6>3. t[1] = s
            BY <4>2, <5>2, <6>1
          <6>4. <<t[1]>> = <<s>>
            BY <6>3
          <6>5. QED
            BY <6>1, <6>2, <6>4
        <5>4. SubSeq(<<s>>, 1, 1) = <<s>> /\ Len(<<s>>) = 1
          <6>1. PICK S : s \in S
            <7>1. s \in {s}
              OBVIOUS
            <7>2. QED
              BY <7>1
          <6>2. <<s>> \in Seq(S) /\ Len(<<s>>) = 1 /\ <<s>>[1] = s
            BY <6>1
          <6>3. PICK u \in Seq(S) : u = <<s>>
            BY <6>2
          <6>4. Len(u) = 1 /\ Len(u) >= 1 /\ u[1] = s
            BY <6>2, <6>3
          <6>5. SubSeq(u, 1, 1) = <<u[1]>>
            BY <6>4, FirstOf
          <6>6. <<u[1]>> = <<s>>
            BY <6>4
          <6>7. QED
            BY <6>2, <6>3, <6>5, <6>6
        <5>5. IsPrefix(<<s>>, b.file)
          BY <5>1, <5>3, <5>4 DEF IsPrefix
        <5>6. QED
          BY <5>2, <5>5
      <4>3. e \in Anchor!ListByAnchorPath(store, <<a.symbol>>)
        BY <4>1, <4>2, LibraryIsLibrary DEF Anchor!ListByAnchorPath
      <4>4. QED
        BY <4>3
    <3> HIDE DEF shadowed
    <3>2. QED
      BY <1>1, <3>1 DEF Anchor!BuildReport
  <2> HIDE DEF shows, why, report, shadowed
  <2>6. QED
    BY <2>1, <2>3, <2>4, <2>5 DEF orphan
<1>6. ASSUME NEW d \in Anchor!ListActive(store)
      PROVE  /\ Anchor!AnchorWarnings(tree, store[d].anchors) =
                  {o.anchor : o \in {o \in Anchor!OrphanAnchors(store, tree) : o.id = d}}
             /\ Anchor!SymbolWarnings(code, store[d].anchors) =
                  {[anchor |-> o.anchor, hint |-> o.hint] : o \in {o \in orphans : o.id = d}}
  <2>1. \A o : o \in Anchor!OrphanAnchors(store, tree) <=>
          \E e \in Anchor!ListActive(store) : \E a \in store[e].anchors :
            ~Anchor!Exists(tree, a.file) /\ o = [id |-> e, anchor |-> a]
    BY DEF Anchor!OrphanAnchors
  <2>2. Anchor!AnchorWarnings(tree, store[d].anchors) =
          {o.anchor : o \in {o \in Anchor!OrphanAnchors(store, tree) : o.id = d}}
    <3>1. ASSUME NEW a \in store[d].anchors, ~Anchor!Exists(tree, a.file)
          PROVE  \E o \in Anchor!OrphanAnchors(store, tree) : o.id = d /\ o.anchor = a
      <4>1. PICK o : o = [id |-> d, anchor |-> a]
        OBVIOUS
      <4>2. o \in Anchor!OrphanAnchors(store, tree)
        BY <2>1, <3>1, <4>1
      <4>3. QED
        BY <4>1, <4>2
    <3>2. ASSUME NEW o \in Anchor!OrphanAnchors(store, tree), o.id = d
          PROVE  o.anchor \in store[d].anchors /\ ~Anchor!Exists(tree, o.anchor.file)
      BY <2>1, <3>2
    <3>3. QED
      BY <3>1, <3>2 DEF Anchor!AnchorWarnings
  <2> DEFINE told(a) == [anchor |-> a, hint |-> Anchor!SymbolHint(code, a)]
             lost == {a \in store[d].anchors :
                        a.symbol # <<>> /\ ~Anchor!HasSymbol(code, a.file, a.symbol)}
  <2>3. Anchor!SymbolWarnings(code, store[d].anchors) = {told(a) : a \in lost}
    <3> DEFINE anchored == {a \in store[d].anchors : a.symbol # <<>>}
    <3>1. lost = {a \in anchored : ~Anchor!HasSymbol(code, a.file, a.symbol)}
      OBVIOUS
    <3>2. Anchor!SymbolWarnings(code, store[d].anchors) =
            IF anchored = {} THEN {} ELSE {told(a) : a \in lost}
      BY <1>2, <3>1 DEF Anchor!SymbolWarnings
    <3>3. anchored = {} => lost = {}
      BY <3>1
    <3> HIDE DEF lost, anchored, told
    <3>4. QED
      BY <3>2, <3>3
  <2>4. ASSUME NEW a \in lost  PROVE \E o \in orphans : o.id = d /\ [anchor |-> o.anchor, hint |-> o.hint] = told(a)
    <3>1. PICK o : o = [id |-> d, anchor |-> a, hint |-> Anchor!SymbolHint(code, a)]
      OBVIOUS
    <3>2. o \in orphans
      BY <1>4, <1>6, <2>4, <3>1
    <3>3. QED
      BY <3>1, <3>2
  <2>5. ASSUME NEW o \in orphans, o.id = d
        PROVE  o.anchor \in lost /\ [anchor |-> o.anchor, hint |-> o.hint] = told(o.anchor)
    BY <1>4, <2>5
  <2> HIDE DEF lost, told
  <2>6. QED
    BY <2>2, <2>3, <2>4, <2>5
<1>7. ASSUME NEW s \in code.symbols
      PROVE  Anchor!ListByFileAnchorOrSymbol(store, s.file, s.name)
               \subseteq Anchor!ListByAnchorPath(store, s.file)
  <2>1. ASSUME NEW a, a.file = s.file  PROVE IsPrefix(s.file, a.file)
    BY <2>1 DEF IsPrefix
  <2>2. QED
    BY <2>1, LibraryIsLibrary DEF Anchor!ListByFileAnchorOrSymbol, Anchor!ListByAnchorPath
<1>8. ASSUME NEW o \in orphans
      PROVE  LET ofFile(n) == Anchor!HasSymbol(code, o.anchor.file, n) IN
             /\ (\E s \in code.symbols : Last(s.name) = Last(o.anchor.symbol)) => o.hint # {}
             /\ \A n, m \in o.hint : ofFile(n) => ofFile(m)
  <2>1. PICK a : o.anchor = a /\ o.hint = Anchor!SymbolHint(code, a)
    BY <1>4
  <2>2. LET hint == Anchor!SymbolHint(code, a)
            ofFile(n) == Anchor!HasSymbol(code, a.file, n) IN
        /\ (\E s \in code.symbols : Last(s.name) = Last(a.symbol)) => hint # {}
        /\ \A n, m \in hint : ofFile(n) => ofFile(m)
    BY <1>2, HintsAreOfOneKind
  <2>3. QED
    BY <2>1, <2>2
<1> HIDE DEF shows, why, report, shadowed
<1>9. QED
  BY <1>1, <1>5, <1>6, <1>7, <1>8, ZenonT(60)
     DEF AnchorsAreTold, orphans, shows, why, report, shadowed

-------------------------------------------------------------------------------
\* What is drawn stays.
LEMMA DrawnStays == Spec => []Drawn
<1>1. Init => Drawn
  BY DEF Init, Drawn, Kinds
<1>2. Drawn /\ [Next]_input => Drawn'
  BY DEF Drawn, Next
<1>3. QED
  BY <1>1, <1>2, PTL DEF Spec

\* A conflict binds both decisions, whichever declares it.
LEMMA ConflictsBindBoth ==
  ASSUME NEW g  PROVE ConflictBindsBoth(g)
<1> DEFINE partners == Impact!ConflictPartners(g.store, g.conflictsWith, DOMAIN g.store)
<1>1. ASSUME NEW d \in Impact!Visible(g.store), NEW e \in Impact!Visible(g.store)
      PROVE  e \in partners[d] <=> <<d, e>> \in g.conflictsWith \/ <<e, d>> \in g.conflictsWith
  BY DEF Impact!ConflictPartners, Impact!Visible
<1> HIDE DEF partners
<1>2. QED
  BY <1>1 DEF ConflictBindsBoth, partners

\* For all graphs of imports, links and conflicts, whatever their cycles, and all
\* anchors and indexes of code: get_impact and the conflicts shown with an answer
\* are exact, and doctor and save_decision say of anchors what why makes of them.
THEOREM CodeAlwaysTellsItsDecisions ==
  ASSUME NoneIsNoValue,
         \A g \in ImportGraphs : IsImportGraph(g),
         \A g \in LinkGraphs : IsLinkGraph(g),
         \A q \in AnchoredCode : IsAnchoredCode(q)
  PROVE  Spec => []CodeTellsItsDecisions
<1>1. Drawn => CodeTellsItsDecisions
  BY CodeIsNearest, LinksAreNearest, ConflictsBindBoth, AnchorsTold
     DEF Drawn, CodeTellsItsDecisions, Is
<1>2. QED
  BY <1>1, DrawnStays, PTL

\* Whatever is saved is read by every other checkout, whatever line ends git
\* gives it, as it was written up to the blank around its body, a carriage return
\* where a line ends in some, and the anchors a "#" makes ambiguous: for every
\* decision file and every draft an author may send.
\* (Len(File!Blank) = 0 is true of the empty string, which to the provers is only
\* one of the strings.)
THEOREM FilesAlwaysComeBack ==
  ASSUME NoneIsNoValue, Len(File!Blank) = 0,
         Files \subseteq FileRecord, Drafts \subseteq DraftRecord
  PROVE  Spec => []FilesComeBack
<1>1. Drawn => FilesComeBack
  <2>1. ASSUME NEW draft \in DraftRecord  PROVE DraftComesBack(draft)
    BY DraftSaved, FileBack DEF DraftComesBack
  <2>2. QED
    BY <2>1, FileBack DEF Drawn, FilesComeBack, Is
<1>2. QED
  BY <1>1, DrawnStays, PTL

\* A file the index learns of is a better target itself or changes nothing, for
\* all imports, aliases and sets of files: no import loses its target, goes to a
\* file that was there before and was not its target, or is called exact without
\* naming its file.
THEOREM ImportsAlwaysStayResolved ==
  ASSUME \A s \in Specifiers : IsSpecifier(s)
  PROVE  Spec => []ImportsStayResolved
<1>1. Drawn => ImportsStayResolved
  <2> SUFFICES ASSUME NEW s \in Specifiers, input.of = s, Is("specifier")
               PROVE  ImportsStayResolved
    BY DEF Drawn, ImportsStayResolved, Is
  <2> DEFINE resolved(files) == Import!Resolve(files, s.aliases, s.from, s.specifier)
             base == Import!Normalize(Import!Parent(s.from) \o s.specifier.path)
  <2>1. IsSpecifier(s)
    OBVIOUS
  <2>2. SUFFICES ASSUME NEW f, f # None
                 PROVE  /\ resolved(s.files).to # None => resolved(s.files).to \in s.files
                        /\ resolved(s.files).provenance = "exact" <=>
                             s.specifier.relative /\ base \in s.files
                        /\ resolved(s.files).provenance = "exact" => resolved(s.files).to = base
                        /\ resolved(s.files).to # None =>
                             Import!HasResolvableIntent(s.aliases, s.specifier)
                        /\ resolved(s.files \union {f}).to \in {resolved(s.files).to, f}
    <3>1. \E f : f # None
      <4>1. {None} # None \/ {} # None
        OBVIOUS
      <4>2. QED
        BY <4>1
    <3>2. \A f \in s.more : f # None
      BY <2>1 DEF IsSpecifier
    <3> HIDE DEF resolved, base
    <3>3. QED
      BY <2>2, <3>1, <3>2 DEF ImportsStayResolved, resolved, base
  <2>3. None \notin s.files \union {f}
    BY <2>1, <2>2 DEF IsSpecifier
  <2>4. CASE s.specifier.relative
    <3>1. ASSUME NEW files
          PROVE  resolved(files) = Import!ResolveRelative(files, s.from, s.specifier.path)
      BY <2>4 DEF Import!Resolve
    <3>2. Import!HasResolvableIntent(s.aliases, s.specifier)
      BY <2>4 DEF Import!HasResolvableIntent
    <3>3. \A file \in s.files : ~Import!Escapes(file)
      BY <2>1 DEF IsSpecifier
    <3> HIDE DEF resolved
    <3>4. PICK was, is :
            /\ was = Import!ResolveRelative(s.files, s.from, s.specifier.path)
            /\ is = Import!ResolveRelative(s.files \union {f}, s.from, s.specifier.path)
      OBVIOUS
    <3>5. /\ was.to # None => was.to \in s.files
          /\ was.provenance = "exact" <=> base \in s.files
          /\ was.provenance = "exact" => was.to = base
          /\ is.to \in {was.to, f}
      <4>1. PICK files, from, path :
              files = s.files /\ from = s.from /\ path = s.specifier.path
        OBVIOUS
      <4>2. None \notin files \union {f} /\ \A file \in files : ~Import!Escapes(file)
        BY <2>3, <3>3, <4>1
      <4>3. /\ was = Import!ResolveRelative(files, from, path)
            /\ is = Import!ResolveRelative(files \union {f}, from, path)
            /\ base = Import!Normalize(Import!Parent(from) \o path)
        BY <3>4, <4>1
      <4> HIDE DEF base
      <4>4. /\ was.to # None => was.to \in files
            /\ was.provenance = "exact" <=> base \in files
            /\ was.provenance = "exact" => was.to = base
            /\ is.to \in {was.to, f}
        BY <4>2, <4>3, RelativeStays
      <4>5. QED
        BY <4>1, <4>4
    <3> HIDE DEF base
    <3>6. QED
      <4>1. resolved(s.files) = was /\ resolved(s.files \union {f}) = is
        BY <3>1, <3>4
      <4>2. QED
        BY <2>4, <3>2, <3>5, <4>1, Zenon
  <2>5. CASE ~s.specifier.relative
    <3>1. ASSUME NEW files
          PROVE  resolved(files) = Import!ResolveAliased(files, s.aliases, s.specifier.path)
      BY <2>5 DEF Import!Resolve
    <3>2. Import!HasResolvableIntent(s.aliases, s.specifier) <=>
            Import!Expand(s.aliases, s.specifier.path) # <<>>
      BY <2>5 DEF Import!HasResolvableIntent
    <3>3. DOMAIN Import!Expand(s.aliases, s.specifier.path) \subseteq Nat
      BY <2>1 DEF IsSpecifier
    <3> HIDE DEF resolved
    <3>4. PICK was, is :
            /\ was = Import!ResolveAliased(s.files, s.aliases, s.specifier.path)
            /\ is = Import!ResolveAliased(s.files \union {f}, s.aliases, s.specifier.path)
      OBVIOUS
    <3>5. /\ was.to # None =>
               was.to \in s.files /\ Import!Expand(s.aliases, s.specifier.path) # <<>>
          /\ was.provenance = "heuristic"
          /\ is.to \in {was.to, f}
      <4>1. PICK files, aliases, path :
              files = s.files /\ aliases = s.aliases /\ path = s.specifier.path
        OBVIOUS
      <4>2. /\ None \notin files \union {f}
            /\ DOMAIN Import!Expand(aliases, path) \subseteq Nat
        BY <2>3, <3>3, <4>1
      <4>3. /\ was = Import!ResolveAliased(files, aliases, path)
            /\ is = Import!ResolveAliased(files \union {f}, aliases, path)
        BY <3>4, <4>1
      <4>4. /\ was.to # None => was.to \in files /\ Import!Expand(aliases, path) # <<>>
            /\ was.provenance = "heuristic"
            /\ is.to \in {was.to, f}
        <5> DEFINE to(fs) == Import!ResolveAliased(fs, aliases, path).to
        <5>1. /\ to(files) # None => to(files) \in files /\ Import!Expand(aliases, path) # <<>>
              /\ Import!ResolveAliased(files, aliases, path).provenance = "heuristic"
              /\ to(files \union {f}) \in {to(files), f}
          BY <4>2, AliasedStays, Zenon
        <5>2. QED
          BY <4>3, <5>1
      <4>5. QED
        BY <4>1, <4>4
    <3>6. was.provenance # "exact"
      BY <3>5
    <3> HIDE DEF base
    <3>7. QED
      <4>1. resolved(s.files) = was /\ resolved(s.files \union {f}) = is
        BY <3>1, <3>4
      <4>2. QED
        BY <2>5, <3>2, <3>5, <3>6, <4>1, Zenon
  <2>6. QED
    BY <2>4, <2>5
<1>2. QED
  BY <1>1, DrawnStays, PTL

===============================================================================
