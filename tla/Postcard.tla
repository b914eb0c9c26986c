------------------------------ MODULE Postcard ------------------------------
(***************************************************************************)
(* Postcards of the base utilities (utils/base_util/postcard.h,            *)
(* src/postcard.cpp, src/memorystream.cpp): fields with a type, a name and *)
(* a value that are written one after the other, behind a length and       *)
(* before a zero, and are found again by a walk from the first.            *)
(*                                                                         *)
(* A field is one element of the stream here, not its bytes; what cannot   *)
(* be passed by the walk is kept: a value of no bytes, a card without its  *)
(* length, and a stream that ends without the zero.  Of the types, "int"   *)
(* stands for all of a fixed size, "blob" for strings, too, and "array"    *)
(* for all arrays.                                                         *)
(***************************************************************************)
EXTENDS Naturals, Sequences, FiniteSets

CONSTANTS
  PcCard,     \* the cards being written
  PcName,     \* names of fields
  MaxPcAdds   \* bound: calls that add to a card

ASSUME PcAssumption == MaxPcAdds \in Nat

VARIABLES
  pcCard,     \* m_state of each card, and the fields in its m_pOut
  pcAdded,    \* the fields that were added to it, says what the calls returned
  pcTorn      \* how many of them come before one that failed half way

pcVars == <<pcCard, pcAdded, pcTorn>>

-----------------------------------------------------------------------------
(* Types *)

PcType == {"int", "blob", "array", "card"}
PcSizes == [int |-> {1}, blob |-> {0, 1}, array |-> {0, 1}, card |-> {1}]
PcNew == [state |-> "new", stream |-> <<>>]

(* pcAdded has the card it was given, the stream has its encoded buffer *)
PcField(type, name, size, call) ==
  [type |-> type, name |-> name, size |-> size, call |-> call]

PcTypeOK ==
  /\ \A c \in PcCard :
       /\ pcCard[c].state \in {"new", "add", "final"}
       /\ \A i \in 1..Len(pcCard[c].stream) : LET field == pcCard[c].stream[i].field IN
            field.type \in PcType /\ field.name \in PcName /\ field.size \in PcSizes[field.type]
       /\ Len(pcAdded[c]) <= Len(pcCard[c].stream)
  /\ pcTorn \in [PcCard -> 0..MaxPcAdds]

PcCalls(c) == Len(pcCard[c].stream)

-----------------------------------------------------------------------------
(* Writing.  A call in another state is refused and changes nothing. *)

(* OutPostcard::init *)
PcInitCard(c) ==
  /\ pcCard[c].state = "new"
  /\ pcCard' = [pcCard EXCEPT ![c].state = "add"]
  /\ UNCHANGED <<pcAdded, pcTorn>>

(* add, addBlobWithType and addArray: the value is appended behind the     *)
(* name, and appending no bytes fails, after type, name and length         *)
PcAppend(c, field, inner, of) ==
  /\ pcCard[c].state = "add" /\ PcCalls(c) < MaxPcAdds
  /\ pcCard' = [pcCard EXCEPT ![c].stream = Append(@, [field |-> field, inner |-> inner])]
  /\ IF field.size = 0
     THEN /\ UNCHANGED pcAdded
          /\ pcTorn' = [pcTorn EXCEPT ![c] = IF @ < MaxPcAdds THEN @ ELSE Len(pcAdded[c])]
     ELSE /\ pcAdded' = [pcAdded EXCEPT ![c] = Append(@, [field |-> field, of |-> of])]
          /\ UNCHANGED pcTorn

(* addInt32, ..., addBlob, addString, addArrayBool, ...: of them, addArray *)
(* looks at the number of elements first                                   *)
PcAdd(c, type, name, size) ==
  /\ type # "card" /\ size \in PcSizes[type]
  /\ type = "array" => size > 0
  /\ PcAppend(c, PcField(type, name, size, PcCalls(c) + 1), PcNew, c)

(* Mutant: a card may be put into another before it is complete *)
MutantPcMayEmbed(d) == pcCard[d].state # "new"

PcMayEmbed(d) == pcCard[d].state = "final"

(* addCard: the encoded buffer, with its own length *)
PcAddCard(c, name, d) ==
  /\ d # c /\ PcMayEmbed(d)
  /\ PcAppend(c, PcField("card", name, 1, PcCalls(c) + 1), pcCard[d], d)

(* finalize writes the length and the zero *)
PcFinalize(c) ==
  /\ pcCard[c].state = "add"
  /\ pcCard' = [pcCard EXCEPT ![c].state = "final"]
  /\ UNCHANGED <<pcAdded, pcTorn>>

-----------------------------------------------------------------------------
(* Reading, which changes no state *)

(* Mutant: only the name is compared *)
MutantPcMatches(field, type, name) == field.name = name

PcMatches(field, type, name) == field.type = type /\ field.name = name

(* skipValueByType, which passes nothing without bytes, and a card by its length *)
PcPasses(node) ==
  node.field.size > 0 /\ (node.field.type = "card" => node.inner.state = "final")

PcAbsent == [end |-> "absent", at |-> 0]
PcBroken == [end |-> "broken", at |-> 0]

(* findField: the walk ends at the field that is looked for, the one with *)
(* as many matches before it as the index says, or where it cannot pass    *)
PcFind(card, type, name, index) ==
  LET matches == {i \in 1..Len(card.stream) : PcMatches(card.stream[i].field, type, name)}
      wanted == {i \in matches : Cardinality({j \in matches : j < i}) = index}
      ends == wanted \cup {i \in 1..Len(card.stream) : ~PcPasses(card.stream[i])}
      last == CHOOSE i \in ends : \A j \in ends : i <= j
  IN IF ends = {} THEN IF card.state = "final" THEN PcAbsent ELSE PcBroken
     ELSE IF last \in wanted THEN [end |-> "found", at |-> last] ELSE PcBroken

(* getSimple, getBlobByType, getCard: of a field that is found, the value  *)
(* is extracted, which fails if it has no bytes or is longer than the rest *)
(* of the stream.  getArray then looks whether the elements fit, too.      *)
PcGet(card, type, name, index) ==
  LET found == PcFind(card, type, name, index) IN
  IF found.end = "found" /\ ~PcPasses(card.stream[found.at]) THEN PcBroken ELSE found

-----------------------------------------------------------------------------
PcInit ==
  /\ pcCard = [c \in PcCard |-> PcNew] /\ pcAdded = [c \in PcCard |-> <<>>]
  /\ pcTorn = [c \in PcCard |-> MaxPcAdds]

PcNext ==
  \/ \E c \in PcCard : PcInitCard(c)
  \/ \E c \in PcCard, type \in PcType, name \in PcName, size \in {0, 1} : PcAdd(c, type, name, size)
  \/ \E c \in PcCard, name \in PcName, d \in PcCard : PcAddCard(c, name, d)
  \/ \E c \in PcCard : PcFinalize(c)

PcSpec == PcInit /\ [][PcNext]_pcVars

-----------------------------------------------------------------------------
(* Properties *)

(* What was added under a type and a name, all places in order *)
PcHits(c, type, name) ==
  {i \in 1..Len(pcAdded[c]) : pcAdded[c][i].field.type = type /\ pcAdded[c][i].field.name = name}

(* The one with as many others before it as the index says *)
PcWanted(c, type, name, index) ==
  {i \in PcHits(c, type, name) :
     Cardinality({j \in PcHits(c, type, name) : j < i}) = index}

(* Whoever reads a card gets what was added under that type and name, the  *)
(* first or, of cards, the one of that index, a card as it was completed;  *)
(* if nothing was, it is told so.  Behind an add that failed half way      *)
(* everything is lost, though its adds succeeded, and so is the end of a   *)
(* card that is not complete (postcard.cpp:367-465, 834-1213).             *)
CardsAreReadAsWritten ==
  \A c \in PcCard, type \in PcType, name \in PcName, index \in 0..1 :
    index = 0 \/ type = "card" =>
      LET got == PcGet(pcCard[c], type, name, index)
          wanted == PcWanted(c, type, name, index) IN
      IF \E i \in wanted : i <= pcTorn[c]
      THEN \A i \in wanted : LET added == pcAdded[c][i] IN
             /\ got.end = "found"
             /\ pcCard[c].stream[got.at].field = added.field
             /\ type = "card" => /\ pcCard[c].stream[got.at].inner = pcCard[added.of]
                                 /\ pcCard[added.of].state = "final"
      ELSE /\ got.end # "found"
           /\ pcTorn[c] = MaxPcAdds => (got.end = "absent" <=> pcCard[c].state = "final")

=============================================================================
