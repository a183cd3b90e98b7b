---------------------------------- MODULE Enums ----------------------------------
(***************************************************************************)
(* src/Common/src/lang: Enum.js and Codeable.js on BaseEnum.js.  A class   *)
(* of constants is built by add() and closed by finish().  add() writes    *)
(* the map before it defines the property of the class, which throws if    *)
(* the class is frozen, the name is taken or the constant has another name *)
(* already: the map then knows a constant the class has not.               *)
(***************************************************************************)
EXTENDS Integers, Sequences, FiniteSets

CONSTANTS
  Names, Codes,
  Constants,   \* the objects added
  Nothing,
  MaxAdds      \* bound: the calls of add()

VARIABLES
  nameToEnum,  \* _NAME_TO_ENUM: pairs <<name, constant>> in the order of the Map
  codeToEnum,  \* _CODE_TO_ENUM: of each code, its constant or Nothing
  class,       \* the properties of the class: of each name, its constant or Nothing
  own,         \* of each constant, its name, ordinal and code, or Nothing
  frozen,
  threw,       \* the names whose add() threw
  adds

enumVars == <<nameToEnum, codeToEnum, class, own, frozen, threw, adds>>

NoFields == [name |-> Nothing, ordinal |-> Nothing, code |-> Nothing]

Init ==
  /\ nameToEnum = <<>> /\ codeToEnum = [c \in Codes |-> Nothing]
  /\ class = [n \in Names |-> Nothing] /\ own = [c \in Constants |-> NoFields]
  /\ frozen = FALSE /\ threw = {} /\ adds = 0

FromName(name) ==
  LET found == {i \in DOMAIN nameToEnum : nameToEnum[i][1] = name}
  IN IF found = {} THEN Nothing ELSE nameToEnum[CHOOSE i \in found : TRUE][2]
HasName(name) == FromName(name) # Nothing
FromOrdinal(index) == IF index < Len(nameToEnum) THEN nameToEnum[index + 1][2] ELSE Nothing
Enums == {nameToEnum[i][2] : i \in DOMAIN nameToEnum}
FromCode(code) == codeToEnum[code]
HasCode(code) == FromCode(code) # Nothing

\* Map.set() keeps the place of a key it has.
MapSet(name, constant) ==
  IF HasName(name)
  THEN [i \in DOMAIN nameToEnum |-> IF nameToEnum[i][1] = name THEN <<name, constant>>
                                    ELSE nameToEnum[i]]
  ELSE Append(nameToEnum, <<name, constant>>)

\* A property that is not writable can be defined again only as it is.
Definable(old, new) == old = Nothing \/ old = new

Add(name, code, constant) ==
  LET map == MapSet(name, constant)
      ordinal == Len(map) - 1
      noMaps == frozen /\ nameToEnum = <<>>    \* a frozen class cannot be given its maps
      inClass == (~frozen \/ class[name] = constant) /\ Definable(class[name], constant)
      named == /\ inClass
               /\ Definable(own[constant].name, name)
               /\ Definable(own[constant].ordinal, ordinal)
      coded == named /\ Definable(own[constant].code, code)
  IN /\ adds < MaxAdds
     /\ adds' = adds + 1
     /\ nameToEnum' = IF noMaps THEN nameToEnum ELSE map
     /\ class' = IF inClass THEN [class EXCEPT ![name] = constant] ELSE class
     /\ codeToEnum' = IF named THEN [codeToEnum EXCEPT ![code] = constant] ELSE codeToEnum
     /\ own' = IF coded
               THEN [own EXCEPT ![constant] = [name |-> name, ordinal |-> ordinal, code |-> code]]
               ELSE own
     /\ threw' = IF coded THEN threw ELSE threw \cup {name}
     /\ UNCHANGED frozen

Finish == ~frozen /\ frozen' = TRUE /\ UNCHANGED <<nameToEnum, codeToEnum, class, own, threw, adds>>

Next == Finish \/ \E name \in Names, code \in Codes, constant \in Constants : Add(name, code, constant)

Spec == Init /\ [][Next]_enumVars

--------------------------------------------------------------------------------
(* Properties                                                              *)

\* As long as no add() has thrown, the class, the map and the constants agree on names,
\* ordinals and codes, and the last constant of a code is found by it; a name whose
\* add() never threw is sound whatever happened to others.
EnumsAgree ==
  /\ \A name \in Names \ threw :
       /\ class[name] = FromName(name)
       /\ HasName(name) => own[class[name]].name = name
  /\ threw = {} =>
       /\ \A name \in Names :
            HasName(name) => FromOrdinal(own[FromName(name)].ordinal) = FromName(name)
       /\ \A code \in Codes : HasCode(code) => own[FromCode(code)].code = code
       /\ \A constant \in Enums : HasCode(own[constant].code)
       /\ Len(nameToEnum) = Cardinality(Enums)
  /\ \A name \in Names : class[name] # Nothing => HasName(name)
================================================================================
