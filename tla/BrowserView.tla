----------------------------- MODULE BrowserView -----------------------------
(***************************************************************************)
(* What a browser can make of the description and the data it is shown.    *)
(***************************************************************************)
EXTENDS Codec

Description == {Describe[p] : p \in Part}

\* The names on the way to each leaf of a description.
Paths[d \in Description] ==
  IF d.type = "record"
  THEN FlattenSeq([i \in DOMAIN d.fields |->
                     [k \in DOMAIN Paths[d.fields[i]] |-> <<d.name>> \o Paths[d.fields[i]][k]]])
  ELSE << <<d.name>> >>

\* What a name leads to: of two members with one name a parser keeps the last.
LastNamed(object, name) ==
  {i \in DOMAIN object : /\ object[i].key = name
                         /\ \A j \in DOMAIN object : object[j].key = name => j <= i}
Under(objects, name) == UNION {{o[i].item : i \in LastNamed(o, name)} : o \in objects}

\* What the names of a path lead to, one below the other: nothing if one is missing.
Found(objects, path) ==
  LET below[k \in 0..Len(path)] == IF k = 0 THEN objects ELSE Under(below[k - 1], path[k])
  IN below[Len(path)]

DistinctNames[p \in Part] ==
  p.type = "Record" =>
    /\ \A i, j \in DOMAIN p.fields : p.fields[i].name = p.fields[j].name => i = j
    /\ \A i \in DOMAIN p.fields : DistinctNames[p.fields[i]]

\* If the fields of a record have different names, following the advertised
\* description through the data message leads to each value of the brain: every
\* number that is not negative as that number, everything else unchanged.
FoundByName ==
  pc = "shown" /\ DistinctNames[schema] =>
    LET paths == Paths[shown.schema] IN
      /\ Len(paths) = Len(values)
      /\ \A i \in DOMAIN paths :
           LET leaf  == Leaves[schema][i]
               found == Found({shown.data}, paths[i])
           IN IF ~Integral(leaf) THEN found = {values[i]}
              ELSE LET n == NumberOf(leaf.type, values[i]) IN n >= 0 => found = {n}

\* types.hpp: the visits of the signed integers are "Implemented to call
\* Visitor::VisitAnyInt", so a negative number is shown as it is.
IntegerIsShown ==
  pc = "shown" /\ DistinctNames[schema] =>
    \A i \in DOMAIN values :
      Integral(Leaves[schema][i]) =>
        Found({shown.data}, Paths[shown.schema][i])
          = {NumberOf(Leaves[schema][i].type, values[i])}
=============================================================================
