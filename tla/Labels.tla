-------------------------------- MODULE Labels --------------------------------
(***************************************************************************)
(* Names for the values of dimensions                                      *)
(* (reporting-app/src/hooks/use-dimension-labels/).  The gateway answers   *)
(* with keys; the app fetches the entities they stand for from             *)
(* commercetools, kind by kind, and shows their names.  The links to their *)
(* pages are left out.                                                     *)
(*                                                                         *)
(* A name is the one of the active locale, else of its language, else the  *)
(* first.  A product is shown by its name and SKU, so the SKU stands for   *)
(* both here.                                                              *)
(***************************************************************************)
EXTENDS OrderCubes

CONSTANT Entities  \* records [source, id, key, skus, names], Null for no key;
                   \* names is a sequence of [locale, language, value]
CONSTANTS Locale, Language  \* what the user reads

CT_VALUE_SOURCES == {"ct-products", "ct-categories", "ct-stores",
                     "ct-channels", "ct-customer-groups"}

(* Which dimensions have names is read off the filters of the report.      *)
CtValueSourcesFromReport(report) ==
  Restrict(report.allowed, {d \in DOMAIN report.allowed :
                              report.allowed[d] \in CT_VALUE_SOURCES})

PickLocalized(names) ==
  LET exact == SelectSeq(names, LAMBDA n : n.locale = Locale)
      byLanguage == SelectSeq(names, LAMBDA n : n.language = Language)
      picked == exact \o byLanguage \o names
  IN  IF picked = <<>> THEN Null ELSE picked[1].value

(* What an entity is found by: its key and its id, products by any SKU.    *)
FoundBy(entity) ==
  IF entity.source = "ct-products" THEN entity.skus
  ELSE {entity.key, entity.id} \ {Null}
Matching(source, loaded, raw) ==
  {e \in Entities : e.source = source /\ source \in loaded /\ raw \in FoundBy(e)}

(* loaded: the kinds of entities that have been fetched.                   *)
NameOf(source, loaded, raw) ==
  LET named == {e \in Matching(source, loaded, raw) :
                  PickLocalized(e.names) # Null}
  IN  IF named = {} THEN raw
      ELSE PickLocalized((CHOOSE e \in named : TRUE).names)

ResolveDimensionValue(sources, loaded, dimension, raw) ==
  IF raw = Null \/ dimension \notin DOMAIN sources THEN raw
  ELSE IF raw = NONE
    THEN IF sources[dimension] = "ct-categories" THEN "Uncategorised" ELSE "None"
  ELSE IF raw = OTHER_BUCKET THEN "Other"
  ELSE IF sources[dimension] = "ct-products" THEN raw
  ELSE NameOf(sources[dimension], loaded, raw)

ResolveRow(sources, loaded, row) ==
  [row EXCEPT !.k = [d \in DOMAIN @ |->
                       ResolveDimensionValue(sources, loaded, d, @[d])]]
=============================================================================
