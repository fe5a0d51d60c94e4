----------------------------- MODULE Catalogue -----------------------------
(***************************************************************************)
(* A company's products: made and edited one by one, and imported from a   *)
(* file (routes/pos.ts, products.ts, import.ts).  That a barcode is free   *)
(* is asked before the product is written, and an import decides before    *)
(* its transaction which row is which product: by barcode, then by name.   *)
(* Nothing in the database keeps barcodes or names apart.                  *)
(***************************************************************************)
EXTENDS Collections, SequencesExt

CONSTANTS
    Names, Barcodes,   \* 0 is no barcode
    Editors,           \* who makes and edits products one by one
    Importers,         \* who imports files
    SkuLimit,          \* the tariff's limit of products
    MaxRows            \* bound: rows of a file

\* A request is one or the other.
ASSUME CatalogueAssumption ==
    0 \notin Barcodes /\ SkuLimit \in Nat /\ Editors \cap Importers = {}

VARIABLES
    products,    \* product -> its name and barcode
    editing,     \* editor -> the request that was found in order
    importing,   \* importer -> what each row is to become
    imported,    \* the file the catalogue was last written from, untouched since
    sameCode     \* whether two requests with one barcode overlapped

catalogueVars == <<products, editing, importing, imported, sameCode>>

Ids == DOMAIN products
NoEdit == [id |-> 0, name |-> "", barcode |-> 0]
NoFile == <<>>
Rows == [name : Names, barcode : {0} \cup Barcodes]

CatalogueInit ==
    /\ products = <<>> /\ imported = <<>> /\ sameCode = FALSE
    /\ editing = [e \in Editors |-> NoEdit] /\ importing = [m \in Importers |-> NoFile]

-----------------------------------------------------------------------------
TakenBy(barcode, except) == {i \in Ids \ {except} : products[i].barcode = barcode}
BarcodeFree(barcode, except) == barcode = 0 \/ TakenBy(barcode, except) = {}

\* The barcodes that somebody is about to write.
Underway(who) ==
    {editing[e].barcode : e \in Editors \ {who}}
    \cup UNION {{step.row.barcode : step \in ToSet(importing[m])} : m \in Importers \ {who}}
Meets(who, barcodes) == sameCode' = (sameCode \/ (barcodes \cap Underway(who)) \ {0} # {})

\* The limit counts before anything is written; a product that is edited is there.
EditReads(e, id, name, barcode) ==
    /\ editing[e] = NoEdit /\ BarcodeFree(barcode, id)
    /\ id = 0 => Len(products) < SkuLimit
    /\ editing' = [editing EXCEPT ![e] = [id |-> id, name |-> name, barcode |-> barcode]]
    /\ Meets(e, {barcode})
    /\ UNCHANGED <<products, importing, imported>>

\* A new product gets the next number, whichever was next when it was asked.
EditCommits(e) ==
    LET edit == editing[e]
        written == [name |-> edit.name, barcode |-> edit.barcode] IN
    /\ edit # NoEdit /\ editing' = [editing EXCEPT ![e] = NoEdit]
    /\ products' = IF edit.id \in Ids THEN [products EXCEPT ![edit.id] = written]
                   ELSE Append(products, written)
    /\ imported' = <<>>
    /\ UNCHANGED <<importing, sameCode>>

-----------------------------------------------------------------------------
(* Importing. *)

\* The rows that are not skipped: a barcode once, a name without a barcode once.
FirstOfCode(rows, i) ==
    rows[i].barcode # 0 => \A j \in 1..(i - 1) : rows[j].barcode # rows[i].barcode
IsKept(rows, i) ==
    /\ FirstOfCode(rows, i)
    /\ rows[i].barcode = 0 =>
           \A j \in 1..(i - 1) : FirstOfCode(rows, j) => rows[j].name # rows[i].name

Named(name) == {i \in Ids : products[i].name = name}
Coded(barcode) == TakenBy(barcode, 0)

\* Of several products with one name or barcode a map keeps the last; which that is
\* the query leaves open.
OneOf(ids) == IF ids = {} THEN {0} ELSE ids
ByName == {byName \in [Names -> {0} \cup Ids] : \A name \in Names : byName[name] \in OneOf(Named(name))}
ByBarcode ==
    {byBarcode \in [Barcodes -> {0} \cup Ids] :
        \A barcode \in Barcodes : byBarcode[barcode] \in OneOf(Coded(barcode))}
Maps == [byName : ByName, byBarcode : ByBarcode]

HasCode(maps, row) == row.barcode # 0 /\ maps.byBarcode[row.barcode] # 0
MatchNameFirst(maps, row) ==
    IF HasCode(maps, row) /\ maps.byName[row.name] = 0 THEN maps.byBarcode[row.barcode]
    ELSE maps.byName[row.name]
Match(maps, row) ==
    IF HasCode(maps, row) THEN maps.byBarcode[row.barcode] ELSE maps.byName[row.name]

BuildImportPlan(maps, rows) ==
    LET kept == Kept([i \in DOMAIN rows |-> i], {i \in DOMAIN rows : IsKept(rows, i)}) IN
    [i \in DOMAIN kept |-> [row |-> rows[kept[i]], id |-> Match(maps, rows[kept[i]])]]

\* A product that is new comes with its goods, which are counted into the stock.
ImportRow(catalogue, step) ==
    IF step.id = 0 THEN Append(catalogue, step.row) ELSE [catalogue EXCEPT ![step.id] = step.row]
Applied(plan) ==
    LET upTo[n \in 0..Len(plan)] ==
            IF n = 0 THEN products ELSE ImportRow(upTo[n - 1], plan[n])
    IN upTo[Len(plan)]

Files == UNION {[1..n -> Rows] : n \in 1..MaxRows}

ImportReads(m) ==
    /\ importing[m] = NoFile
    /\ \E maps \in Maps : \E rows \in Files :
          LET plan == BuildImportPlan(maps, rows) IN
          /\ Len(products) + Cardinality({i \in DOMAIN plan : plan[i].id = 0}) <= SkuLimit
          /\ importing' = [importing EXCEPT ![m] = plan]
          /\ Meets(m, {row.barcode : row \in ToSet(rows)})
    /\ UNCHANGED <<products, editing, imported>>

\* Two rows that are one product: the second writes over the first.
Collides(plan) == \E i, j \in DOMAIN plan : i # j /\ plan[i].id = plan[j].id /\ plan[i].id # 0

ImportCommits(m) ==
    LET plan == importing[m] IN
    /\ plan # NoFile /\ importing' = [importing EXCEPT ![m] = NoFile]
    /\ products' = Applied(plan)
    /\ imported' = IF Collides(plan) THEN <<>> ELSE [i \in DOMAIN plan |-> plan[i].row]
    /\ UNCHANGED <<editing, sameCode>>

CatalogueNext ==
    \/ \E e \in Editors :
          \/ EditCommits(e)
          \/ \E id \in {0} \cup Ids, name \in Names, barcode \in {0} \cup Barcodes :
                EditReads(e, id, name, barcode)
    \/ \E m \in Importers : ImportReads(m) \/ ImportCommits(m)

CatalogueSpec == CatalogueInit /\ [][CatalogueNext]_catalogueVars

-----------------------------------------------------------------------------
CatalogueTypeOK ==
    /\ \A i \in Ids : products[i].name \in Names /\ products[i].barcode \in {0} \cup Barcodes
    /\ \A m \in Importers : \A step \in ToSet(importing[m]) : step.id \in {0} \cup Ids

(***************************************************************************)
(* No barcode is on two products, whatever a file does to names and codes  *)
(* at once (products.ts: the scanner takes whichever comes first), unless  *)
(* two requests with the same code overlapped.                             *)
(***************************************************************************)
BarcodesAreApart ==
    \/ sameCode
    \/ \A i, j \in Ids : i # j /\ products[i].barcode # 0
                            => products[i].barcode # products[j].barcode

(***************************************************************************)
(* A file that is imported a second time finds every product it made: it   *)
(* makes none and brings no goods in again, in whatever order the products *)
(* are read.  Files two rows of which are one product are left aside: the  *)
(* second row takes the code the first would be found by.                  *)
(***************************************************************************)
ImportTwiceIsOnce ==
    imported # <<>> =>
        \A maps \in Maps :
            \A step \in ToSet(BuildImportPlan(maps, imported)) : step.id # 0

\* "Whichever lands second silently wins" is what the skipped rows are to prevent
\* (import.ts, buildImportPlan).
\* (The code does not keep this: README.)
NoRowIsLost == \A m \in Importers : ~Collides(importing[m])
=============================================================================
