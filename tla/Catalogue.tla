------------------------------ MODULE Catalogue ------------------------------
(***************************************************************************)
(* One product of the catalogue (modules/commerce/products) and the three  *)
(* values its row copies from other rows: currentCostCents and marginBps   *)
(* from the latest ProductCost, stockQuantity from the active variants,    *)
(* imageUrl from the primary medium.  A service writes the row it was      *)
(* asked to write and then reads and refreshes the copy, one statement     *)
(* after the other and in no transaction; edits by hand and the TikTok     *)
(* import write some of the copies directly.  A margin is the price and    *)
(* the cost it was computed from; the URL of a medium is the medium.       *)
(***************************************************************************)
EXTENDS Integers, FiniteSets, Functions

CONSTANTS
  Editors,    \* managers and synchronizations at work on the product
  Items,      \* costs, variants or media of the product
  Amounts,    \* prices, costs and stocks that are entered; bound
  Elsewhere,  \* an image that is no medium of the product
  Areas       \* sets of the copies at work in one behaviour; bound

ASSUME CatalogueAssumption ==
  /\ Amounts \subseteq Nat /\ 0 \notin Amounts /\ IsFiniteSet(Items)
  /\ Elsewhere \notin Items
  /\ Areas \subseteq SUBSET {"pricing", "stock", "cover"}

VARIABLES
  area,
  product,  \* the Product row
  costRow,  \* Items -> total and effectiveFrom of a ProductCost
  variant,  \* Items -> a ProductVariant
  medium,   \* Items -> a ProductMedia
  edit,     \* Editors -> the service call in progress
  blurred,    \* history: copies whose last refresh overlapped a write, or died
  typed     \* history: copies written by hand or by an import since their refresh

catalogueVars == <<area, product, costRow, variant, medium, edit, blurred, typed>>

NoEdit == [step |-> "idle", item |-> {}, price |-> 0, cost |-> 0, want |-> 0,
           margin |-> {}, primary |-> FALSE, cover |-> {}, clean |-> TRUE]
NoCost == [is |-> FALSE, total |-> 0, from |-> 0]
NoVariant == [is |-> FALSE, stock |-> 0, active |-> FALSE]
NoMedium == [is |-> FALSE, primary |-> FALSE]

CatalogueInit ==
  /\ area \in Areas
  /\ \E p \in Amounts : product = [price |-> p, cost |-> 0, margin |-> <<p, 0>>,
                                   stock |-> 0, cover |-> {}]
  /\ costRow = [i \in Items |-> NoCost]
  /\ variant = [i \in Items |-> NoVariant]
  /\ medium = [i \in Items |-> NoMedium]
  /\ edit = [m \in Editors |-> NoEdit]
  /\ blurred = {}
  /\ typed = {}

Stored(row) == {i \in Items : row[i].is}
Starts(m, e) == edit[m].step = "idle" /\ edit' = [edit EXCEPT ![m] = e]
Reads(m, e) == edit' = [edit EXCEPT ![m] = e]

(* Steps of calls that hold nothing read from the rows of a copy.           *)
Unread == {"idle", "uncost", "recalculate", "vary", "unvary", "list"}
Behind(e) == IF e.step \in Unread THEN e ELSE [e EXCEPT !.clean = FALSE]

(* A statement of m that writes: the calls that have read are behind.       *)
Writes(m, e) == edit' = [n \in Editors |-> IF n = m THEN e ELSE Behind(edit[n])]

(* The last write of a refresh of copy c.                                   *)
Refreshes(m, c) ==
  /\ blurred' = IF edit[m].clean THEN blurred \ {c} ELSE blurred \cup {c}
  /\ typed' = typed \ {c}

-----------------------------------------------------------------------------
(* Pricing: product.service.ts update, product-cost.service.ts add, remove. *)

(* The margin that an update writes: none, if the price stays.              *)
Repriced(price) == IF price # product.price THEN {<<price, product.cost>>} ELSE {}

ReadForUpdate(m, price) ==
  /\ "pricing" \in area
  /\ Starts(m, [NoEdit EXCEPT !.step = "update", !.want = price,
                              !.margin = Repriced(price)])
  /\ UNCHANGED <<area, product, costRow, variant, medium, blurred, typed>>

UpdatePrice(m) ==
  /\ edit[m].step = "update"
  /\ \E margin \in IF edit[m].margin = {} THEN {product.margin} ELSE edit[m].margin :
       product' = [product EXCEPT !.price = edit[m].want, !.margin = margin]
  /\ blurred' = IF edit[m].clean THEN blurred ELSE blurred \cup {"pricing"}
  /\ Writes(m, NoEdit)
  /\ UNCHANGED <<area, costRow, variant, medium, typed>>

AddCost(m, i, total, from) ==
  /\ "pricing" \in area /\ ~costRow[i].is
  /\ edit[m].step = "idle"
  /\ costRow' = [costRow EXCEPT ![i] = [is |-> TRUE, total |-> total, from |-> from]]
  /\ Writes(m, [NoEdit EXCEPT !.step = "recalculate"])
  /\ UNCHANGED <<area, product, variant, medium, blurred, typed>>

FindCost(m, i) ==
  /\ "pricing" \in area /\ costRow[i].is
  /\ Starts(m, [NoEdit EXCEPT !.step = "uncost", !.item = {i}])
  /\ UNCHANGED <<area, product, costRow, variant, medium, blurred, typed>>

(* deleteMany: no row is not an error. *)
DeleteCost(m) ==
  /\ edit[m].step = "uncost"
  /\ costRow' = [i \in Items |-> IF i \in edit[m].item THEN NoCost ELSE costRow[i]]
  /\ Writes(m, [NoEdit EXCEPT !.step = "recalculate"])
  /\ UNCHANGED <<area, product, variant, medium, blurred, typed>>

ReadProduct(m) ==
  /\ edit[m].step = "recalculate"
  /\ Reads(m, [NoEdit EXCEPT !.step = "current", !.price = product.price])
  /\ UNCHANGED <<area, product, costRow, variant, medium, blurred, typed>>

Latest(i) == \A j \in Stored(costRow) : costRow[j].from <= costRow[i].from

(* Totals that findCurrent may return: the database breaks ties.            *)
Current ==
  IF Stored(costRow) = {} THEN {0}
  ELSE {costRow[i].total : i \in {j \in Stored(costRow) : Latest(j)}}

(* Mutant: the cost that was entered last, or any other. *)
FoundCost_Any == IF Stored(costRow) = {} THEN {0}
                 ELSE {costRow[i].total : i \in Stored(costRow)}
FoundCost == Current

ReadCurrent(m) ==
  /\ edit[m].step = "current"
  /\ \E total \in FoundCost :
       Reads(m, [edit[m] EXCEPT !.step = "snapshot", !.cost = total])
  /\ UNCHANGED <<area, product, costRow, variant, medium, blurred, typed>>

SaveSnapshot(m) ==
  /\ edit[m].step = "snapshot"
  /\ product' = [product EXCEPT !.cost = edit[m].cost,
                                !.margin = <<edit[m].price, edit[m].cost>>]
  /\ Refreshes(m, "pricing")
  /\ Writes(m, NoEdit)
  /\ UNCHANGED <<area, costRow, variant, medium>>

-----------------------------------------------------------------------------
(* Stock: product-variant.service.ts. *)

AddVariant(m, i, stock, active) ==
  /\ "stock" \in area /\ ~variant[i].is
  /\ edit[m].step = "idle"
  /\ variant' = [variant EXCEPT ![i] = [is |-> TRUE, stock |-> stock, active |-> active]]
  /\ Writes(m, [NoEdit EXCEPT !.step = "list"])
  /\ UNCHANGED <<area, product, costRow, medium, blurred, typed>>

FindVariant(m, i, step, stock) ==
  /\ "stock" \in area /\ variant[i].is
  /\ Starts(m, [NoEdit EXCEPT !.step = step, !.item = {i}, !.want = stock])
  /\ UNCHANGED <<area, product, costRow, variant, medium, blurred, typed>>

(* Mutant: the update takes the variant for granted. *)
Matches_Any(i) == TRUE
Matches(i) == variant[i].is

(* The update of a variant that is gone fails before the stock is summed.   *)
UpdateVariant(m, active) ==
  /\ edit[m].step = "vary"
  /\ \E i \in edit[m].item :
       IF Matches(i)
       THEN /\ variant' = [variant EXCEPT ![i].stock = edit[m].want, ![i].active = active]
            /\ Writes(m, [NoEdit EXCEPT !.step = "list"])
       ELSE Reads(m, NoEdit) /\ UNCHANGED variant
  /\ UNCHANGED <<area, product, costRow, medium, blurred, typed>>

DeleteVariant(m) ==
  /\ edit[m].step = "unvary"
  /\ variant' = [i \in Items |-> IF i \in edit[m].item THEN NoVariant ELSE variant[i]]
  /\ Writes(m, [NoEdit EXCEPT !.step = "list"])
  /\ UNCHANGED <<area, product, costRow, medium, blurred, typed>>

Stocks == [i \in Items |-> variant[i].stock]
Total == SumFunctionOnSet(Stocks, {i \in Stored(variant) : variant[i].active})

(* Mutant: inactive variants count. *)
Summed_All == SumFunctionOnSet(Stocks, Stored(variant))
Summed == SumFunctionOnSet(Stocks, {i \in Stored(variant) : variant[i].active})

(* Without variants the stock of the product stays. *)
ListVariants(m) ==
  /\ edit[m].step = "list"
  /\ Reads(m, IF Stored(variant) = {} THEN NoEdit
              ELSE [NoEdit EXCEPT !.step = "store", !.want = Summed])
  /\ UNCHANGED <<area, product, costRow, variant, medium, blurred, typed>>

StoreStock(m) ==
  /\ edit[m].step = "store"
  /\ product' = [product EXCEPT !.stock = edit[m].want]
  /\ Refreshes(m, "stock")
  /\ Writes(m, NoEdit)
  /\ UNCHANGED <<area, costRow, variant, medium>>

-----------------------------------------------------------------------------
(* Cover: product-media.service.ts. *)

ReadForMedium(m, i, primary) ==
  /\ "cover" \in area /\ ~medium[i].is
  /\ \A n \in Editors : i \notin edit[n].item   \* a medium of its own
  /\ Starts(m, [NoEdit EXCEPT !.step = IF primary THEN "clear" ELSE "attach",
                              !.item = {i}, !.primary = primary, !.cover = product.cover])
  /\ UNCHANGED <<area, product, costRow, variant, medium, blurred, typed>>

FindMedium(m, i, step) ==
  /\ "cover" \in area /\ medium[i].is
  /\ Starts(m, [NoEdit EXCEPT !.step = step, !.item = {i}])
  /\ UNCHANGED <<area, product, costRow, variant, medium, blurred, typed>>

(* Mutant: the new primary medium is marked beside the old one. *)
Unmarked_Keeps == medium
Unmarked == [i \in Items |-> [medium[i] EXCEPT !.primary = FALSE]]

(* clearPrimary, on the way to an insert ("clear") or to a mark ("choose"). *)
ClearPrimary(m) ==
  /\ edit[m].step \in {"clear", "choose"}
  /\ medium' = Unmarked
  /\ Writes(m, [edit[m] EXCEPT !.step = IF @ = "clear" THEN "attach" ELSE "mark"])
  /\ UNCHANGED <<area, product, costRow, variant, blurred, typed>>

(* The insert; the image follows for a primary medium and a bare product.   *)
CreateMedium(m) ==
  /\ edit[m].step = "attach"
  /\ medium' = [i \in Items |-> IF i \in edit[m].item
                                THEN [is |-> TRUE, primary |-> edit[m].primary]
                                ELSE medium[i]]
  /\ Writes(m, IF edit[m].primary \/ edit[m].cover = {}
               THEN [edit[m] EXCEPT !.step = "show"] ELSE NoEdit)
  /\ blurred' = IF edit[m].clean THEN blurred ELSE blurred \cup {"cover"}
  /\ UNCHANGED <<area, product, costRow, variant, typed>>

(* The mark of a medium that is gone marks nothing, and goes on.            *)
MarkPrimary(m) ==
  /\ edit[m].step = "mark"
  /\ medium' = [i \in Items |-> IF i \in edit[m].item /\ medium[i].is
                                THEN [medium[i] EXCEPT !.primary = TRUE] ELSE medium[i]]
  /\ Writes(m, [edit[m] EXCEPT !.step = "show", !.primary = TRUE])
  /\ UNCHANGED <<area, product, costRow, variant, blurred, typed>>

DeleteMedium(m) ==
  /\ edit[m].step = "detach"
  /\ medium' = [i \in Items |-> IF i \in edit[m].item THEN NoMedium ELSE medium[i]]
  /\ Writes(m, [edit[m] EXCEPT !.step = "check"])
  /\ UNCHANGED <<area, product, costRow, variant, blurred, typed>>

ReadCover(m) ==
  /\ edit[m].step = "check"
  /\ Reads(m, IF product.cover = edit[m].item THEN [edit[m] EXCEPT !.step = "remaining"]
              ELSE NoEdit)
  /\ UNCHANGED <<area, product, costRow, variant, medium, blurred, typed>>

(* listByProduct: the primary medium first, then by a position chosen by    *)
(* hand.                                                                    *)
ListMedia(m) ==
  /\ edit[m].step = "remaining"
  /\ LET first == {i \in Stored(medium) :
                     medium[i].primary \/ \A j \in Stored(medium) : ~medium[j].primary}
     IN \/ first = {} /\ Reads(m, [edit[m] EXCEPT !.step = "show", !.item = {}])
        \/ \E i \in first : Reads(m, [edit[m] EXCEPT !.step = "show", !.item = {i}])
  /\ UNCHANGED <<area, product, costRow, variant, medium, blurred, typed>>

ShowCover(m) ==
  /\ edit[m].step = "show"
  /\ product' = [product EXCEPT !.cover = edit[m].item]
  /\ \/ edit[m].primary /\ Refreshes(m, "cover")
     \/ /\ ~edit[m].primary
        /\ blurred' = IF edit[m].clean THEN blurred ELSE blurred \cup {"cover"}
        /\ UNCHANGED typed
  /\ Writes(m, NoEdit)
  /\ UNCHANGED <<area, costRow, variant, medium>>

-----------------------------------------------------------------------------
(* Writes of the copies themselves, and calls that end midway. *)

Overtaken == edit' = [m \in Editors |-> Behind(edit[m])]

(* update with a stock, or with the URL of an image. *)
EditStock(stock) ==
  /\ "stock" \in area
  /\ product' = [product EXCEPT !.stock = stock]
  /\ typed' = typed \cup {"stock"}
  /\ Overtaken
  /\ UNCHANGED <<area, costRow, variant, medium, blurred>>

EditImage ==
  /\ "cover" \in area
  /\ product' = [product EXCEPT !.cover = {Elsewhere}]
  /\ typed' = typed \cup {"cover"}
  /\ Overtaken
  /\ UNCHANGED <<area, costRow, variant, medium, blurred>>

(* The TikTok import of a product that exists: price, stock and image of    *)
(* the shop, and neither cost nor margin.  Only the columns of the area.    *)
ImportProduct(price, stock, cover) ==
  /\ product' = [product EXCEPT !.price = IF "pricing" \in area THEN price ELSE @,
                                !.stock = IF "stock" \in area THEN stock ELSE @,
                                !.cover = IF "cover" \in area THEN cover ELSE @]
  /\ typed' = typed \cup area
  /\ Overtaken
  /\ UNCHANGED <<area, costRow, variant, medium, blurred>>

Underway == {"recalculate", "current", "snapshot", "list", "store",
             "attach", "mark", "show", "check", "remaining"}

EditDies(m) ==
  /\ edit[m].step # "idle"
  /\ blurred' = IF edit[m].step \in Underway THEN blurred \cup area ELSE blurred
  /\ Reads(m, NoEdit)
  /\ UNCHANGED <<area, product, costRow, variant, medium, typed>>

PricingNext(m) ==
  \/ \E p \in Amounts : ReadForUpdate(m, p)
  \/ UpdatePrice(m)
  \/ \E i \in Items : FindCost(m, i) \/ \E t, f \in Amounts : AddCost(m, i, t, f)
  \/ DeleteCost(m) \/ ReadProduct(m) \/ ReadCurrent(m) \/ SaveSnapshot(m)

StockNext(m) ==
  \/ \E i \in Items, n \in Amounts :
       \/ \E active \in BOOLEAN : AddVariant(m, i, n, active)
       \/ FindVariant(m, i, "vary", n) \/ FindVariant(m, i, "unvary", 0)
  \/ \E active \in BOOLEAN : UpdateVariant(m, active)
  \/ DeleteVariant(m) \/ ListVariants(m) \/ StoreStock(m)

CoverNext(m) ==
  \/ \E i \in Items :
       \/ \E primary \in BOOLEAN : ReadForMedium(m, i, primary)
       \/ FindMedium(m, i, "choose") \/ FindMedium(m, i, "detach")
  \/ ClearPrimary(m) \/ CreateMedium(m) \/ MarkPrimary(m) \/ DeleteMedium(m)
  \/ ReadCover(m) \/ ListMedia(m) \/ ShowCover(m)

CatalogueNext ==
  \/ \E m \in Editors : PricingNext(m) \/ StockNext(m) \/ CoverNext(m) \/ EditDies(m)
  \/ EditImage
  \/ \E n \in Amounts : EditStock(n) \/ \E c \in {{}, {Elsewhere}} : ImportProduct(n, n, c)

CatalogueSpec == CatalogueInit /\ [][CatalogueNext]_catalogueVars

-----------------------------------------------------------------------------
(* Properties. *)

(* Rows and calls keep their shape, and a row that is gone holds nothing.   *)
CatalogueTypeOK ==
  /\ area \in Areas
  /\ product.price \in Amounts /\ product.cost \in Amounts \cup {0}
  /\ product.margin \in Amounts \X (Amounts \cup {0})
  /\ product.stock \in Nat
  /\ product.cover \subseteq Items \cup {Elsewhere} /\ Cardinality(product.cover) <= 1
  /\ \A i \in Items :
       /\ costRow[i].is \in BOOLEAN
       /\ costRow[i].total \in Amounts \cup {0} /\ costRow[i].from \in Amounts \cup {0}
       /\ ~variant[i].is => variant[i] = NoVariant
       /\ ~medium[i].is => medium[i] = NoMedium
  /\ \A m \in Editors : edit[m].clean \in BOOLEAN
  /\ blurred \subseteq {"pricing", "stock", "cover"}
  /\ typed \subseteq {"pricing", "stock", "cover"}

Quiet == \A m \in Editors : edit[m].step \notin Underway

(* Whatever managers enter and remove, and in whatever order their calls    *)
(* interleave elsewhere: if the calls that refresh a copy did not overlap   *)
(* another write or die, cost and margin are those of the price and of the  *)
(* latest cost.                                                             *)
PricingInStep ==
  Quiet /\ "pricing" \notin blurred \cup typed
    => product.cost \in Current /\ product.margin = <<product.price, product.cost>>

(* The same of the stock of a product with variants, and of its image: one  *)
(* medium at most is primary, and the product shows it.                     *)
StockInStep ==
  Quiet /\ "stock" \notin blurred \cup typed /\ Stored(variant) # {}
    => product.stock = Total

CoverInStep ==
  Quiet /\ "cover" \notin blurred =>
    LET primary == {i \in Items : medium[i].primary}
    IN /\ Cardinality(primary) <= 1
       /\ "cover" \notin typed => \A i \in primary : product.cover = {i}

(* Whatever a product keeps a copy of is in step with the rows that the     *)
(* copy was made from, once no refresh of it is underway.                   *)
CopiesInStep == CatalogueTypeOK /\ PricingInStep /\ StockInStep /\ CoverInStep
=============================================================================
