----------------------- MODULE MCCrossAccountRestore -----------------------
(* Three backups of one user.  In the second the first account has a         *)
(* transaction, and another account, now closed, is named like the merged    *)
(* first one.  In the third a category has been renamed, and its name given  *)
(* to another.  The user has an account, and one of the categories, the      *)
(* backups know, under names that differ by case.                            *)
(*                                                                           *)
(* "Ecole" and "Etude" stand for words that begin with a letter which SQLite *)
(* leaves as it is.  The first and the third backup have a category of the   *)
(* first name each, and an account; the first and the second a category of   *)
(* the second name, one of them in capitals.                                 *)
EXTENDS CrossAccountRestore
CONSTANTS s1, s2, a1, a2, school, other, f1, f2, food, lunch, snack, ecole1, ecole2, etude1, etude2, home_lunch
MCWord == {"cash", "Cash", "lunch", "Lunch", "food", "meals", "ecole", "Ecole",
           "etude", "Etude", "ETUDE"}
Capitals == ("Cash" :> "cash") @@ ("Lunch" :> "lunch")
MCLower ==
  ("Ecole" :> "ecole") @@ ("Etude" :> "etude") @@ ("ETUDE" :> "etude") @@ Capitals @@ [w \in MCWord |-> w]
MCSqlLower == ("ETUDE" :> "Etude") @@ Capitals @@ [w \in MCWord |-> w]
Plain(w) == [word |-> w, again |-> <<>>]
MCHomeName == Plain("Cash")
MCHomeCategories == home_lunch :> [name |-> "lunch", parent |-> NoParent]
First == [id |-> a1, name |-> Plain("cash"), open |-> TRUE]
Closed(id, n) == [id |-> id, name |-> n, open |-> FALSE]
Category(id, w) == [id |-> id, name |-> w, parent |-> NoParent]
Food == Category(food, "food")
Under(p, c) == [c EXCEPT !.parent = p]
Early ==
  [accounts |-> <<First, Closed(school, Plain("Ecole"))>>,
   categories |-> <<Food, Category(ecole1, "Ecole"), Category(etude1, "Etude")>>, txns |-> {}, files |-> {}]
Later ==
  [accounts |-> <<First, Closed(a2, [word |-> "Cash", again |-> <<1>>])>>,
   categories |-> <<Under(food, Category(lunch, "Lunch")), Food, Category(etude2, "ETUDE")>>,
   txns |-> {[id |-> 1, on |-> a1, category |-> lunch]}, files |-> {f1, f2}]
Renamed ==
  [accounts |-> <<First, Closed(other, Plain("Ecole"))>>,
   categories |-> <<Category(food, "meals"), Under(food, Category(snack, "food")), Category(ecole2, "Ecole")>>,
   txns |-> {[id |-> 1, on |-> a1, category |-> food], [id |-> 2, on |-> a1, category |-> ecole2]},
   files |-> {}]
MCBackup == {Early, Later, Renamed}
Alike == Permutations({s1, s2}) \cup Permutations({f1, f2})
=============================================================================
