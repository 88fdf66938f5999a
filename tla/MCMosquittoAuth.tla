--------------------------- MODULE MCMosquittoAuth --------------------------
(* Two users and a name that is none; a table with an ordinary user, one   *)
(* with an admin too, one in which a name occurs twice; options that lack  *)
(* a database, name one that cannot be opened, and name two.               *)
EXTENDS MosquittoAuth

CONSTANTS ann, bob, secret, guess, data, admin, mink_db, missing_db

Row(username, password, flags) ==
  [username |-> username, password |-> password, flags |-> flags]

MCUserTables ==
  {{}, {Row(ann, secret, 0)}, {Row(ann, secret, 0), Row(bob, guess, 1)},
   {Row(bob, secret, 0), Row(bob, guess, 1)}}

Option(key, value) == [key |-> key, value |-> value]

MCOptionLists ==
  {<<>>, <<Option("other", mink_db)>>, <<Option("db_name", missing_db)>>,
   <<Option("db_name", mink_db), Option("other", missing_db)>>,
   <<Option("db_name", missing_db), Option("db_name_other", mink_db)>>}
=============================================================================
