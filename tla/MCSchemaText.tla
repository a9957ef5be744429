---------------------------- MODULE MCSchemaText ----------------------------
(* Names and comments made of everything the readers look at. *)
EXTENDS SchemaText

Everything == {Backtick, Apostrophe, "\\", "(", ")", ",", "a", "FOREIGN KEY ",
               " AUTO_INCREMENT=7"}
=============================================================================
