---------------------------- MODULE DoxygenText ----------------------------
(***************************************************************************)
(* The texts of a documentation: a text is a sequence of tokens; a token   *)
(* is a tuple, so that a name can be a token of its own.                   *)
(***************************************************************************)
Blank  == <<" ">>          \* white space
Break  == <<"\n\n">>       \* the end of a paragraph
Markup == <<"<">>          \* a character that XML reserves
Number == <<"1">>          \* the text of an integer
Printed == <<"object at 0x">>  \* what str() gives for an object
NoText == <<"None">>   \* no description at all, which is not the empty text

=============================================================================
