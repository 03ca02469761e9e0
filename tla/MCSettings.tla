----------------------------- MODULE MCSettings -----------------------------
(* A disk in memory with a letter, one with a letter that is not allowed,   *)
(* one on an image file at an offset, with a name that is long or not, one  *)
(* on a server, and one that the driver refuses, without a file or a size.  *)
EXTENDS Settings

CONSTANTS p1, name, long, size, vm, file, proxy, letter, reserved, offset

MCValues == {name, long, size, vm, file, proxy, letter, reserved, offset}

Memory == [f \in Fields |-> CASE f = "Size" -> size
                              [] f = "Flags" -> vm
                              [] f = "DriveLetter" -> letter
                              [] OTHER -> NoValue]

Image == [f \in Fields |-> CASE f = "ImageFileName" -> name
                             [] f = "Size" -> size
                             [] f = "Flags" -> file
                             [] f = "ImageOffset" -> offset
                             [] OTHER -> NoValue]

Server == [f \in Fields |-> CASE f = "ImageFileName" -> name
                              [] f = "Flags" -> proxy
                              [] OTHER -> NoValue]

Blank == [f \in Fields |-> IF f = "Flags" THEN vm ELSE NoValue]

LongImage == [Image EXCEPT !["ImageFileName"] = long]

MCDisks == {Memory, Blank, [Memory EXCEPT !["DriveLetter"] = reserved], Image, LongImage, Server}

\* Bound: numbers of which a user was told that the edit failed, and calls that failed
\* without anybody noticing.
MaxFailures == 1

Told == Cardinality({n \in Numbers : kept[n] = Unknown})
Unnoticed == Cardinality({<<n, f>> \in Numbers \X Fields : f \in left[n]}) + Cardinality(cut)

Bounded == Told + Unnoticed <= MaxFailures
=============================================================================
