------------------------------ MODULE MCBuilds ------------------------------
EXTENDS Builds

CONSTANTS bin, lib, dep

MCBelow(c) == CASE c = dep -> {} [] c = lib -> {dep} [] c = bin -> {lib, dep}

MCIncludes(n) == CASE n = 1 -> {dep} [] n = 2 -> {} [] OTHER -> {dep, lib}

MCCommand == {{}, {dep}}
=============================================================================
