---------------------------- MODULE MCModelPackage ----------------------------
EXTENDS ModelPackage
CONSTANTS p1, p2, r1, weights, tokenizer, special

MCPackagers == {p1, p2}
MCReaders == {r1}
\* An item of one file, and a directory with a file that loading does not require.
MCItems == << {weights}, {tokenizer, special} >>
MCRequired == {weights, tokenizer}
=============================================================================
