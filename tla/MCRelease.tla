----------------------------- MODULE MCRelease -----------------------------
EXTENDS Release

ThreeFamilies == <<"clang", "go", "ruby">>
=============================================================================
