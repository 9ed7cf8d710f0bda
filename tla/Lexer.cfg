SPECIFICATION Spec
CONSTANT Texts <- MCTexts
INVARIANTS EveryCharacterRead WordsTold
