\* Files of up to two rules, names of up to three words in five styles.
SPECIFICATION CellsSpec
CONSTANTS
    Lines <- MCLines
    MaxRules = 2
    Names <- MCNames
    Casts = {"none", "int4", "date"}
    Literals <- MCLiterals
    Epochs <- MCEpochs
    Fuzz = TRUE
INVARIANTS
    ConventionsAgree
    TypesAgree
    BinaryIsExact
    DatesAreReal
PROPERTIES
    RulesLayer
CHECK_DEADLOCK FALSE
