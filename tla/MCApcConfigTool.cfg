\* Any sequence of add, update and delete runs of the tool.
CONSTANTS
    Names <- MCNames
    AllNames <- MCAllNames
    Hosts <- MCHosts
    Template = Template
    NoConf = NoConf
    NoArg = NoArg
SPECIFICATION Spec
INVARIANT TypeOK ConfPairsConsistent
