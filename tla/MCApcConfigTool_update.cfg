\* An update of a running configuration.
CONSTANTS
    Names <- MCNames
    AllNames <- MCAllNames
    Hosts <- MCHosts
    Template = Template
    NoConf = NoConf
    NoArg = NoArg
SPECIFICATION Spec
INVARIANT RunningUsesItsConf
